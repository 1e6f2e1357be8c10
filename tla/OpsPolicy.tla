----------------------------- MODULE OpsPolicy -----------------------------
(***************************************************************************)
(* How the parameters of a profile change on their own: the server starts  *)
(* a worker process (infra/ops_support_worker.py) after a cycle, on the    *)
(* owner's word and on Saturdays; the worker asks an LLM and writes        *)
(* data/profiles/<uid>/overrides.json; what it may not decide goes to the  *)
(* owner (policy_pending.json) or waits for Saturday                       *)
(* (weekly_deferred.json).                                                 *)
(*                                                                         *)
(* Each process reads a whole file and writes it back, and no lock keeps   *)
(* two of them apart.  A value is the worker that proposed it, 0 no value: *)
(* clamping and coercing keep the author.  The LLM may answer anything.    *)
(***************************************************************************)
EXTENDS Integers, FiniteSets

CONSTANTS Tactical,    \* parameters of tier "cycle"
          Structural,  \* STRATEGY_WEEKLY_TIER_KEYS
          Policy,      \* OPS_PROTECTED_KEYS
          MaxWorkers,  \* bound: workers started
          MaxTicks,    \* bound: half-weeks, the odd ones are Saturdays
          MaxKills     \* bound: deaths of the server

Keys == Tactical \cup Structural \cup Policy
Workers == 1 .. MaxWorkers
Server == 0
Procs == {Server} \cup Workers

ASSUME OpsAssumption ==
  /\ MaxWorkers \in Nat /\ MaxTicks \in Nat /\ MaxKills \in Nat
  /\ Tactical \cap Structural = {} /\ Policy \cap (Tactical \cup Structural) = {}

VARIABLES
  override, inbox, queue,  \* the three files
  at,        \* where each process is
  seen,      \* what it read of the file it is about to write
  mixed,     \* processes whose read or write overlapped a write of that file
  params,    \* what it will merge into override
  review, defer,  \* what a worker has still to put into inbox and queue
  started, trigger, informed,  \* workers started; of each: its trigger, whether it has data
  given,     \* of each: the deferred proposals in its directive
  week,      \* of each: the week whose review started it, 0 otherwise
  items,     \* what approve or reject will save in inbox
  ticks, marker, due,  \* time; the last week reviewed; OPS_THROTTLE_SEC have passed
  \* history, for the properties
  kills, unmarked, approved, promised

files == <<override, inbox, queue>>
proc == <<at, seen, mixed, params, review, defer>>
born == <<started, trigger, informed, given, week>>
clock == <<ticks, marker, due>>
history == <<kills, unmarked, approved, promised>>
vars == <<override, inbox, queue, at, seen, mixed, params, review, defer,
          started, trigger, informed, given, week, items, ticks, marker, due,
          kills, unmarked, approved, promised>>

File == [Keys -> 0 .. MaxWorkers]
Empty == [k \in Keys |-> 0]
In(f) == {k \in Keys : f[k] # 0}
Only(w, K) == [k \in Keys |-> IF k \in K THEN w ELSE 0]

Init ==
  /\ override = Empty /\ inbox = Empty /\ queue = Empty
  /\ at = [p \in Procs |-> IF p = Server THEN "idle" ELSE "unborn"]
  /\ seen = [p \in Procs |-> Empty] /\ mixed = {}
  /\ params = [p \in Procs |-> Empty]
  /\ review = [w \in Workers |-> {}] /\ defer = [w \in Workers |-> {}]
  /\ started = 0
  /\ trigger = [w \in Workers |-> "none"] /\ informed = [w \in Workers |-> FALSE]
  /\ given = [w \in Workers |-> Empty] /\ week = [w \in Workers |-> 0]
  /\ items = Empty
  /\ ticks = 0 /\ marker = 0 /\ due = TRUE
  /\ kills = 0 /\ unmarked = 0 /\ approved = {} /\ promised = {}

-----------------------------------------------------------------------------
(* What the server starts. *)

Saturday == ticks % 2 = 1
ThisWeek == (ticks + 1) \div 2

\* A directive that speaks of the weekly loop is taken for the weekly review.
TriggerOf(manual, words) ==
  IF manual /\ words THEN "weekly" ELSE IF manual THEN "manual" ELSE "cycle"

\* Whether a worker finds cycles of its profile to judge by.
Found == BOOLEAN

\* Popen: the worker runs on its own.
Spawn(manual, words, G, wk) ==
  LET w == started + 1
  IN /\ w \in Workers /\ started' = w
     /\ at[w] = "unborn"
     /\ trigger' = [trigger EXCEPT ![w] = TriggerOf(manual, words)]
     /\ \E data \in Found : informed' = [informed EXCEPT ![w] = data]
     /\ given' = [given EXCEPT ![w] = G]
     /\ week' = [week EXCEPT ![w] = wk]

\* After a recorded cycle, once an hour; the switch may be off, or Popen fail.
AfterCycle ==
  /\ at[Server] = "idle" /\ due
  /\ \/ /\ Spawn(FALSE, FALSE, Empty, 0)
        /\ at' = [at EXCEPT ![Server] = "marking", ![started + 1] = "asking"]
     \/ at' = [at EXCEPT ![Server] = "marking"] /\ UNCHANGED born
  /\ UNCHANGED <<files, seen, mixed, params, review, defer, items, clock, history>>

\* The marker is written after the worker is started; a failure is swallowed.
CycleMarked ==
  /\ at[Server] = "marking"
  /\ at' = [at EXCEPT ![Server] = "idle"] /\ due' \in BOOLEAN
  /\ UNCHANGED <<files, seen, mixed, params, review, defer, born, items, ticks, marker, history>>

\* The owner's word, said to the chief of operations or chained to him.
Directive ==
  /\ at[Server] = "idle"
  /\ \E words \in BOOLEAN : Spawn(TRUE, words, Empty, 0)
  /\ at' = [at EXCEPT ![started + 1] = "asking"]
  /\ UNCHANGED <<files, seen, mixed, params, review, defer, items, clock, history>>

-----------------------------------------------------------------------------
(* trigger_if_due: one call of the scheduler, which other processes may cut *)
(* into and the death of the server may end. *)

ShouldRunEverySaturday == Saturday
ShouldRun == Saturday /\ marker # ThisWeek

\* The summary lists what was deferred.
WeeklyDue ==
  /\ at[Server] = "idle" /\ ShouldRun
  /\ at' = [at EXCEPT ![Server] = "weekly"]
  /\ seen' = [seen EXCEPT ![Server] = queue]
  /\ UNCHANGED <<files, mixed, params, review, defer, born, items, clock, history>>

\* When the worker cannot be started, the call ends there.
OnFailureClearing == IF In(seen[Server]) # {} THEN "clearing" ELSE "idle"
OnFailure == "idle"

WeeklySpawned ==
  /\ at[Server] = "weekly"
  /\ \/ /\ Spawn(TRUE, TRUE, seen[Server], ThisWeek)
        /\ at' = [at EXCEPT ![Server] = "noting", ![started + 1] = "asking"]
     \/ at' = [at EXCEPT ![Server] = OnFailure] /\ UNCHANGED born
  /\ UNCHANGED <<files, seen, mixed, params, review, defer, items, clock, history>>

\* A write that fails is only logged; the old marker stays, or an empty file.
MarkerLost == marker' \in {marker, 0} /\ unmarked' = unmarked + 1

WeeklyNoted ==
  /\ at[Server] = "noting"
  /\ (marker' = ThisWeek /\ unmarked' = unmarked) \/ MarkerLost
  /\ at' = [at EXCEPT ![Server] = IF In(seen[Server]) # {} THEN "clearing" ELSE "idle"]
  /\ UNCHANGED <<files, seen, mixed, params, review, defer, born, items, ticks, due,
                 kills, approved, promised>>

\* A save of the queue that fails is only logged, and leaves the file.
Saved(f) == {f, queue}

QueueCleared ==
  /\ at[Server] = "clearing"
  /\ queue' \in Saved(Empty)
  /\ at' = [at EXCEPT ![Server] = "idle"] /\ seen' = [seen EXCEPT ![Server] = Empty]
  /\ UNCHANGED <<override, inbox, mixed, params, review, defer, born, items, clock, history>>

-----------------------------------------------------------------------------
(* The worker. *)

\* Without cycles of the profile's own only the owner's word counts.
Gated(w, P) == IF trigger[w] = "manual" \/ informed[w] THEN P ELSE {}

\* Policy is the owner's: he says so, or is asked on a Saturday.
KeptAll(w, P) == P
Kept(w, P) == IF trigger[w] = "manual" THEN P ELSE P \ Policy

ForReview(w, P) == IF trigger[w] = "weekly" THEN P \cap Policy ELSE {}

\* What changes the model waits for the review.
Deferred(w, P) == IF trigger[w] = "cycle" THEN Kept(w, P) \cap Structural ELSE {}
Applied(w, P) == Kept(w, P) \ Deferred(w, P)

\* review and defer come before the overrides.
Stage(R, D, ps) ==
  IF R # {} THEN "reviewing" ELSE IF D # {} THEN "deferring"
  ELSE IF In(ps) # {} THEN "merging" ELSE "done"

\* What the LLM proposes: anything, or, when it fails, nothing.
Proposals == SUBSET Keys

\* The answer is sorted into what waits and what is applied.
Answer(w) ==
  /\ at[w] = "asking"
  /\ \E P \in Proposals :
       LET G == Gated(w, P)
           ps == Only(w, Applied(w, G))
       IN /\ review' = [review EXCEPT ![w] = ForReview(w, G)]
          /\ defer' = [defer EXCEPT ![w] = Deferred(w, G)]
          /\ params' = [params EXCEPT ![w] = ps]
          /\ at' = [at EXCEPT ![w] = Stage(ForReview(w, G), Deferred(w, G), ps)]
  /\ UNCHANGED <<files, seen, mixed, born, items, clock, history>>

-----------------------------------------------------------------------------
(* Files written in place: one that is being written reads as empty, and two *)
(* writers at once may leave one that does not parse. *)

InboxStages == {"filing", "settling"}
OverrideStages == {"storing"}

Writing(p, stages) == {q \in Procs \ {p} : at[q] \in stages}

\* What p reads of file f while others are at a stage that writes it.
Read(p, f, stages) ==
  \/ seen' = [seen EXCEPT ![p] = f] /\ mixed' = mixed \ {p}
  \/ /\ Writing(p, stages) # {}
     /\ seen' = [seen EXCEPT ![p] = Empty] /\ mixed' = mixed \cup {p}

\* p has written: what others have read is outdated, and their file is shared.
Outdates(p, stages) == mixed' = (mixed \ {p}) \cup Writing(p, stages)

\* A file that holds old and is written as f: a write that fails is only logged,
\* and leaves it as it was or cut.
Written(old, f) == {f, old, Empty}

\* enqueue of policy_approval_inbox, key by key.
InboxRead(w) ==
  /\ at[w] = "reviewing"
  /\ Read(w, inbox, InboxStages)
  /\ at' = [at EXCEPT ![w] = "filing"]
  /\ UNCHANGED <<files, params, review, defer, born, items, clock, history>>

InboxWritten(w) ==
  /\ at[w] = "filing"
  /\ \E k \in review[w] :
       /\ inbox' \in Written(inbox, [seen[w] EXCEPT ![k] = w])
       /\ review' = [review EXCEPT ![w] = @ \ {k}]
  /\ Outdates(w, InboxStages)
  /\ seen' = [seen EXCEPT ![w] = Empty]
  /\ at' = [at EXCEPT ![w] = Stage(review'[w], defer[w], params[w])]
  /\ UNCHANGED <<override, queue, params, defer, born, items, clock, history>>

\* enqueue of weekly_defer_queue, key by key.
QueueRead(w) ==
  /\ at[w] = "deferring"
  /\ seen' = [seen EXCEPT ![w] = queue]
  /\ at' = [at EXCEPT ![w] = "queueing"]
  /\ UNCHANGED <<files, mixed, params, review, defer, born, items, clock, history>>

\* Nobody else is between its read of the queue and what it does with it; the
\* queue's temporary file has one name, which two writers would share.
Quiet(w) ==
  /\ \A v \in Workers \ {w} : at[v] # "queueing"
  /\ at[Server] \notin {"weekly", "noting", "clearing"}

QueueWritten(w) ==
  /\ at[w] = "queueing"
  /\ \E k \in defer[w] :
       /\ queue' \in Saved([seen[w] EXCEPT ![k] = w])
       /\ defer' = [defer EXCEPT ![w] = @ \ {k}]
       /\ promised' = {pr \in promised : queue'[k] = w => pr[1] # k} \cup
                      (IF Quiet(w) /\ queue'[k] = w THEN {<<k, w>>} ELSE {})
  /\ seen' = [seen EXCEPT ![w] = Empty]
  /\ at' = [at EXCEPT ![w] = Stage({}, defer'[w], params[w])]
  /\ UNCHANGED <<override, inbox, mixed, params, review, born, items, clock,
                 kills, unmarked, approved>>

\* set_overrides, of a worker or of the server.
OverridesRead(p) ==
  /\ at[p] = "merging"
  /\ Read(p, override, OverrideStages)
  /\ at' = [at EXCEPT ![p] = "storing"]
  /\ UNCHANGED <<files, params, review, defer, born, items, clock, history>>

MergeForgets(old, new) == new
Merge(old, new) == [k \in Keys |-> IF new[k] # 0 THEN new[k] ELSE old[k]]

OverridesWritten(p) ==
  /\ at[p] = "storing"
  /\ override' \in Written(override, Merge(seen[p], params[p]))
  /\ Outdates(p, OverrideStages)
  /\ seen' = [seen EXCEPT ![p] = Empty] /\ params' = [params EXCEPT ![p] = Empty]
  /\ at' = [at EXCEPT ![p] = IF p = Server THEN "settling" ELSE "done"]
  /\ UNCHANGED <<inbox, queue, review, defer, born, items, clock, history>>

-----------------------------------------------------------------------------
(* The owner approves or rejects what waits, by its key.  The server reads *)
(* the file once, and writes it when the overrides are written. *)

Approve(k) ==
  /\ at[Server] = "idle" /\ inbox[k] # 0
  /\ items' = [inbox EXCEPT ![k] = 0]
  /\ params' = [params EXCEPT ![Server] = [Empty EXCEPT ![k] = inbox[k]]]
  /\ approved' = approved \cup {<<k, inbox[k]>>}
  /\ at' = [at EXCEPT ![Server] = "merging"]
  /\ UNCHANGED <<files, seen, mixed, review, defer, born, clock, kills, unmarked, promised>>

Reject(k) ==
  /\ at[Server] = "idle" /\ inbox[k] # 0
  /\ items' = [inbox EXCEPT ![k] = 0]
  /\ at' = [at EXCEPT ![Server] = "settling"]
  /\ UNCHANGED <<files, seen, mixed, params, review, defer, born, clock, history>>

InboxSettled ==
  /\ at[Server] = "settling"
  /\ inbox' \in Written(inbox, items)
  /\ Outdates(Server, InboxStages)
  /\ items' = Empty /\ at' = [at EXCEPT ![Server] = "idle"]
  /\ UNCHANGED <<override, queue, seen, params, review, defer, born, clock, history>>

-----------------------------------------------------------------------------
(* The server dies and is started again; its workers go on. *)
Restart ==
  /\ kills < MaxKills /\ kills' = kills + 1
  /\ at[Server] # "idle"
  /\ override' \in {override} \cup (IF at[Server] = "storing" THEN {Empty} ELSE {})
  /\ inbox' \in {inbox} \cup (IF at[Server] = "settling" THEN {Empty} ELSE {})
  /\ IF at[Server] = "noting" THEN MarkerLost ELSE UNCHANGED <<marker, unmarked>>
  /\ at' = [at EXCEPT ![Server] = "idle"]
  /\ seen' = [seen EXCEPT ![Server] = Empty] /\ params' = [params EXCEPT ![Server] = Empty]
  /\ items' = Empty
  /\ mixed' = (mixed \ {Server}) \cup
       (IF at[Server] = "storing" THEN Writing(Server, OverrideStages)
        ELSE IF at[Server] = "settling" THEN Writing(Server, InboxStages) ELSE {})
  /\ UNCHANGED <<queue, review, defer, born, ticks, due, approved, promised>>

\* A call of the server is short: time passes between two of them.
Tick ==
  /\ at[Server] = "idle"
  /\ ticks < MaxTicks /\ ticks' = ticks + 1 /\ due' = TRUE
  /\ UNCHANGED <<files, proc, born, items, marker, history>>

WorkerStep(w) ==
  \/ Answer(w)
  \/ InboxRead(w) \/ InboxWritten(w)
  \/ QueueRead(w) \/ QueueWritten(w)

Next ==
  \/ AfterCycle \/ CycleMarked \/ Directive
  \/ WeeklyDue \/ WeeklySpawned \/ WeeklyNoted \/ QueueCleared
  \/ \E w \in Workers : WorkerStep(w)
  \/ \E p \in Procs : OverridesRead(p) \/ OverridesWritten(p)
  \/ \E k \in Keys : Approve(k) \/ Reject(k)
  \/ InboxSettled
  \/ Restart \/ Tick

Spec == Init /\ [][Next]_vars

-----------------------------------------------------------------------------
(* Shape of the state. *)
TypeOK ==
  /\ override \in File /\ inbox \in File /\ queue \in File /\ items \in File
  /\ at \in [Procs -> {"idle", "marking", "weekly", "noting", "clearing", "settling",
                       "merging", "storing", "unborn", "asking", "reviewing", "filing",
                       "deferring", "queueing", "done"}]
  /\ seen \in [Procs -> File] /\ params \in [Procs -> File] /\ mixed \subseteq Procs
  /\ review \in [Workers -> SUBSET Keys] /\ defer \in [Workers -> SUBSET Keys]
  /\ started \in 0 .. MaxWorkers
  /\ trigger \in [Workers -> {"none", "cycle", "weekly", "manual"}]
  /\ informed \in [Workers -> BOOLEAN] /\ given \in [Workers -> File]
  /\ week \in [Workers -> Nat] /\ ticks \in Nat /\ marker \in Nat /\ due \in BOOLEAN
  /\ kills \in Nat /\ unmarked \in Nat
  /\ approved \subseteq Keys \X Workers /\ promised \subseteq Keys \X Workers

\* The worker w may decide parameter k.
May(w, k) ==
  /\ trigger[w] = "manual" \/ informed[w]
  /\ k \in Structural => trigger[w] \in {"weekly", "manual"}
  /\ k \in Policy => trigger[w] = "manual" \/ (trigger[w] = "weekly" /\ <<k, w>> \in approved)

\* Whatever the LLM answers and however the writes fall, an override comes from
\* a worker that may decide it: policy from the owner's word or his approval of a
\* Saturday proposal, structure from those or a Saturday, and nothing but the
\* owner's word without cycles to judge by (_gate_overrides_by_data,
\* partition_protected, partition_by_tier, approve).
Licensed == \A k \in In(override) : May(override[k], k)

\* A structural proposal that a weekday saves while nobody else handles the
\* queue stays there until a newer one replaces it or a Saturday worker has it in
\* its directive: the review empties the queue only after the worker is started
\* (trigger_if_due).
DeferredIsHandedOver ==
  \A pr \in promised :
    \/ queue[pr[1]] = pr[2]
    \/ \E w \in Workers : given[w][pr[1]] = pr[2]

\* The scheduler starts one review a week, and one more only for each worker it
\* started without this week's marker getting written: the server died in between,
\* or the write failed, which _write_last_run swallows (trigger_if_due).
WeeklyOnce ==
  \A wk \in 1 .. (MaxTicks + 1) : Cardinality({w \in Workers : week[w] = wk}) <= 1 + unmarked

\* A parameter changes when a process merges its own proposal for it; another's
\* write disturbs it only if the two overlapped, or if it failed or was cut and
\* left the file of no use (set_overrides merges into what it has read).
OnlyOwnProposals ==
  [][ \A k \in Keys : override'[k] # override[k] =>
        \/ override' = Empty
        \/ \E p \in Procs : at[p] = "storing" /\ at'[p] # "storing"
                             /\ (params[p][k] # 0 \/ p \in mixed) ]_vars
=============================================================================
