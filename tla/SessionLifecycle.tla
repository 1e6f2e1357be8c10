--------------------------- MODULE SessionLifecycle ---------------------------
(***************************************************************************)
(* One user's trading engine: the context the registry keeps for him, the  *)
(* swarm (orchestrator and broker) built in it, the loop task and the      *)
(* tasks the loop leaves behind, the .running marker, and the requests     *)
(* that start, stop, re-key and delete him, across restarts of the server. *)
(* Users share nothing of this but the process.                            *)
(*                                                                         *)
(* A request's handler runs without an await wherever it touches this      *)
(* state, so each is one step.  A task can be cancelled only where it      *)
(* awaits, and there is one await at which it does not hear of it: the     *)
(* bare except around a dashboard's socket (_broadcast, send_to_uid).      *)
(***************************************************************************)
EXTENDS Integers

CONSTANTS Accounts,   \* the credentials a user may save
          Swarms,     \* bound: swarms alive at once
          Tasks,      \* bound: tasks alive at once
          NoSwarm,
          NoTask

ASSUME LifecycleAssumption ==
  /\ Accounts # {}
  /\ NoSwarm \notin Swarms
  /\ NoTask \notin Tasks

VARIABLES
  registered,  \* the row in users; a uid is never given out again
  account,     \* the credentials in that row
  marker,      \* data/<uid>/.running
  ctxUp,       \* the registry has a context for the user
  ctxAccount,  \* ctx.creds
  ctxSwarm,    \* ctx._swarm
  ctxTask,     \* ctx.task
  swarm,       \* of each swarm: its stop flag and its broker's credentials
  task,        \* of each task: what it is, whose it is, where it is
  booting      \* _starter has not scanned the markers yet

row == <<registered, account>>
ctx == <<ctxUp, ctxAccount, ctxSwarm, ctxTask>>
vars == <<row, marker, ctx, swarm, task, booting>>

Kinds == {"loop",     \* _supervised_loop
          "sleeper"}  \* _equity_poller, _weekly_review_scheduler, fill polls

Places == {"done",
           "new",     \* loop: created, not yet run
           "head",    \* loop: between two rounds, where it looks at the flag
           "round",   \* loop: in a round, with or without an analysis cycle
           "emit",    \* loop: in a round, awaiting a dashboard's socket
           "sleeps",  \* sleeper: between two looks at the flag
           "order"}   \* loop: in place_order

TaskRecord == [kind : Kinds, swarm : Swarms \cup {NoSwarm}, at : Places]

Job(k, g, p) == [kind |-> k, swarm |-> g, at |-> p]
Done == Job("loop", NoSwarm, "done")

Live(t) == task[t].at # "done"
IsLoop(t) == Live(t) /\ task[t].kind = "loop"
Goes(t, p) == task' = [task EXCEPT ![t] = IF p = "done" THEN Done ELSE [@ EXCEPT !.at = p]]

\* "ctx.task and not ctx.task.done()"
Watched == ctxTask # NoTask /\ Live(ctxTask)

FreeTask(t) == ~Live(t) /\ t # ctxTask
FreeSwarm(g) == g # ctxSwarm /\ \A t \in Tasks : task[t].swarm # g

\* ctx.swarm, built at its first use from what the context holds then.
SwarmIs(g) == IF ctxSwarm = NoSwarm THEN FreeSwarm(g) ELSE g = ctxSwarm
SwarmsWith(g) == IF ctxSwarm # NoSwarm THEN swarm
                 ELSE [swarm EXCEPT ![g] = [stop |-> FALSE, account |-> ctxAccount]]

Init ==
  /\ registered = TRUE
  /\ account \in Accounts
  /\ marker = FALSE
  /\ ctxUp = FALSE
  /\ ctxAccount = account
  /\ ctxSwarm = NoSwarm
  /\ ctxTask = NoTask
  /\ swarm = [g \in Swarms |-> [stop |-> FALSE, account |-> account]]
  /\ task = [t \in Tasks |-> Done]
  /\ booting = TRUE

----------------------------------------------------------------------------
(* Requests.                                                               *)

\* get_or_create fails for a uid without a row, and reads the row once.
GetOrCreate == /\ ctxUp \/ registered
               /\ ctxUp' = TRUE
               /\ ctxAccount' = IF ctxUp THEN ctxAccount ELSE account

\* Any request that reads the user's context.
Touch == /\ registered
         /\ GetOrCreate
         /\ UNCHANGED <<row, marker, ctxSwarm, ctxTask, swarm, task, booting>>

\* ... or his swarm.
TouchSwarm ==
  /\ registered /\ ctxUp
  /\ \E g \in Swarms : SwarmIs(g) /\ swarm' = SwarmsWith(g) /\ ctxSwarm' = g
  /\ UNCHANGED <<row, marker, ctxUp, ctxAccount, ctxTask, task, booting>>

StartUid ==
  /\ GetOrCreate
  /\ ~Watched
  /\ marker' = TRUE
  /\ \E t \in Tasks : /\ FreeTask(t)
                      /\ ctxTask' = t
                      /\ task' = [task EXCEPT ![t] = Job("loop", NoSwarm, "new")]
  /\ UNCHANGED <<row, ctxSwarm, swarm>>

Start == registered /\ StartUid /\ UNCHANGED booting

\* A loop that awaits a socket swallows its cancellation and goes on.
Cancelled(j) == IF j.at = "emit" THEN [j EXCEPT !.at = "round"] ELSE Done

\* Mutant: nothing is done for a user without a context.
StopUidReturnsEarly(g) ==
  IF ctxUp
  THEN /\ marker' = FALSE
       /\ SwarmIs(g)
       /\ swarm' = [SwarmsWith(g) EXCEPT ![g].stop = TRUE]
       /\ task' = [t \in Tasks |-> IF Watched /\ t = ctxTask THEN Cancelled(task[t]) ELSE task[t]]
  ELSE UNCHANGED <<marker, swarm, task>>

\* _stop_uid: the marker goes first, context or not.
StopUid(g) ==
  /\ marker' = FALSE
  /\ IF ctxUp
     THEN /\ SwarmIs(g)
          /\ swarm' = [SwarmsWith(g) EXCEPT ![g].stop = TRUE]
          /\ task' = [t \in Tasks |-> IF Watched /\ t = ctxTask THEN Cancelled(task[t]) ELSE task[t]]
     ELSE UNCHANGED <<swarm, task>>

Stop ==
  /\ registered
  /\ \E g \in Swarms : StopUid(g) /\ ctxSwarm' = IF ctxUp THEN g ELSE NoSwarm
  /\ ctxTask' = NoTask
  /\ UNCHANGED <<row, ctxUp, ctxAccount, booting>>

\* Mutant: a running loop keeps its swarm.
ResetSwarmKept == ctxSwarm' = ctxSwarm

\* ctx.reset()
ResetSwarm == ctxSwarm' = NoSwarm

\* The answers that validate the new keys have been awaited before.  A loop
\* that is not running is not stopped: neither its marker nor its swarm's flag
\* is touched.
UpdateCredentials(a) ==
  /\ registered
  /\ account' = a
  /\ IF ctxUp /\ Watched
     THEN ctxTask' = NoTask /\ \E g \in Swarms : StopUid(g)
     ELSE UNCHANGED <<marker, ctxTask, swarm, task>>
  /\ ctxAccount' = a
  /\ ResetSwarm
  /\ UNCHANGED <<registered, ctxUp, booting>>

\* _decommission_uid and delete_user, by the user or the administrator.
Delete ==
  /\ registered
  /\ \E g \in Swarms : StopUid(g)
  /\ registered' = FALSE
  /\ ctxUp' = FALSE
  /\ ctxSwarm' = NoSwarm
  /\ ctxTask' = NoTask
  /\ UNCHANGED <<account, ctxAccount, booting>>

----------------------------------------------------------------------------
(* The process.                                                            *)

Crash ==
  /\ ctxUp' = FALSE
  /\ ctxAccount' = account
  /\ ctxSwarm' = NoSwarm
  /\ ctxTask' = NoTask
  /\ swarm' = [g \in Swarms |-> [stop |-> FALSE, account |-> account]]
  /\ task' = [t \in Tasks |-> Done]
  /\ booting' = TRUE
  /\ UNCHANGED <<row, marker>>

\* _start_uid refuses a loop that runs and a uid without a row.
Resumes == marker /\ ~Watched /\ (ctxUp \/ registered)

\* Two seconds after the boot.
Resume ==
  /\ booting
  /\ booting' = FALSE
  /\ IF Resumes THEN StartUid ELSE UNCHANGED <<row, marker, ctx, swarm, task>>

----------------------------------------------------------------------------
(* Tasks.                                                                  *)

OnlyTasks == UNCHANGED <<row, marker, ctx, swarm, booting>>

\* Mutant: the flag is left as the last stop set it.
FlagLeft(g) == SwarmsWith(g)

\* start_continuous begins by clearing the flag.
FlagCleared(g) == [SwarmsWith(g) EXCEPT ![g].stop = FALSE]

LoopBegins(t) ==
  /\ IsLoop(t) /\ task[t].at = "new"
  /\ \E g \in Swarms, p \in Tasks :
       /\ SwarmIs(g) /\ FreeTask(p) /\ p # t
       /\ swarm' = FlagCleared(g)
       /\ ctxSwarm' = g
       /\ task' = [task EXCEPT ![t] = Job("loop", g, "round"), ![p] = Job("sleeper", g, "sleeps")]
  /\ UNCHANGED <<row, marker, ctxUp, ctxAccount, ctxTask, booting>>

Flagged(t) == swarm[task[t].swarm].stop

\* Mutant: the loop does not look at the flag.
AtHeadDeaf(t) == "round"

AtHead(t) == IF Flagged(t) THEN "done" ELSE "round"

LoopLooks(t) == task[t].at = "head" /\ Goes(t, AtHead(t)) /\ OnlyTasks

\* The round's awaits: a dashboard's socket, the broker's order endpoint.
LoopAwaits(t) == /\ IsLoop(t) /\ task[t].at = "round"
                 /\ \E p \in {"emit", "order"} : Goes(t, p)
                 /\ OnlyTasks
LoopGoesOn(t) == /\ IsLoop(t) /\ task[t].at \in {"emit", "order"}
                 /\ Goes(t, "round")
                 /\ OnlyTasks

\* The execution stage spawns a poll for what it could not confirm.  (It would
\* spawn watches too, but no buy reaches it with an entry_watch_pct.)
LoopSpawns(t, p) ==
  /\ IsLoop(t) /\ task[t].at = "round" /\ FreeTask(p)
  /\ task' = [task EXCEPT ![p] = Job("sleeper", task[t].swarm, "sleeps")]
  /\ OnlyTasks

LoopRoundEnds(t) == task[t].at = "round" /\ Goes(t, "head") /\ OnlyTasks

\* An exception the loop does not catch itself; _supervised_loop reports it.
LoopDies(t) == IsLoop(t) /\ Goes(t, "done") /\ OnlyTasks

\* The pollers look at the flag every second, a fill poll every five minutes.
SleeperStops(t) == task[t].at = "sleeps" /\ Flagged(t) /\ Goes(t, "done") /\ OnlyTasks

\* A fill poll also ends when its orders are decided.
SleeperEnds(t) == task[t].at = "sleeps" /\ Goes(t, "done") /\ OnlyTasks

----------------------------------------------------------------------------

Requests == Touch \/ TouchSwarm \/ Start \/ Stop \/ Delete
              \/ \E a \in Accounts : UpdateCredentials(a)
TaskStep(t) == \/ LoopBegins(t) \/ LoopLooks(t) \/ LoopGoesOn(t)
               \/ SleeperStops(t)

Next == \/ Requests \/ Crash \/ Resume
        \/ \E t \in Tasks : \/ TaskStep(t) \/ LoopAwaits(t) \/ LoopRoundEnds(t)
                            \/ LoopDies(t) \/ SleeperEnds(t)
                            \/ \E p \in Tasks : LoopSpawns(t, p)

\* The event loop runs the tasks whose await is over; every await of theirs is
\* bounded by a timeout, and a round has a bounded number of them.
Fairness == /\ WF_vars(Resume)
            /\ \A t \in Tasks : WF_vars(TaskStep(t)) /\ SF_vars(LoopRoundEnds(t))

Spec == Init /\ [][Next]_vars /\ Fairness

----------------------------------------------------------------------------
(* Properties.                                                             *)

\* Every variable keeps its type; ctx.task is only ever a loop.
TypeOK ==
  /\ registered \in BOOLEAN
  /\ account \in Accounts
  /\ marker \in BOOLEAN
  /\ ctxUp \in BOOLEAN
  /\ ctxAccount \in Accounts
  /\ ctxSwarm \in Swarms \cup {NoSwarm}
  /\ ctxTask \in Tasks \cup {NoTask}
  /\ swarm \in [Swarms -> [stop : BOOLEAN, account : Accounts]]
  /\ task \in [Tasks -> TaskRecord]
  /\ booting \in BOOLEAN
  /\ Watched => task[ctxTask].kind = "loop"

\* The loop the context knows of trades for a user who exists, with the
\* credentials he saved last, in the swarm his requests reach, which has not
\* been told to stop; and a restart of the server will resume it.
KnownLoopIsCurrent ==
  (Watched /\ task[ctxTask].at # "new") =>
    /\ registered /\ marker
    /\ task[ctxTask].swarm = ctxSwarm
    /\ swarm[ctxSwarm].account = account
    /\ ~swarm[ctxSwarm].stop

\* A marker is the trace of a start that no stop, deletion or change of
\* credentials of the running loop has followed: either the server has yet to
\* resume it, or its task is in the context.
MarkerIsOfAStart ==
  marker => registered /\ (booting \/ (ctxUp /\ ctxTask # NoTask))

\* A swarm that is told to stop for good winds down: pollers, polls and the
\* loops that did not hear their cancellation all end.
StoppedSwarmWindsDown ==
  \A g \in Swarms :
    <>[](swarm[g].stop) => <>[](\A t \in Tasks : task[t].swarm # g)
=============================================================================
