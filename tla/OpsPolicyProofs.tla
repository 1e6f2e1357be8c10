--------------------------- MODULE OpsPolicyProofs ---------------------------
(***************************************************************************)
(* Whatever the LLM answers, however many workers run and however their    *)
(* reads and writes of the files fall, an override comes from a worker     *)
(* that may decide it.                                                     *)
(***************************************************************************)
EXTENDS OpsPolicy, FiniteSetTheorems, TLAPS

----------------------------------------------------------------------------
(* Types.                                                                  *)

LEMMA ProcFacts ==
  /\ MaxWorkers \in Nat /\ MaxTicks \in Nat /\ MaxKills \in Nat
  /\ Server \in Procs /\ Workers \subseteq Procs /\ Server \notin Workers
  /\ Empty \in File
  BY OpsAssumption DEF Server, Procs, Workers, Empty, File

LEMMA OnlyInFile == ASSUME NEW w \in Workers, NEW K PROVE Only(w, K) \in File
  <1>1. w \in 0 .. MaxWorkers
    BY ProcFacts DEF Workers
  <1>2. 0 \in 0 .. MaxWorkers
    BY ProcFacts
  <1> QED
    BY <1>1, <1>2 DEF Only, File

LEMMA SetInFile ==
  ASSUME NEW f \in File, NEW k \in Keys, NEW w \in Workers PROVE [f EXCEPT ![k] = w] \in File
  <1>1. w \in 0 .. MaxWorkers
    BY ProcFacts DEF Workers
  <1> QED
    BY <1>1 DEF File

LEMMA StageIsPlace ==
  ASSUME NEW R, NEW D, NEW ps
  PROVE  Stage(R, D, ps) \in {"reviewing", "deferring", "merging", "done"}
  BY DEF Stage

LEMMA SpawnTypes ==
  ASSUME TypeOK, NEW m \in BOOLEAN, NEW words \in BOOLEAN, NEW G \in File, NEW wk \in Nat,
         Spawn(m, words, G, wk)
  PROVE  /\ started' \in 0 .. MaxWorkers /\ started + 1 \in Workers
         /\ trigger' \in [Workers -> {"none", "cycle", "weekly", "manual"}]
         /\ informed' \in [Workers -> BOOLEAN] /\ given' \in [Workers -> File]
         /\ week' \in [Workers -> Nat]
  BY ProcFacts DEF TypeOK, Spawn, TriggerOf, Found, Workers

LEMMA Typed == TypeOK /\ [Next]_vars => TypeOK'
  <1> USE ProcFacts
  <1> SUFFICES ASSUME TypeOK, [Next]_vars PROVE TypeOK'
    OBVIOUS
  <1>1. CASE AfterCycle
    BY <1>1, SpawnTypes DEF TypeOK, AfterCycle, files, clock, history, born
  <1>2. CASE CycleMarked
    BY <1>2 DEF TypeOK, CycleMarked, files, history, born
  <1>3. CASE Directive
    BY <1>3, SpawnTypes DEF TypeOK, Directive, files, clock, history
  <1>4. CASE WeeklyDue
    BY <1>4 DEF TypeOK, WeeklyDue, files, clock, history, born
  <1>5. CASE WeeklySpawned
    <2>1. ThisWeek \in Nat /\ seen[Server] \in File
      BY DEF TypeOK, ThisWeek
    <2> QED
      BY <1>5, <2>1, SpawnTypes DEF TypeOK, WeeklySpawned, OnFailure, files, clock, history, born
  <1>6. CASE WeeklyNoted
    <2>1. ThisWeek \in Nat
      BY DEF TypeOK, ThisWeek
    <2>2. marker' \in Nat /\ unmarked' \in Nat
      BY <1>6, <2>1 DEF TypeOK, WeeklyNoted, MarkerLost
    <2> QED
      BY <1>6, <2>2 DEF TypeOK, WeeklyNoted, files, born
  <1>7. CASE QueueCleared
    BY <1>7 DEF TypeOK, QueueCleared, Saved, clock, history, born
  <1>8. ASSUME NEW w \in Workers, Answer(w) PROVE TypeOK'
    <2>1. PICK P \in Proposals :
            LET G == Gated(w, P)
                ps == Only(w, Applied(w, G))
            IN /\ review' = [review EXCEPT ![w] = ForReview(w, G)]
               /\ defer' = [defer EXCEPT ![w] = Deferred(w, G)]
               /\ params' = [params EXCEPT ![w] = ps]
               /\ at' = [at EXCEPT ![w] = Stage(ForReview(w, G), Deferred(w, G), ps)]
      BY <1>8 DEF Answer
    <2> DEFINE G == Gated(w, P)
    <2>2. G \subseteq Keys /\ ForReview(w, G) \subseteq Keys /\ Deferred(w, G) \subseteq Keys
      BY DEF Gated, ForReview, Deferred, Kept, Proposals
    <2>3. Only(w, Applied(w, G)) \in File
      BY <1>8, OnlyInFile
    <2> HIDE DEF G
    <2> QED
      BY <1>8, <2>1, <2>2, <2>3, StageIsPlace DEF G, TypeOK, Answer, files, clock, history, born
  <1>9. ASSUME NEW w \in Workers, InboxRead(w) PROVE TypeOK'
    BY <1>9 DEF TypeOK, InboxRead, Read, files, clock, history, born
  <1>10. ASSUME NEW w \in Workers, InboxWritten(w) PROVE TypeOK'
    <2>1. \A k \in Keys : [seen[w] EXCEPT ![k] = w] \in File
      BY <1>10, SetInFile DEF TypeOK
    <2>2. PICK k \in review[w] : /\ inbox' \in Written(inbox, [seen[w] EXCEPT ![k] = w])
                                 /\ review' = [review EXCEPT ![w] = @ \ {k}]
      BY <1>10 DEF InboxWritten
    <2>4. k \in Keys
      BY <1>10 DEF TypeOK
    <2>5. inbox' \in File /\ review' \in [Workers -> SUBSET Keys]
      BY <1>10, <2>1, <2>2, <2>4 DEF TypeOK, Written
    <2>3. mixed' \subseteq Procs
      BY <1>10 DEF TypeOK, InboxWritten, Outdates, Writing
    <2> QED
      BY <1>10, <2>3, <2>5, StageIsPlace DEF TypeOK, InboxWritten, clock, history, born
  <1>11. ASSUME NEW w \in Workers, QueueRead(w) PROVE TypeOK'
    BY <1>11 DEF TypeOK, QueueRead, files, clock, history, born
  <1>12. ASSUME NEW w \in Workers, QueueWritten(w) PROVE TypeOK'
    <2>1. \A k \in Keys : [seen[w] EXCEPT ![k] = w] \in File
      BY <1>12, SetInFile DEF TypeOK
    <2>2. PICK k \in defer[w] :
            /\ queue' \in {[seen[w] EXCEPT ![k] = w], queue}
            /\ defer' = [defer EXCEPT ![w] = @ \ {k}]
            /\ promised' \subseteq promised \cup {<<k, w>>}
      BY <1>12 DEF QueueWritten, Saved
    <2>3. k \in Keys
      BY <1>12 DEF TypeOK
    <2>4. queue' \in File
      BY <1>12, <2>1, <2>2, <2>3 DEF TypeOK
    <2>5. defer' \in [Workers -> SUBSET Keys]
      BY <1>12, <2>2 DEF TypeOK
    <2>6. promised' \subseteq Keys \X Workers
      BY <1>12, <2>2, <2>3 DEF TypeOK
    <2> QED
      BY <1>12, <2>4, <2>5, <2>6, StageIsPlace DEF TypeOK, QueueWritten, clock, born
  <1>13. ASSUME NEW p \in Procs, OverridesRead(p) PROVE TypeOK'
    BY <1>13 DEF TypeOK, OverridesRead, Read, files, clock, history, born
  <1>14. ASSUME NEW p \in Procs, OverridesWritten(p) PROVE TypeOK'
    <2>1. Merge(seen[p], params[p]) \in File
      BY <1>14 DEF TypeOK, Merge, File
    <2>2. override' \in File
      BY <1>14, <2>1 DEF TypeOK, OverridesWritten, Written
    <2>3. mixed' \subseteq Procs
      BY <1>14 DEF TypeOK, OverridesWritten, Outdates, Writing
    <2> QED
      BY <1>14, <2>2, <2>3 DEF TypeOK, OverridesWritten, clock, history, born
  <1>15. ASSUME NEW k \in Keys, Approve(k) PROVE TypeOK'
    <2>1. inbox[k] \in Workers /\ [Empty EXCEPT ![k] = inbox[k]] \in File /\ [inbox EXCEPT ![k] = 0] \in File
      BY <1>15 DEF TypeOK, Approve, File, Workers
    <2> QED
      BY <1>15, <2>1 DEF TypeOK, Approve, files, clock, born
  <1>16. ASSUME NEW k \in Keys, Reject(k) PROVE TypeOK'
    <2>1. [inbox EXCEPT ![k] = 0] \in File
      BY <1>16 DEF TypeOK, File
    <2> QED
      BY <1>16, <2>1 DEF TypeOK, Reject, files, clock, born, history
  <1>17. CASE InboxSettled
    BY <1>17 DEF TypeOK, InboxSettled, Written, Outdates, Writing, clock, born, history
  <1>18. CASE Restart
    <2>1. override' \in File /\ inbox' \in File
      BY <1>18 DEF TypeOK, Restart
    <2>2. mixed' \subseteq Procs
      BY <1>18 DEF TypeOK, Restart, Writing
    <2>3. kills' \in Nat /\ unmarked' \in Nat /\ marker' \in Nat
      BY <1>18 DEF TypeOK, Restart, MarkerLost
    <2> QED
      BY <1>18, <2>1, <2>2, <2>3 DEF TypeOK, Restart, born
  <1>19. CASE Tick
    BY <1>19 DEF TypeOK, Tick, files, proc, born, history
  <1>20. CASE UNCHANGED vars
    BY <1>20 DEF TypeOK, vars
  <1> QED
    BY <1>1, <1>2, <1>3, <1>4, <1>5, <1>6, <1>7, <1>8, <1>9, <1>10, <1>11, <1>12, <1>13,
       <1>14, <1>15, <1>16, <1>17, <1>18, <1>19, <1>20 DEF Next, WorkerStep

LEMMA InitTyped == Init => TypeOK
  BY ProcFacts DEF Init, TypeOK

\* The files hold a value for each parameter, and every process is at a place
\* it has.
THEOREM OpsTypes == Spec => []TypeOK
  BY InitTyped, Typed, PTL DEF Spec

----------------------------------------------------------------------------
(* Licences.  A policy proposal is filed by an informed Saturday worker; it *)
(* becomes a licence when the owner approves it.  A worker not yet started *)
(* has none, so what a new one may do is no concern of the values there are.*)

Filed(w, k) == k \in Policy /\ trigger[w] = "weekly" /\ informed[w]

UnbornKnowNothing ==
  \A w \in Workers : /\ trigger[w] = "none" <=> at[w] = "unborn"
                     /\ at[w] = "unborn" => ~informed[w]

OverridesLicensed ==
  /\ \A k \in Keys : override[k] # 0 => May(override[k], k)
  /\ \A p \in Procs, k \in Keys : params[p][k] # 0 => May(params[p][k], k)
  /\ \A p \in Procs, k \in Keys : at[p] = "storing" /\ seen[p][k] # 0 => May(seen[p][k], k)

InboxFiled ==
  /\ \A k \in Keys : inbox[k] # 0 => Filed(inbox[k], k)
  /\ \A k \in Keys : items[k] # 0 => Filed(items[k], k)
  /\ \A w \in Workers, k \in Keys : at[w] = "filing" /\ seen[w][k] # 0 => Filed(seen[w][k], k)
  /\ \A w \in Workers : \A k \in review[w] : Filed(w, k)

LicenceInv == TypeOK /\ UnbornKnowNothing /\ OverridesLicensed /\ InboxFiled

LEMMA ValueIsWorker ==
  ASSUME NEW f \in File, NEW k \in Keys, f[k] # 0 PROVE f[k] \in Workers
  BY ProcFacts DEF File, Workers

LEMMA EmptyHasNone == \A k \in Keys : Empty[k] = 0
  BY DEF Empty

LicencesStay ==
  \A v \in Workers, k \in Keys : (May(v, k) => May(v, k)') /\ (Filed(v, k) => Filed(v, k)')

\* What a worker may do, it may after a step that starts none.
LEMMA StayWithoutStart ==
  ASSUME UNCHANGED <<trigger, informed>>, approved \subseteq approved' PROVE LicencesStay
  BY DEF LicencesStay, May, Filed

\* Nor does a start touch a licence, since its worker had none.
LEMMA StayWithStart ==
  ASSUME LicenceInv, NEW m \in BOOLEAN, NEW words \in BOOLEAN, NEW G, NEW wk,
         Spawn(m, words, G, wk), UNCHANGED approved
  PROVE  LicencesStay
  <1>1. \A v \in Workers : v # started + 1 => trigger'[v] = trigger[v] /\ informed'[v] = informed[v]
    BY DEF LicenceInv, TypeOK, Spawn
  <1>2. \A k \in Keys : ~May(started + 1, k) /\ ~Filed(started + 1, k)
    BY DEF LicenceInv, TypeOK, UnbornKnowNothing, Spawn, May, Filed
  <1> QED
    BY <1>1, <1>2 DEF LicencesStay, May, Filed

LEMMA BornWithStart ==
  ASSUME LicenceInv, NEW m \in BOOLEAN, NEW words \in BOOLEAN, NEW G, NEW wk,
         Spawn(m, words, G, wk), NEW place, place # "unborn",
         at' = [at EXCEPT ![Server] = place, ![started + 1] = "asking"]
  PROVE  UnbornKnowNothing'
  <1>1. started + 1 \in Workers /\ trigger' = [trigger EXCEPT ![started + 1] = TriggerOf(m, words)]
        /\ TriggerOf(m, words) # "none"
    BY DEF Spawn, TriggerOf
  <1>2. \A v \in Workers : v # started + 1 => /\ trigger'[v] = trigger[v] /\ informed'[v] = informed[v]
                                              /\ at'[v] = at[v]
    BY ProcFacts DEF LicenceInv, TypeOK, Spawn
  <1>3. at'[started + 1] = "asking" /\ trigger'[started + 1] # "none"
    BY <1>1, ProcFacts DEF LicenceInv, TypeOK
  <1> QED
    BY <1>2, <1>3 DEF LicenceInv, UnbornKnowNothing

\* A step that gives no process an override that it could not have had.
LEMMA OverridesKept ==
  ASSUME LicenceInv, LicencesStay,
         \A k \in Keys : override'[k] \in {0, override[k]},
         \A p \in Procs, k \in Keys : params'[p][k] \in {0, params[p][k]},
         \A p \in Procs, k \in Keys :
           at'[p] = "storing" =>
             seen'[p][k] \in {0, override[k]} \/ (at[p] = "storing" /\ seen'[p][k] = seen[p][k])
  PROVE  OverridesLicensed'
  <1> USE ProcFacts
  <1>1. \A v \in Workers, k \in Keys : May(v, k) => May(v, k)'
    BY DEF LicencesStay
  <1>2. \A k \in Keys : override[k] # 0 => override[k] \in Workers /\ May(override[k], k)
    BY ValueIsWorker DEF LicenceInv, OverridesLicensed, TypeOK
  <1>3. \A p \in Procs, k \in Keys :
          /\ params[p][k] # 0 => params[p][k] \in Workers /\ May(params[p][k], k)
          /\ at[p] = "storing" /\ seen[p][k] # 0 => seen[p][k] \in Workers /\ May(seen[p][k], k)
    BY ValueIsWorker DEF LicenceInv, OverridesLicensed, TypeOK
  <1>4. ASSUME NEW k \in Keys, override'[k] # 0 PROVE May(override[k], k)'
    BY <1>1, <1>2, <1>4 DEF May
  <1>5. ASSUME NEW p \in Procs, NEW k \in Keys, params'[p][k] # 0 PROVE May(params[p][k], k)'
    <2>1. params'[p][k] = params[p][k]
      BY <1>5
    <2>2. params[p][k] \in Workers /\ May(params[p][k], k)
      BY <1>3, <1>5, <2>1
    <2> QED
      BY ONLY <1>1, <2>1, <2>2, <1>5 DEF May
  <1>6. ASSUME NEW p \in Procs, NEW k \in Keys, at'[p] = "storing", seen'[p][k] # 0
        PROVE  May(seen[p][k], k)'
    <2>1. seen'[p][k] = override[k] \/ (at[p] = "storing" /\ seen'[p][k] = seen[p][k])
      BY <1>6
    <2>2. CASE seen'[p][k] = override[k]
      <3>1. override[k] \in Workers /\ May(override[k], k)
        BY <1>2, <1>6, <2>2
      <3> QED
        BY ONLY <1>1, <1>6, <2>2, <3>1 DEF May
    <2>3. CASE at[p] = "storing" /\ seen'[p][k] = seen[p][k]
      <3>1. seen[p][k] \in Workers /\ May(seen[p][k], k)
        BY <1>3, <1>6, <2>3
      <3> QED
        BY ONLY <1>1, <1>6, <2>3, <3>1 DEF May
    <2> QED
      BY <2>1, <2>2, <2>3
  <1> QED
    BY <1>4, <1>5, <1>6 DEF OverridesLicensed

\* Nor a proposal for review.
LEMMA InboxKept ==
  ASSUME LicenceInv, LicencesStay,
         \A k \in Keys : inbox'[k] \in {0, inbox[k], items[k]},
         \A k \in Keys : items'[k] \in {0, inbox[k], items[k]},
         \A w \in Workers, k \in Keys :
           at'[w] = "filing" =>
             seen'[w][k] \in {0, inbox[k]} \/ (at[w] = "filing" /\ seen'[w][k] = seen[w][k]),
         \A w \in Workers : review'[w] \subseteq review[w]
  PROVE  InboxFiled'
  <1> USE ProcFacts
  <1>1. \A v \in Workers, k \in Keys : Filed(v, k) => Filed(v, k)'
    BY DEF LicencesStay
  <1>2. \A k \in Keys : /\ inbox[k] # 0 => inbox[k] \in Workers /\ Filed(inbox[k], k)
                        /\ items[k] # 0 => items[k] \in Workers /\ Filed(items[k], k)
    BY ValueIsWorker DEF LicenceInv, InboxFiled, TypeOK
  <1>3. \A w \in Workers, k \in Keys : seen[w][k] # 0 => seen[w][k] \in Workers
    BY ValueIsWorker DEF LicenceInv, TypeOK
  <1>4. ASSUME NEW k \in Keys PROVE /\ inbox'[k] # 0 => Filed(inbox[k], k)'
                                    /\ items'[k] # 0 => Filed(items[k], k)'
    BY <1>1, <1>2 DEF Filed
  <1>5. ASSUME NEW w \in Workers, NEW k \in Keys, at'[w] = "filing", seen'[w][k] # 0
        PROVE  Filed(seen[w][k], k)'
    <2>1. seen'[w][k] = inbox[k] \/ (at[w] = "filing" /\ seen'[w][k] = seen[w][k])
      BY <1>5
    <2>2. at[w] = "filing" /\ seen[w][k] # 0 => Filed(seen[w][k], k) /\ seen[w][k] \in Workers
      BY <1>3 DEF LicenceInv, InboxFiled
    <2> QED
      BY <1>1, <1>2, <1>5, <2>1, <2>2 DEF Filed
  <1>6. ASSUME NEW w \in Workers, NEW k \in review'[w] PROVE Filed(w, k)'
    <2>1. k \in review[w] /\ k \in Keys /\ Filed(w, k)
      BY DEF LicenceInv, InboxFiled, TypeOK
    <2> QED
      BY <1>1, <2>1
  <1> QED
    BY <1>4, <1>5, <1>6 DEF InboxFiled

LEMMA NothingNew ==
  ASSUME LicenceInv, TypeOK', UnbornKnowNothing', LicencesStay,
         \A k \in Keys : override'[k] \in {0, override[k]},
         \A p \in Procs, k \in Keys : params'[p][k] \in {0, params[p][k]},
         \A p \in Procs, k \in Keys :
           at'[p] = "storing" =>
             seen'[p][k] \in {0, override[k]} \/ (at[p] = "storing" /\ seen'[p][k] = seen[p][k]),
         \A k \in Keys : inbox'[k] \in {0, inbox[k], items[k]},
         \A k \in Keys : items'[k] \in {0, inbox[k], items[k]},
         \A w \in Workers, k \in Keys :
           at'[w] = "filing" =>
             seen'[w][k] \in {0, inbox[k]} \/ (at[w] = "filing" /\ seen'[w][k] = seen[w][k]),
         \A w \in Workers : review'[w] \subseteq review[w]
  PROVE  LicenceInv'
  BY OverridesKept, InboxKept DEF LicenceInv

LEMMA BornUnchanged ==
  ASSUME LicenceInv, UNCHANGED <<trigger, informed>>, NEW p \in Procs,
         p = Server \/ at[p] # "unborn", NEW place, place # "unborn",
         at' = [at EXCEPT ![p] = place]
  PROVE  UnbornKnowNothing'
  BY ProcFacts DEF LicenceInv, TypeOK, UnbornKnowNothing

\* The server starts a worker, and holds no value afterwards but what it held.
LEMMA StartKeeps ==
  ASSUME LicenceInv, TypeOK', NEW m \in BOOLEAN, NEW words \in BOOLEAN, NEW G, NEW wk,
         Spawn(m, words, G, wk), NEW place, place \notin {"unborn", "storing"},
         at' = [at EXCEPT ![Server] = place, ![started + 1] = "asking"],
         UNCHANGED <<override, inbox, items, seen, params, review, approved>>
  PROVE  LicenceInv'
  <1>1. UnbornKnowNothing' /\ LicencesStay
    BY BornWithStart, StayWithStart
  <1>2. \A p \in Procs : at'[p] \in {"storing", "filing"} => p = Server \/ at'[p] = at[p]
    BY ProcFacts DEF Spawn, LicenceInv, TypeOK
  <1>3. at'[Server] = place
    BY ProcFacts DEF Spawn, LicenceInv, TypeOK
  <1> QED
    BY <1>1, <1>2, <1>3, NothingNew, ProcFacts

\* A process goes on, and nothing of what licences are about changes but, for
\* the worse, what it has read.
LEMMA StepKeeps ==
  ASSUME LicenceInv, TypeOK', NEW p \in Procs, p = Server \/ at[p] # "unborn",
         NEW place, place \notin {"unborn", "storing", "filing"},
         at' = [at EXCEPT ![p] = place],
         \A q \in Procs \ {p} : seen'[q] = seen[q],
         UNCHANGED <<trigger, informed, override, inbox, items, params, review, approved>>
  PROVE  LicenceInv'
  <1>1. UnbornKnowNothing'
    BY BornUnchanged
  <1>2. LicencesStay
    BY StayWithoutStart
  <1>3. at'[p] = place /\ \A q \in Procs \ {p} : at'[q] = at[q] /\ seen'[q] = seen[q]
    BY DEF LicenceInv, TypeOK
  <1> QED
    BY <1>1, <1>2, <1>3, NothingNew, ProcFacts

LEMMA AnswerKeeps == ASSUME LicenceInv, TypeOK', NEW w \in Workers, Answer(w) PROVE LicenceInv'
  <1> USE ProcFacts
  <1>1. PICK P \in Proposals :
          LET G == Gated(w, P)
              ps == Only(w, Applied(w, G))
          IN /\ review' = [review EXCEPT ![w] = ForReview(w, G)]
             /\ params' = [params EXCEPT ![w] = ps]
             /\ at' = [at EXCEPT ![w] = Stage(ForReview(w, G), Deferred(w, G), ps)]
    BY DEF Answer
  <1> DEFINE G == Gated(w, P)
             ps == Only(w, Applied(w, G))
             place == Stage(ForReview(w, G), Deferred(w, G), ps)
  <1>2. place \in {"reviewing", "deferring", "merging", "done"}
    BY StageIsPlace
  <1>3. /\ at[w] = "asking" /\ trigger[w] \in {"cycle", "weekly", "manual"}
        /\ UNCHANGED <<override, inbox, items, seen, trigger, informed, approved>>
    BY DEF Answer, LicenceInv, TypeOK, UnbornKnowNothing, files, born, history
  <1>4. \A k \in Applied(w, G) : k \in Keys /\ May(w, k)
    BY <1>3, OpsAssumption DEF Applied, Deferred, Kept, Gated, Proposals, May
  <1>5. \A k \in ForReview(w, G) : k \in Keys /\ Filed(w, k)
    BY <1>3 DEF ForReview, Gated, Proposals, Filed
  <1>6. \A k \in Keys : ps[k] # 0 => ps[k] = w /\ k \in Applied(w, G)
    BY DEF Only
  <1> HIDE DEF G, ps, place
  <1>7. /\ review' = [review EXCEPT ![w] = ForReview(w, G)]
        /\ params' = [params EXCEPT ![w] = ps]
        /\ at' = [at EXCEPT ![w] = place]
    BY <1>1 DEF G, ps, place
  <1>8. LicencesStay
    BY <1>3, StayWithoutStart
  <1>9. UnbornKnowNothing'
    BY <1>2, <1>3, <1>7, BornUnchanged
  <1>10. \A p \in Procs : at'[p] \in {"storing", "filing"} => at'[p] = at[p]
    BY <1>2, <1>7 DEF LicenceInv, TypeOK
  <1>11. OverridesLicensed'
    <2>1. \A k \in Keys : override[k] # 0 => May(override[k], k)
      BY DEF LicenceInv, OverridesLicensed
    <2>2. \A k \in Keys : ps[k] # 0 => May(ps[k], k)
      BY <1>4, <1>6
    <2>3. \A p \in Procs, k \in Keys : params'[p][k] # 0 => May(params'[p][k], k)
      BY <1>7, <2>2 DEF LicenceInv, OverridesLicensed, TypeOK
    <2>4. \A p \in Procs, k \in Keys : at'[p] = "storing" /\ seen[p][k] # 0 => May(seen[p][k], k)
      BY <1>10 DEF LicenceInv, OverridesLicensed
    <2> QED
      BY <1>3, <2>1, <2>3, <2>4 DEF OverridesLicensed, May
  <1>12. InboxFiled'
    <2>1. \A v \in Workers : \A k \in review'[v] : Filed(v, k)
      BY <1>5, <1>7 DEF LicenceInv, InboxFiled, TypeOK
    <2> QED
      BY <1>3, <1>10, <2>1 DEF LicenceInv, InboxFiled, Filed
  <1> QED
    BY <1>9, <1>11, <1>12 DEF LicenceInv

LEMMA FilingKeeps == ASSUME LicenceInv, TypeOK', NEW w \in Workers, InboxWritten(w) PROVE LicenceInv'
  <1> USE ProcFacts
  <1>1. PICK k \in review[w] : /\ inbox' \in Written(inbox, [seen[w] EXCEPT ![k] = w])
                               /\ review' = [review EXCEPT ![w] = @ \ {k}]
    BY DEF InboxWritten
  <1> DEFINE place == Stage(review'[w], defer[w], params[w])
  <1>2. place \in {"reviewing", "deferring", "merging", "done"}
    BY StageIsPlace
  <1>3. /\ at[w] = "filing" /\ at' = [at EXCEPT ![w] = place] /\ seen' = [seen EXCEPT ![w] = Empty]
        /\ UNCHANGED <<override, items, params, trigger, informed, approved>>
    BY DEF InboxWritten, born, history
  <1> HIDE DEF place
  <1>4. LicencesStay
    BY <1>3, StayWithoutStart
  <1>5. UnbornKnowNothing'
    BY <1>2, <1>3, BornUnchanged
  <1>6. \A p \in Procs : at'[p] \in {"storing", "filing"} => at'[p] = at[p] /\ seen'[p] = seen[p]
    BY <1>2, <1>3 DEF LicenceInv, TypeOK
  <1>7. OverridesLicensed'
    BY <1>3, <1>4, <1>6, OverridesKept
  <1>8. k \in Keys /\ Filed(w, k) /\ seen[w] \in File
    BY DEF LicenceInv, InboxFiled, TypeOK
  <1>9. \A j \in Keys : inbox'[j] # 0 => Filed(inbox'[j], j)
    <2>1. CASE inbox' = Empty
      BY <2>1, EmptyHasNone
    <2>2. CASE inbox' = [seen[w] EXCEPT ![k] = w]
      BY <1>3, <1>8, <2>2 DEF LicenceInv, InboxFiled, File
    <2>3. CASE inbox' = inbox
      BY <2>3 DEF LicenceInv, InboxFiled
    <2> QED
      BY <1>1, <2>1, <2>2, <2>3 DEF Written
  <1>10. InboxFiled'
    <2>1. \A v \in Workers : review'[v] \subseteq review[v]
      BY <1>1 DEF LicenceInv, TypeOK
    <2> QED
      BY <1>3, <1>6, <1>9, <2>1 DEF LicenceInv, InboxFiled, Filed
  <1> QED
    BY <1>5, <1>7, <1>10 DEF LicenceInv

LEMMA MergeKeeps == ASSUME LicenceInv, TypeOK', NEW p \in Procs, OverridesWritten(p) PROVE LicenceInv'
  <1> USE ProcFacts
  <1> DEFINE place == IF p = Server THEN "settling" ELSE "done"
             merged == Merge(seen[p], params[p])
  <1>1. /\ at[p] = "storing" /\ at' = [at EXCEPT ![p] = place]
        /\ override' \in {merged, override, Empty}
        /\ seen' = [seen EXCEPT ![p] = Empty] /\ params' = [params EXCEPT ![p] = Empty]
        /\ UNCHANGED <<inbox, items, review, trigger, informed, approved>>
    BY DEF OverridesWritten, Written, born, history
  <1>2. place \in {"settling", "done"}
    OBVIOUS
  <1>3. \A k \in Keys : merged[k] # 0 => May(merged[k], k)
    BY <1>1 DEF Merge, LicenceInv, OverridesLicensed
  <1> HIDE DEF place, merged
  <1>4. LicencesStay
    BY <1>1, StayWithoutStart
  <1>5. UnbornKnowNothing'
    BY <1>1, <1>2, BornUnchanged
  <1>6. \A q \in Procs : at'[q] \in {"storing", "filing"} => at'[q] = at[q] /\ seen'[q] = seen[q]
    BY <1>1, <1>2 DEF LicenceInv, TypeOK
  <1>7. InboxFiled'
    BY <1>1, <1>4, <1>6, InboxKept
  <1>8. OverridesLicensed'
    <2>1. \A k \in Keys : override'[k] # 0 => May(override'[k], k)
      BY <1>1, <1>3, EmptyHasNone DEF LicenceInv, OverridesLicensed
    <2>2. \A q \in Procs, k \in Keys : params'[q][k] # 0 => May(params'[q][k], k)
      BY <1>1, EmptyHasNone DEF LicenceInv, OverridesLicensed, TypeOK
    <2>3. \A q \in Procs, k \in Keys : at'[q] = "storing" /\ seen'[q][k] # 0 => May(seen'[q][k], k)
      BY <1>6 DEF LicenceInv, OverridesLicensed
    <2> QED
      BY <1>1, <2>1, <2>2, <2>3 DEF OverridesLicensed, May
  <1> QED
    BY <1>5, <1>7, <1>8 DEF LicenceInv

\* The owner's approval makes a licence of what an informed Saturday filed.
LEMMA ApprovalKeeps == ASSUME LicenceInv, TypeOK', NEW k \in Keys, Approve(k) PROVE LicenceInv'
  <1> USE ProcFacts
  <1>1. /\ inbox[k] # 0 /\ at' = [at EXCEPT ![Server] = "merging"]
        /\ items' = [inbox EXCEPT ![k] = 0]
        /\ params' = [params EXCEPT ![Server] = [Empty EXCEPT ![k] = inbox[k]]]
        /\ approved' = approved \cup {<<k, inbox[k]>>}
        /\ UNCHANGED <<override, inbox, seen, review, trigger, informed>>
    BY DEF Approve, files, born
  <1>2. LicencesStay
    BY <1>1, StayWithoutStart
  <1>3. UnbornKnowNothing'
    BY <1>1, BornUnchanged
  <1>4. \A q \in Procs : at'[q] \in {"storing", "filing"} => at'[q] = at[q] /\ seen'[q] = seen[q]
    BY <1>1 DEF LicenceInv, TypeOK
  <1>5. InboxFiled'
    <2>1. \A j \in Keys : items'[j] \in {0, inbox[j]}
      BY <1>1 DEF LicenceInv, TypeOK, File
    <2> QED
      BY <1>1, <1>2, <1>4, <2>1, InboxKept
  <1>6. OverridesLicensed'
    <2>1. \A v \in Workers, j \in Keys : May(v, j) => May(v, j)'
      BY <1>2 DEF LicencesStay
    <2>2. inbox[k] \in Workers /\ Filed(inbox[k], k)
      BY <1>1, ValueIsWorker DEF LicenceInv, TypeOK, InboxFiled
    <2>3. May(inbox[k], k)'
      BY <1>1, <2>2, OpsAssumption DEF Filed, May
    <2>4. ASSUME NEW q \in Procs, NEW j \in Keys, params'[q][j] # 0
          PROVE  \/ q = Server /\ j = k /\ params'[q][j] = inbox[k]
                 \/ q # Server /\ params'[q][j] = params[q][j]
      BY <1>1, <2>4, EmptyHasNone DEF LicenceInv, TypeOK, Empty
    <2>5. ASSUME NEW q \in Procs, NEW j \in Keys, params'[q][j] # 0 PROVE May(params[q][j], j)'
      <3>1. CASE q = Server /\ j = k /\ params'[q][j] = inbox[k]
        BY <1>1, <2>3, <3>1 DEF May
      <3>2. CASE q # Server /\ params'[q][j] = params[q][j]
        <4>1. params[q][j] \in Workers /\ May(params[q][j], j)
          BY <2>5, <3>2, ValueIsWorker DEF LicenceInv, TypeOK, OverridesLicensed
        <4> QED
          BY ONLY <2>1, <2>5, <3>2, <4>1 DEF May
      <3> QED
        BY <2>4, <2>5, <3>1, <3>2
    <2>6. ASSUME NEW j \in Keys, override'[j] # 0 PROVE May(override[j], j)'
      <3>1. override[j] \in Workers /\ May(override[j], j) /\ override'[j] = override[j]
        BY <1>1, <2>6, ValueIsWorker DEF LicenceInv, TypeOK, OverridesLicensed
      <3> QED
        BY ONLY <2>1, <2>6, <3>1 DEF May
    <2>7. ASSUME NEW q \in Procs, NEW j \in Keys, at'[q] = "storing", seen'[q][j] # 0
          PROVE  May(seen[q][j], j)'
      <3>1. seen[q][j] \in Workers /\ May(seen[q][j], j) /\ seen'[q][j] = seen[q][j]
        BY <1>1, <1>4, <2>7, ValueIsWorker DEF LicenceInv, TypeOK, OverridesLicensed
      <3> QED
        BY ONLY <2>1, <2>7, <3>1 DEF May
    <2> QED
      BY <2>5, <2>6, <2>7 DEF OverridesLicensed
  <1> QED
    BY <1>3, <1>5, <1>6 DEF LicenceInv

LEMMA LicenceInit == Init => LicenceInv
  BY InitTyped, ProcFacts, EmptyHasNone
     DEF Init, LicenceInv, UnbornKnowNothing, OverridesLicensed, InboxFiled

LEMMA LicenceStep == LicenceInv /\ [Next]_vars => LicenceInv'
  <1> SUFFICES ASSUME LicenceInv, [Next]_vars PROVE LicenceInv'
    OBVIOUS
  <1> USE ProcFacts
  <1>0. TypeOK /\ TypeOK'
    BY Typed DEF LicenceInv
  <1>1. CASE AfterCycle
    <2>1. CASE Spawn(FALSE, FALSE, Empty, 0) /\
               at' = [at EXCEPT ![Server] = "marking", ![started + 1] = "asking"]
      BY <1>0, <1>1, <2>1, StartKeeps DEF AfterCycle, files, history
    <2>2. CASE at' = [at EXCEPT ![Server] = "marking"] /\ UNCHANGED born
      BY <1>0, <1>1, <2>2, StepKeeps DEF AfterCycle, files, history, born
    <2> QED
      BY <1>1, <2>1, <2>2 DEF AfterCycle
  <1>2. CASE CycleMarked
    BY <1>0, <1>2, StepKeeps DEF CycleMarked, files, history, born
  <1>3. CASE Directive
    <2>1. PICK words \in BOOLEAN : Spawn(TRUE, words, Empty, 0)
      BY <1>3 DEF Directive
    <2>2. at' = [at EXCEPT ![Server] = "idle", ![started + 1] = "asking"]
      BY <1>0, <1>3 DEF Directive, TypeOK
    <2> QED
      BY <1>0, <1>3, <2>1, <2>2, StartKeeps DEF Directive, files, history
  <1>4. CASE WeeklyDue
    BY <1>0, <1>4, StepKeeps DEF WeeklyDue, files, history, born, TypeOK
  <1>5. CASE WeeklySpawned
    <2>1. CASE Spawn(TRUE, TRUE, seen[Server], ThisWeek) /\
               at' = [at EXCEPT ![Server] = "noting", ![started + 1] = "asking"]
      BY <1>0, <1>5, <2>1, StartKeeps DEF WeeklySpawned, files, history
    <2>2. CASE at' = [at EXCEPT ![Server] = OnFailure] /\ UNCHANGED born
      BY <1>0, <1>5, <2>2, StepKeeps DEF WeeklySpawned, OnFailure, files, history, born
    <2> QED
      BY <1>5, <2>1, <2>2 DEF WeeklySpawned
  <1>6. CASE WeeklyNoted
    <2> DEFINE place == IF In(seen[Server]) # {} THEN "clearing" ELSE "idle"
    <2>1. place \in {"clearing", "idle"}
      OBVIOUS
    <2>2. at' = [at EXCEPT ![Server] = place]
      BY <1>6 DEF WeeklyNoted
    <2> HIDE DEF place
    <2> QED
      BY <1>0, <1>6, <2>1, <2>2, StepKeeps DEF WeeklyNoted, files, history, born
  <1>7. CASE QueueCleared
    BY <1>0, <1>7, StepKeeps DEF QueueCleared, history, born, TypeOK
  <1>8. ASSUME NEW w \in Workers, Answer(w) PROVE LicenceInv'
    BY <1>0, <1>8, AnswerKeeps
  <1>9. ASSUME NEW w \in Workers, InboxRead(w) PROVE LicenceInv'
    <2>1. UnbornKnowNothing' /\ LicencesStay
      BY <1>9, BornUnchanged, StayWithoutStart DEF InboxRead, born, history
    <2>2. seen' = [seen EXCEPT ![w] = inbox] \/ seen' = [seen EXCEPT ![w] = Empty]
      BY <1>9 DEF InboxRead, Read
    <2>3. \A k \in Keys : seen'[w][k] \in {0, inbox[k]}
      BY <1>0, <2>2, EmptyHasNone DEF TypeOK
    <2>4. at'[w] = "filing" /\ \A q \in Procs \ {w} : at'[q] = at[q] /\ seen'[q] = seen[q]
      BY <1>0, <1>9, <2>2 DEF InboxRead, TypeOK
    <2> QED
      BY <1>0, <1>9, <2>1, <2>3, <2>4, NothingNew DEF InboxRead, files
  <1>10. ASSUME NEW w \in Workers, InboxWritten(w) PROVE LicenceInv'
    BY <1>0, <1>10, FilingKeeps
  <1>11. ASSUME NEW w \in Workers, QueueRead(w) PROVE LicenceInv'
    BY <1>0, <1>11, StepKeeps DEF QueueRead, files, history, born, TypeOK
  <1>12. ASSUME NEW w \in Workers, QueueWritten(w) PROVE LicenceInv'
    <2> DEFINE place == Stage({}, defer'[w], params[w])
    <2>1. place \in {"reviewing", "deferring", "merging", "done"}
      BY StageIsPlace
    <2>2. at' = [at EXCEPT ![w] = place]
      BY <1>12 DEF QueueWritten
    <2> HIDE DEF place
    <2> QED
      BY <1>0, <1>12, <2>1, <2>2, StepKeeps DEF QueueWritten, born, TypeOK
  <1>13. ASSUME NEW p \in Procs, OverridesRead(p) PROVE LicenceInv'
    <2>1. UnbornKnowNothing' /\ LicencesStay
      BY <1>13, BornUnchanged, StayWithoutStart DEF OverridesRead, born, history
    <2>2. seen' = [seen EXCEPT ![p] = override] \/ seen' = [seen EXCEPT ![p] = Empty]
      BY <1>13 DEF OverridesRead, Read
    <2>3. \A k \in Keys : seen'[p][k] \in {0, override[k]}
      BY <1>0, <2>2, EmptyHasNone DEF TypeOK
    <2>4. at'[p] = "storing" /\ \A q \in Procs \ {p} : at'[q] = at[q] /\ seen'[q] = seen[q]
      BY <1>0, <1>13, <2>2 DEF OverridesRead, TypeOK
    <2> QED
      BY <1>0, <1>13, <2>1, <2>3, <2>4, NothingNew DEF OverridesRead, files
  <1>14. ASSUME NEW p \in Procs, OverridesWritten(p) PROVE LicenceInv'
    BY <1>0, <1>14, MergeKeeps
  <1>15. ASSUME NEW k \in Keys, Approve(k) PROVE LicenceInv'
    BY <1>0, <1>15, ApprovalKeeps
  <1>16. ASSUME NEW k \in Keys, Reject(k) PROVE LicenceInv'
    <2>1. UnbornKnowNothing' /\ LicencesStay
      BY <1>16, BornUnchanged, StayWithoutStart DEF Reject, born, history
    <2>2. \A j \in Keys : items'[j] \in {0, inbox[j]}
      BY <1>0, <1>16 DEF Reject, TypeOK, File
    <2>3. \A q \in Procs : at'[q] \in {"storing", "filing"} => at'[q] = at[q]
      BY <1>0, <1>16 DEF Reject, TypeOK
    <2> QED
      BY <1>0, <1>16, <2>1, <2>2, <2>3, NothingNew DEF Reject, files
  <1>17. CASE InboxSettled
    <2>1. UnbornKnowNothing' /\ LicencesStay
      BY <1>17, BornUnchanged, StayWithoutStart DEF InboxSettled, born, history
    <2>2. \A j \in Keys : inbox'[j] \in {0, inbox[j], items[j]} /\ items'[j] = 0
      BY <1>17, EmptyHasNone DEF InboxSettled, Written
    <2>3. \A q \in Procs : at'[q] \in {"storing", "filing"} => at'[q] = at[q]
      BY <1>0, <1>17 DEF InboxSettled, TypeOK
    <2> QED
      BY <1>0, <1>17, <2>1, <2>2, <2>3, NothingNew DEF InboxSettled
  <1>18. CASE Restart
    <2>1. UnbornKnowNothing' /\ LicencesStay
      BY <1>18, BornUnchanged, StayWithoutStart DEF Restart, born
    <2>2. \A j \in Keys : override'[j] \in {0, override[j]} /\ inbox'[j] \in {0, inbox[j]} /\ items'[j] = 0
      BY <1>18, EmptyHasNone DEF Restart
    <2>3. \A q \in Procs : at'[q] \in {"storing", "filing"} => at'[q] = at[q] /\ seen'[q] = seen[q]
      BY <1>0, <1>18 DEF Restart, TypeOK
    <2>4. \A q \in Procs, j \in Keys : params'[q][j] \in {0, params[q][j]}
      BY <1>0, <1>18, EmptyHasNone DEF Restart, TypeOK
    <2> QED
      BY <1>0, <1>18, <2>1, <2>2, <2>3, <2>4, NothingNew DEF Restart
  <1>19. CASE Tick
    <2>1. UnbornKnowNothing' /\ LicencesStay
      BY <1>19, StayWithoutStart DEF Tick, proc, born, history, LicenceInv, UnbornKnowNothing
    <2> QED
      BY <1>0, <1>19, <2>1, NothingNew DEF Tick, files, proc
  <1>20. CASE UNCHANGED vars
    <2>1. UnbornKnowNothing' /\ LicencesStay
      BY <1>20, StayWithoutStart DEF vars, LicenceInv, UnbornKnowNothing
    <2> QED
      BY <1>0, <1>20, <2>1, NothingNew DEF vars
  <1> QED
    BY <1>1, <1>2, <1>3, <1>4, <1>5, <1>6, <1>7, <1>8, <1>9, <1>10, <1>11, <1>12, <1>13,
       <1>14, <1>15, <1>16, <1>17, <1>18, <1>19, <1>20 DEF Next, WorkerStep

\* Every value in the files, and in the hands of a process, has its licence.
THEOREM LicenceInvariance == Spec => []LicenceInv
  BY LicenceInit, LicenceStep, PTL DEF Spec

\* Nobody decides what is not his: policy is changed on the owner's word or with
\* his approval of a Saturday's proposal, structure on a Saturday or on his word,
\* and without cycles to judge by nothing but on his word.
THEOREM OverridesAreLicensed == Spec => []Licensed
  <1>1. LicenceInv => Licensed
    BY DEF LicenceInv, OverridesLicensed, Licensed, In
  <1> QED
    BY <1>1, LicenceInvariance, PTL

----------------------------------------------------------------------------
(* What was deferred.  A promise is made while nobody else handles the     *)
(* queue, so that whoever reads it afterwards reads the promise, and what  *)
(* he writes still holds it; the review has it in the directive of a       *)
(* worker before it empties the queue.                                     *)

HandedOver(pr) == \E w \in Workers : given[w][pr[1]] = pr[2]

StillQueued(pr) ==
  /\ queue[pr[1]] = pr[2]
  /\ \A w \in Workers : at[w] = "queueing" => seen[w][pr[1]] = pr[2]
  /\ at[Server] = "weekly" => seen[Server][pr[1]] = pr[2]
  /\ at[Server] \notin {"noting", "clearing"}

DeferralInv ==
  /\ TypeOK
  /\ \A w \in Workers : at[w] = "unborn" => given[w] = Empty
  /\ \A pr \in promised : HandedOver(pr) \/ StillQueued(pr)

\* A step that leaves alone the queue, who has read it and the directives.
LEMMA DeferralFrame ==
  ASSUME DeferralInv, TypeOK',
         UNCHANGED <<queue, given, promised>>,
         \A w \in Workers : at'[w] = "unborn" => at[w] = "unborn",
         \A w \in Workers : at'[w] = "queueing" => at[w] = "queueing" /\ seen'[w] = seen[w],
         \/ at'[Server] = at[Server] /\ seen'[Server] = seen[Server]
         \/ at'[Server] \notin {"weekly", "noting", "clearing"}
  PROVE  DeferralInv'
  BY DEF DeferralInv, HandedOver, StillQueued

\* What was handed over stays so: a start writes the directive of a worker who
\* had none.
LEMMA StartHandsOver ==
  ASSUME DeferralInv, TypeOK', NEW m \in BOOLEAN, NEW words \in BOOLEAN, NEW G \in File, NEW wk,
         Spawn(m, words, G, wk)
  PROVE  /\ \A pr \in promised : HandedOver(pr) => HandedOver(pr)'
         /\ started + 1 \in Workers /\ given'[started + 1] = G
         /\ \A w \in Workers : w # started + 1 => given'[w] = given[w]
  <1>1. /\ started + 1 \in Workers /\ at[started + 1] = "unborn"
        /\ given' = [given EXCEPT ![started + 1] = G]
    BY DEF Spawn
  <1>2. given'[started + 1] = G /\ \A w \in Workers : w # started + 1 => given'[w] = given[w]
    BY <1>1 DEF DeferralInv, TypeOK
  <1>3. ASSUME NEW pr \in promised, HandedOver(pr) PROVE HandedOver(pr)'
    <2>1. PICK w \in Workers : given[w][pr[1]] = pr[2]
      BY <1>3 DEF HandedOver
    <2>2. pr[1] \in Keys /\ pr[2] \in Workers
      BY DEF DeferralInv, TypeOK
    <2>3. w # started + 1
      BY <1>1, <2>1, <2>2, ProcFacts, EmptyHasNone DEF DeferralInv, Server
    <2> QED
      BY <1>2, <2>1, <2>3 DEF HandedOver
  <1> QED
    BY <1>1, <1>2, <1>3

\* A start that is not the review's.
LEMMA StartKeepsDeferral ==
  ASSUME DeferralInv, TypeOK', NEW m \in BOOLEAN, NEW words \in BOOLEAN,
         Spawn(m, words, Empty, 0),
         NEW place, place \notin {"weekly", "noting", "clearing"},
         at' = [at EXCEPT ![Server] = place, ![started + 1] = "asking"],
         UNCHANGED <<queue, seen, promised>>
  PROVE  DeferralInv'
  <1>1. /\ \A pr \in promised : HandedOver(pr) => HandedOver(pr)'
        /\ started + 1 \in Workers
        /\ \A w \in Workers : w # started + 1 => given'[w] = given[w]
    BY StartHandsOver, ProcFacts
  <1>2. /\ at'[Server] = place /\ at'[started + 1] = "asking"
        /\ \A w \in Workers : w # started + 1 => at'[w] = at[w]
    BY <1>1, ProcFacts DEF DeferralInv, TypeOK
  <1>3. \A pr \in promised : StillQueued(pr) => StillQueued(pr)'
    BY <1>2 DEF StillQueued
  <1> QED
    BY <1>1, <1>2, <1>3 DEF DeferralInv

\* The review hands over all that it has read, and it has read every promise.
LEMMA ReviewHandsOver ==
  ASSUME DeferralInv, TypeOK', at[Server] = "weekly",
         Spawn(TRUE, TRUE, seen[Server], ThisWeek),
         at' = [at EXCEPT ![Server] = "noting", ![started + 1] = "asking"],
         UNCHANGED promised
  PROVE  DeferralInv'
  <1>1. /\ \A pr \in promised : HandedOver(pr) => HandedOver(pr)'
        /\ started + 1 \in Workers /\ given'[started + 1] = seen[Server]
        /\ \A w \in Workers : w # started + 1 => given'[w] = given[w]
    <2>1. seen[Server] \in File
      BY ProcFacts DEF DeferralInv, TypeOK
    <2> QED
      BY <2>1, StartHandsOver
  <1>2. /\ at'[started + 1] = "asking"
        /\ \A w \in Workers : w # started + 1 => at'[w] = at[w]
    BY <1>1, ProcFacts DEF DeferralInv, TypeOK
  <1>3. \A pr \in promised : StillQueued(pr) => HandedOver(pr)'
    BY <1>1 DEF StillQueued, HandedOver
  <1> QED
    BY <1>1, <1>2, <1>3 DEF DeferralInv

\* A worker writes the queue that he has read, with his own proposal.
LEMMA DeferringKeeps ==
  ASSUME DeferralInv, TypeOK', NEW w \in Workers, QueueWritten(w) PROVE DeferralInv'
  <1> USE ProcFacts
  <1>1. PICK k \in defer[w] :
          /\ queue' \in {[seen[w] EXCEPT ![k] = w], queue}
          /\ promised' = {pr \in promised : queue'[k] = w => pr[1] # k} \cup
                         (IF Quiet(w) /\ queue'[k] = w THEN {<<k, w>>} ELSE {})
    BY DEF QueueWritten, Saved
  <1> DEFINE place == Stage({}, defer'[w], params[w])
  <1>2. place \in {"reviewing", "deferring", "merging", "done"}
    BY StageIsPlace
  <1>3. /\ at[w] = "queueing" /\ at' = [at EXCEPT ![w] = place]
        /\ seen' = [seen EXCEPT ![w] = Empty] /\ UNCHANGED given
    BY DEF QueueWritten, born
  <1> HIDE DEF place
  <1>4. /\ k \in Keys /\ seen[w] \in File /\ queue \in File
        /\ at'[w] = place
        /\ \A p \in Procs \ {w} : at'[p] = at[p] /\ seen'[p] = seen[p]
    BY <1>3 DEF DeferralInv, TypeOK
  <1>5. ASSUME NEW pr \in promised, pr[1] # k \/ queue' = queue
        PROVE  HandedOver(pr)' \/ StillQueued(pr)'
    <2>1. pr[1] \in Keys
      BY DEF DeferralInv, TypeOK
    <2>2. CASE HandedOver(pr)
      BY <1>3, <2>2 DEF HandedOver
    <2>3. CASE StillQueued(pr)
      <3>1. queue[pr[1]] = pr[2] /\ seen[w][pr[1]] = pr[2]
        BY <1>3, <2>3 DEF StillQueued
      <3>2. queue'[pr[1]] = pr[2]
        BY <1>1, <1>4, <1>5, <2>1, <3>1 DEF File
      <3>3. \A v \in Workers : at'[v] = "queueing" => v # w
        BY <1>2, <1>4
      <3> QED
        BY <1>4, <2>3, <3>2, <3>3 DEF StillQueued
    <2> QED
      BY <2>2, <2>3 DEF DeferralInv
  <1>6. ASSUME Quiet(w), queue'[k] = w PROVE StillQueued(<<k, w>>)'
    <2>1. at[Server] \notin {"weekly", "noting", "clearing"}
      BY <1>6 DEF Quiet
    <2>2. \A v \in Workers : at'[v] # "queueing"
      BY <1>2, <1>4, <1>6 DEF Quiet
    <2> QED
      BY <1>4, <1>6, <2>1, <2>2 DEF StillQueued
  <1>7. \A pr \in promised' : \/ pr \in promised /\ (pr[1] # k \/ queue' = queue)
                              \/ Quiet(w) /\ queue'[k] = w /\ pr = <<k, w>>
    <2>1. queue'[k] = w \/ queue' = queue
      BY <1>1, <1>4 DEF File
    <2> QED
      BY <1>1, <2>1
  <1>8. \A pr \in promised' : HandedOver(pr)' \/ StillQueued(pr)'
    BY <1>5, <1>6, <1>7
  <1>9. \A v \in Workers : at'[v] = "unborn" => given'[v] = Empty
    BY <1>2, <1>3, <1>4 DEF DeferralInv
  <1> QED
    BY <1>8, <1>9 DEF DeferralInv

LEMMA DeferralInit == Init => DeferralInv
  BY InitTyped DEF Init, DeferralInv

LEMMA DeferralStep == DeferralInv /\ [Next]_vars => DeferralInv'
  <1> SUFFICES ASSUME DeferralInv, [Next]_vars PROVE DeferralInv'
    OBVIOUS
  <1> USE ProcFacts
  <1>0. TypeOK /\ TypeOK'
    BY Typed DEF DeferralInv
  <1>1. CASE AfterCycle
    <2>1. CASE Spawn(FALSE, FALSE, Empty, 0) /\
               at' = [at EXCEPT ![Server] = "marking", ![started + 1] = "asking"]
      BY <1>0, <1>1, <2>1, StartKeepsDeferral DEF AfterCycle, files, history
    <2>2. CASE at' = [at EXCEPT ![Server] = "marking"] /\ UNCHANGED born
      BY <1>0, <1>1, <2>2, DeferralFrame DEF AfterCycle, files, history, born, TypeOK
    <2> QED
      BY <1>1, <2>1, <2>2 DEF AfterCycle
  <1>2. CASE CycleMarked
    BY <1>0, <1>2, DeferralFrame DEF CycleMarked, files, history, born, TypeOK
  <1>3. CASE Directive
    <2>1. PICK words \in BOOLEAN : Spawn(TRUE, words, Empty, 0)
      BY <1>3 DEF Directive
    <2>2. at' = [at EXCEPT ![Server] = "idle", ![started + 1] = "asking"]
      BY <1>0, <1>3 DEF Directive, TypeOK
    <2> QED
      BY <1>0, <1>3, <2>1, <2>2, StartKeepsDeferral DEF Directive, files, history
  <1>4. CASE WeeklyDue
    <2>1. /\ at[Server] = "idle" /\ at'[Server] = "weekly" /\ seen'[Server] = queue
          /\ \A w \in Workers : at'[w] = at[w] /\ seen'[w] = seen[w]
          /\ UNCHANGED <<queue, given, promised>>
      BY <1>0, <1>4 DEF WeeklyDue, files, history, born, TypeOK
    <2>2. \A pr \in promised : HandedOver(pr) => HandedOver(pr)'
      BY <2>1 DEF HandedOver
    <2>3. \A pr \in promised : StillQueued(pr) => StillQueued(pr)'
      BY <2>1 DEF StillQueued
    <2> QED
      BY <1>0, <2>1, <2>2, <2>3 DEF DeferralInv
  <1>5. CASE WeeklySpawned
    <2>1. CASE Spawn(TRUE, TRUE, seen[Server], ThisWeek) /\
               at' = [at EXCEPT ![Server] = "noting", ![started + 1] = "asking"]
      BY <1>0, <1>5, <2>1, ReviewHandsOver DEF WeeklySpawned, history
    <2>2. CASE at' = [at EXCEPT ![Server] = OnFailure] /\ UNCHANGED born
      BY <1>0, <1>5, <2>2, DeferralFrame DEF WeeklySpawned, OnFailure, files, history, born, TypeOK
    <2> QED
      BY <1>5, <2>1, <2>2 DEF WeeklySpawned
  <1>6. CASE WeeklyNoted
    <2>1. /\ at[Server] = "noting" /\ at'[Server] \in {"clearing", "idle"}
          /\ \A w \in Workers : at'[w] = at[w] /\ seen'[w] = seen[w]
          /\ UNCHANGED <<queue, given, promised>>
      BY <1>0, <1>6 DEF WeeklyNoted, files, history, born, TypeOK
    <2>2. \A pr \in promised : HandedOver(pr)
      BY <2>1 DEF DeferralInv, StillQueued
    <2> QED
      BY <1>0, <2>1, <2>2 DEF DeferralInv, HandedOver
  <1>7. CASE QueueCleared
    <2>1. /\ at[Server] = "clearing" /\ \A w \in Workers : at'[w] = at[w]
          /\ UNCHANGED <<given, promised>>
      BY <1>0, <1>7 DEF QueueCleared, history, born, TypeOK
    <2>2. \A pr \in promised : HandedOver(pr)
      BY <2>1 DEF DeferralInv, StillQueued
    <2> QED
      BY <1>0, <2>1, <2>2 DEF DeferralInv, HandedOver
  <1>8. ASSUME NEW w \in Workers, Answer(w) PROVE DeferralInv'
    <2>0. PICK P \in Proposals :
            LET G == Gated(w, P)
                ps == Only(w, Applied(w, G))
            IN at' = [at EXCEPT ![w] = Stage(ForReview(w, G), Deferred(w, G), ps)]
      BY <1>8 DEF Answer
    <2>1. PICK place : /\ place \in {"reviewing", "deferring", "merging", "done"}
                       /\ at' = [at EXCEPT ![w] = place]
      BY <2>0, StageIsPlace
    <2> QED
      BY <1>0, <1>8, <2>1, DeferralFrame DEF Answer, files, history, born, TypeOK
  <1>9. ASSUME NEW w \in Workers, InboxRead(w) PROVE DeferralInv'
    <2>1. \A p \in Procs \ {w} : seen'[p] = seen[p]
      BY <1>0, <1>9 DEF InboxRead, Read, TypeOK
    <2> QED
      BY <1>0, <1>9, <2>1, DeferralFrame DEF InboxRead, files, history, born, TypeOK
  <1>10. ASSUME NEW w \in Workers, InboxWritten(w) PROVE DeferralInv'
    <2>1. PICK place : /\ place \in {"reviewing", "deferring", "merging", "done"}
                       /\ at' = [at EXCEPT ![w] = place]
      BY <1>10, StageIsPlace DEF InboxWritten
    <2> QED
      BY <1>0, <1>10, <2>1, DeferralFrame DEF InboxWritten, history, born, TypeOK
  <1>11. ASSUME NEW w \in Workers, QueueRead(w) PROVE DeferralInv'
    <2>1. /\ at[w] = "deferring" /\ at'[w] = "queueing" /\ seen'[w] = queue
          /\ \A p \in Procs \ {w} : at'[p] = at[p] /\ seen'[p] = seen[p]
          /\ UNCHANGED <<queue, given, promised>>
      BY <1>0, <1>11 DEF QueueRead, files, history, born, TypeOK
    <2>2. \A pr \in promised : HandedOver(pr) => HandedOver(pr)'
      BY <2>1 DEF HandedOver
    <2>3. \A pr \in promised : StillQueued(pr) => StillQueued(pr)'
      BY <2>1 DEF StillQueued
    <2>4. \A v \in Workers : at'[v] = "unborn" => given'[v] = Empty
      BY <2>1 DEF DeferralInv
    <2> QED
      BY <1>0, <2>1, <2>2, <2>3, <2>4 DEF DeferralInv
  <1>12. ASSUME NEW w \in Workers, QueueWritten(w) PROVE DeferralInv'
    BY <1>0, <1>12, DeferringKeeps
  <1>13. ASSUME NEW p \in Procs, OverridesRead(p) PROVE DeferralInv'
    <2>1. \A q \in Procs \ {p} : seen'[q] = seen[q]
      BY <1>0, <1>13 DEF OverridesRead, Read, TypeOK
    <2> QED
      BY <1>0, <1>13, <2>1, DeferralFrame DEF OverridesRead, files, history, born, TypeOK
  <1>14. ASSUME NEW p \in Procs, OverridesWritten(p) PROVE DeferralInv'
    <2>1. PICK place : place \in {"settling", "done"} /\ at' = [at EXCEPT ![p] = place]
      BY <1>14 DEF OverridesWritten
    <2>2. at[p] = "storing" /\ at'[p] = place
          /\ \A q \in Procs \ {p} : at'[q] = at[q] /\ seen'[q] = seen[q]
      BY <1>0, <1>14, <2>1 DEF OverridesWritten, TypeOK
    <2> QED
      BY <1>0, <1>14, <2>1, <2>2, DeferralFrame DEF OverridesWritten, history, born
  <1>15. ASSUME NEW k \in Keys, Approve(k) PROVE DeferralInv'
    BY <1>0, <1>15, DeferralFrame DEF Approve, files, born, TypeOK
  <1>16. ASSUME NEW k \in Keys, Reject(k) PROVE DeferralInv'
    BY <1>0, <1>16, DeferralFrame DEF Reject, files, born, history, TypeOK
  <1>17. CASE InboxSettled
    BY <1>0, <1>17, DeferralFrame DEF InboxSettled, born, history, TypeOK
  <1>18. CASE Restart
    BY <1>0, <1>18, DeferralFrame DEF Restart, born, TypeOK
  <1>19. CASE Tick
    BY <1>0, <1>19, DeferralFrame DEF Tick, files, proc, born, history
  <1>20. CASE UNCHANGED vars
    BY <1>0, <1>20, DeferralFrame DEF vars
  <1> QED
    BY <1>1, <1>2, <1>3, <1>4, <1>5, <1>6, <1>7, <1>8, <1>9, <1>10, <1>11, <1>12, <1>13,
       <1>14, <1>15, <1>16, <1>17, <1>18, <1>19, <1>20 DEF Next, WorkerStep

\* No proposal that a weekday defers alone is lost, however many workers write
\* the queue afterwards and wherever a death of the server ends the review.
THEOREM DeferredReachesReview == Spec => []DeferredIsHandedOver
  <1>1. DeferralInv => DeferredIsHandedOver
    BY DEF DeferralInv, HandedOver, StillQueued, DeferredIsHandedOver
  <1> QED
    BY DeferralInit, DeferralStep, <1>1, PTL DEF Spec

----------------------------------------------------------------------------
(* One review a week.  Until this week's marker is written, or the server  *)
(* is about to write it, every worker that this week's review started is   *)
(* one whose marker was not written: a death, or a write that failed.      *)

Reviewers(wk) == {w \in Workers : week[w] = wk}

Unreviewed(wk) == wk = ThisWeek /\ marker # ThisWeek /\ at[Server] # "noting"

WeekBound(wk) == Cardinality(Reviewers(wk)) <= unmarked + (IF Unreviewed(wk) THEN 0 ELSE 1)

WeekInv ==
  /\ TypeOK
  /\ marker <= ThisWeek
  /\ \A w \in Workers : week[w] <= ThisWeek
  /\ at[Server] \in {"weekly", "noting"} => marker # ThisWeek
  /\ \A wk \in Nat \ {0} : WeekBound(wk)

LEMMA ReviewersFinite ==
  ASSUME NEW wk
  PROVE  IsFiniteSet(Reviewers(wk)) /\ Cardinality(Reviewers(wk)) \in Nat
  <1>1. IsFiniteSet(Workers)
    BY ProcFacts, FS_Interval DEF Workers
  <1>2. Reviewers(wk) \in SUBSET Workers
    BY DEF Reviewers
  <1>3. IsFiniteSet(Reviewers(wk))
    BY <1>1, <1>2, FS_Subset
  <1> QED
    BY <1>3, FS_CardinalityType

LEMMA NoneReview == ASSUME NEW wk, Reviewers(wk) = {} PROVE Cardinality(Reviewers(wk)) = 0
  BY FS_EmptySet

\* A step within a week, that starts no review.
LEMMA WeekFrame ==
  ASSUME WeekInv, TypeOK', UNCHANGED ticks,
         \/ UNCHANGED week
         \/ \E w \in Workers : week' = [week EXCEPT ![w] = 0],
         unmarked' = unmarked + (IF at[Server] = "noting" /\ at'[Server] # "noting" /\ marker' # ThisWeek
                         THEN 1 ELSE 0),
         marker' \in {marker, ThisWeek} \/ (marker' = 0 /\ at[Server] = "noting"),
         at'[Server] = "weekly" => marker' # ThisWeek,
         at'[Server] = "noting" => at[Server] = "noting" /\ marker' = marker
  PROVE  WeekInv'
  <1>1. ThisWeek' = ThisWeek /\ ThisWeek \in Nat /\ unmarked \in Nat
    BY DEF WeekInv, TypeOK, ThisWeek
  <1>2. \A w \in Workers : week'[w] \in {week[w], 0} /\ week[w] \in Nat
    BY DEF WeekInv, TypeOK
  <1>3. ASSUME NEW wk \in Nat \ {0} PROVE WeekBound(wk)'
    <2>1. Reviewers(wk)' \in SUBSET Reviewers(wk)
      BY <1>2 DEF Reviewers
    <2>2. IsFiniteSet(Reviewers(wk)) /\ Cardinality(Reviewers(wk)) \in Nat
      BY ReviewersFinite
    <2>3. Cardinality(Reviewers(wk)') <= Cardinality(Reviewers(wk)) /\ IsFiniteSet(Reviewers(wk)')
      BY <2>1, <2>2, FS_Subset
    <2>4. Cardinality(Reviewers(wk)') \in Nat
      BY <2>3, FS_CardinalityType
    <2>5. Cardinality(Reviewers(wk)) <= unmarked + (IF Unreviewed(wk) THEN 0 ELSE 1)
      BY DEF WeekInv, WeekBound
    <2> QED
      <3> DEFINE n == Cardinality(Reviewers(wk))
                 m == Cardinality(Reviewers(wk)')
      <3>1. n \in Nat /\ m \in Nat /\ m <= n /\ n <= unmarked + (IF Unreviewed(wk) THEN 0 ELSE 1)
        BY <2>2, <2>3, <2>4, <2>5
      <3> HIDE DEF n, m
      <3>2. m <= unmarked' + (IF Unreviewed(wk)' THEN 0 ELSE 1)
        <4>1. Unreviewed(wk)' => Unreviewed(wk) \/ unmarked' = unmarked + 1
          BY <1>1 DEF Unreviewed, WeekInv
        <4>2. unmarked' \in {unmarked, unmarked + 1}
          BY <1>1
        <4> QED
          BY <1>1, <3>1, <4>1, <4>2
      <3> QED
        BY <3>2 DEF m, WeekBound
  <1>4. marker' <= ThisWeek /\ (at'[Server] \in {"weekly", "noting"} => marker' # ThisWeek)
    BY <1>1 DEF WeekInv, TypeOK
  <1>5. \A w \in Workers : week'[w] <= ThisWeek
    BY <1>1, <1>2 DEF WeekInv
  <1> QED
    BY <1>1, <1>3, <1>4, <1>5 DEF WeekInv

\* The review starts one worker more.
LEMMA ReviewStarts ==
  ASSUME WeekInv, TypeOK', UNCHANGED <<ticks, unmarked, marker>>, at[Server] = "weekly",
         NEW w \in Workers, week' = [week EXCEPT ![w] = ThisWeek], at'[Server] = "noting"
  PROVE  WeekInv'
  <1>1. /\ ThisWeek' = ThisWeek /\ ThisWeek \in Nat /\ unmarked \in Nat
        /\ marker # ThisWeek /\ marker <= ThisWeek
    BY DEF WeekInv, TypeOK, ThisWeek
  <1>2. \A v \in Workers : week'[v] = (IF v = w THEN ThisWeek ELSE week[v])
    BY DEF WeekInv, TypeOK
  <1>3. ASSUME NEW wk \in Nat \ {0} PROVE WeekBound(wk)'
    <2> DEFINE R == Reviewers(wk)
    <2>1. IsFiniteSet(R) /\ Cardinality(R) \in Nat /\ IsFiniteSet(R \cup {w})
      BY ReviewersFinite, FS_AddElement
    <2>2. Cardinality(R) <= unmarked + (IF Unreviewed(wk) THEN 0 ELSE 1)
      BY DEF WeekInv, WeekBound
    <2>3. ~Unreviewed(wk)'
      BY <1>1 DEF Unreviewed
    <2>4. CASE wk = ThisWeek
      <3>1. Reviewers(wk)' \in SUBSET (R \cup {w})
        BY <1>2 DEF Reviewers
      <3>2. IsFiniteSet(Reviewers(wk)') /\ Cardinality(Reviewers(wk)') <= Cardinality(R \cup {w})
        BY <2>1, <3>1, FS_Subset
      <3>3. Cardinality(R \cup {w}) \in Nat /\ Cardinality(R \cup {w}) <= Cardinality(R) + 1
        BY <2>1, FS_AddElement
      <3>4. Cardinality(Reviewers(wk)') \in Nat
        BY <3>2, FS_CardinalityType
      <3>5. Cardinality(R) <= unmarked
        BY <1>1, <2>2, <2>4 DEF Unreviewed
      <3> QED
        BY <1>1, <2>1, <2>3, <3>2, <3>3, <3>4, <3>5 DEF WeekBound
    <2>5. CASE wk # ThisWeek
      <3>1. Reviewers(wk)' \in SUBSET R
        BY <1>2, <2>5 DEF Reviewers
      <3>2. IsFiniteSet(Reviewers(wk)') /\ Cardinality(Reviewers(wk)') <= Cardinality(R)
        BY <2>1, <3>1, FS_Subset
      <3>3. Cardinality(Reviewers(wk)') \in Nat
        BY <3>2, FS_CardinalityType
      <3> QED
        BY <1>1, <2>1, <2>2, <2>3, <3>2, <3>3 DEF WeekBound
    <2> QED
      BY <2>4, <2>5
  <1>4. \A v \in Workers : week'[v] <= ThisWeek
    BY <1>1, <1>2 DEF WeekInv
  <1> QED
    BY <1>1, <1>3, <1>4 DEF WeekInv

\* A new week has no review yet.
LEMMA WeekPasses ==
  ASSUME WeekInv, TypeOK', ticks' = ticks + 1, UNCHANGED <<unmarked, marker, week, at>>,
         at[Server] = "idle"
  PROVE  WeekInv'
  <1>1. /\ ThisWeek \in Nat /\ ThisWeek' \in {ThisWeek, ThisWeek + 1} /\ unmarked \in Nat
        /\ marker \in Nat
    BY DEF WeekInv, TypeOK, ThisWeek
  <1>2. ASSUME NEW wk \in Nat \ {0} PROVE WeekBound(wk)'
    <2>1. Cardinality(Reviewers(wk)) <= unmarked + (IF Unreviewed(wk) THEN 0 ELSE 1)
      BY DEF WeekInv, WeekBound
    <2>2. Cardinality(Reviewers(wk)) \in Nat /\ Reviewers(wk)' = Reviewers(wk)
      BY ReviewersFinite DEF Reviewers
    <2>3. CASE ThisWeek' = ThisWeek
      BY <2>1, <2>2, <2>3 DEF WeekBound, Unreviewed
    <2>4. CASE ThisWeek' = ThisWeek + 1 /\ wk = ThisWeek'
      <3>1. Reviewers(wk) = {}
        BY <1>1, <2>4 DEF Reviewers, WeekInv, TypeOK
      <3>2. Cardinality(Reviewers(wk)) = 0
        BY <3>1, NoneReview
      <3> QED
        BY <1>1, <2>2, <3>2 DEF WeekBound
    <2>5. CASE wk # ThisWeek'
      <3>1. ~Unreviewed(wk)'
        BY <2>5 DEF Unreviewed
      <3> QED
        BY <1>1, <2>1, <2>2, <3>1 DEF WeekBound
    <2> QED
      BY <1>1, <2>3, <2>4, <2>5
  <1>3. /\ marker' <= ThisWeek'
        /\ \A w \in Workers : week'[w] <= ThisWeek'
    BY <1>1 DEF WeekInv, TypeOK
  <1> QED
    BY <1>2, <1>3 DEF WeekInv

LEMMA WeekInit == Init => WeekInv
  <1> SUFFICES ASSUME Init PROVE WeekInv
    OBVIOUS
  <1>1. TypeOK /\ marker = 0 /\ unmarked = 0 /\ at[Server] = "idle" /\ \A w \in Workers : week[w] = 0
    BY InitTyped, ProcFacts DEF Init
  <1>2. ThisWeek \in Nat
    BY <1>1 DEF TypeOK, ThisWeek
  <1>3. ASSUME NEW wk \in Nat \ {0} PROVE WeekBound(wk)
    <2>1. Reviewers(wk) = {}
      BY <1>1 DEF Reviewers
    <2> QED
      BY <1>1, <2>1, NoneReview DEF WeekBound
  <1> QED
    BY <1>1, <1>2, <1>3 DEF WeekInv

LEMMA WeekStep == WeekInv /\ [Next]_vars => WeekInv'
  <1> SUFFICES ASSUME WeekInv, [Next]_vars PROVE WeekInv'
    OBVIOUS
  <1> USE ProcFacts
  <1>0. TypeOK /\ TypeOK' /\ unmarked \in Nat
    BY Typed DEF WeekInv, TypeOK
  <1>1. CASE AfterCycle
    <2>1. UNCHANGED week \/ \E w \in Workers : week' = [week EXCEPT ![w] = 0]
      BY <1>1 DEF AfterCycle, Spawn, born
    <2>2. at[Server] = "idle" /\ at'[Server] = "marking"
      BY <1>0, <1>1 DEF AfterCycle, Spawn, TypeOK
    <2> QED
      BY <1>0, <1>1, <2>1, <2>2, WeekFrame DEF AfterCycle, clock, history
  <1>2. CASE CycleMarked
    BY <1>0, <1>2, WeekFrame DEF CycleMarked, history, born, TypeOK
  <1>3. CASE Directive
    <2>1. UNCHANGED week \/ \E w \in Workers : week' = [week EXCEPT ![w] = 0]
      BY <1>3 DEF Directive, Spawn
    <2>2. at[Server] = "idle" /\ at'[Server] = "idle"
      BY <1>0, <1>3 DEF Directive, Spawn, TypeOK
    <2> QED
      BY <1>0, <1>3, <2>1, <2>2, WeekFrame DEF Directive, clock, history
  <1>4. CASE WeeklyDue
    <2>1. at[Server] = "idle" /\ at'[Server] = "weekly" /\ marker # ThisWeek
      BY <1>0, <1>4 DEF WeeklyDue, ShouldRun, TypeOK
    <2> QED
      BY <1>0, <1>4, <2>1, WeekFrame DEF WeeklyDue, clock, history, born
  <1>5. CASE WeeklySpawned
    <2>1. CASE Spawn(TRUE, TRUE, seen[Server], ThisWeek) /\
               at' = [at EXCEPT ![Server] = "noting", ![started + 1] = "asking"]
      <3>1. started + 1 \in Workers /\ week' = [week EXCEPT ![started + 1] = ThisWeek]
        BY <2>1 DEF Spawn
      <3>2. at[Server] = "weekly" /\ at'[Server] = "noting"
        BY <1>0, <1>5, <2>1, <3>1 DEF WeeklySpawned, TypeOK
      <3> QED
        BY <1>0, <1>5, <3>1, <3>2, ReviewStarts DEF WeeklySpawned, clock, history
    <2>2. CASE at' = [at EXCEPT ![Server] = OnFailure] /\ UNCHANGED born
      BY <1>0, <1>5, <2>2, WeekFrame DEF WeeklySpawned, OnFailure, clock, history, born, TypeOK
    <2> QED
      BY <1>5, <2>1, <2>2 DEF WeeklySpawned
  <1>6. CASE WeeklyNoted
    <2>1. /\ at[Server] = "noting" /\ at'[Server] \in {"clearing", "idle"}
          /\ UNCHANGED <<ticks, week>>
          /\ \/ marker' = ThisWeek /\ unmarked' = unmarked
             \/ marker' \in {marker, 0} /\ unmarked' = unmarked + 1
      BY <1>0, <1>6 DEF WeeklyNoted, MarkerLost, born, TypeOK
    <2>2. marker # ThisWeek /\ ThisWeek # 0
      BY <1>0, <2>1 DEF WeekInv, TypeOK, ThisWeek
    <2> QED
      BY <1>0, <2>1, <2>2, WeekFrame
  <1>7. CASE QueueCleared
    BY <1>0, <1>7, WeekFrame DEF QueueCleared, clock, history, born, TypeOK
  <1>8. ASSUME NEW w \in Workers, WorkerStep(w) PROVE WeekInv'
    <2>1. at'[Server] = at[Server]
      BY <1>0, <1>8 DEF TypeOK, WorkerStep, Answer, InboxRead, InboxWritten, QueueRead, QueueWritten
    <2>2. UNCHANGED <<ticks, marker, week, unmarked>>
      BY <1>8 DEF WorkerStep, Answer, InboxRead, InboxWritten, QueueRead, QueueWritten,
                  clock, history, born
    <2> QED
      BY <1>0, <2>1, <2>2, WeekFrame DEF WeekInv
  <1>9. ASSUME NEW p \in Procs, OverridesRead(p) \/ OverridesWritten(p) PROVE WeekInv'
    <2>1. at'[Server] = at[Server] \/ (at[Server] # "noting" /\ at'[Server] \in {"storing", "settling"})
      BY <1>0, <1>9 DEF TypeOK, OverridesRead, OverridesWritten
    <2>2. UNCHANGED <<ticks, marker, week, unmarked>>
      BY <1>9 DEF OverridesRead, OverridesWritten, clock, history, born
    <2> QED
      BY <1>0, <2>1, <2>2, WeekFrame DEF WeekInv
  <1>10. ASSUME NEW k \in Keys, Approve(k) \/ Reject(k) PROVE WeekInv'
    <2>1. at[Server] = "idle" /\ at'[Server] \in {"merging", "settling"}
      BY <1>0, <1>10 DEF TypeOK, Approve, Reject
    <2>2. UNCHANGED <<ticks, marker, week, unmarked>>
      BY <1>10 DEF Approve, Reject, clock, history, born
    <2> QED
      BY <1>0, <2>1, <2>2, WeekFrame
  <1>11. CASE InboxSettled
    BY <1>0, <1>11, WeekFrame DEF InboxSettled, clock, history, born, TypeOK
  <1>12. CASE Restart
    <2>1. /\ at'[Server] = "idle" /\ UNCHANGED <<ticks, week>> /\ marker' \in {marker, 0}
          /\ at[Server] # "noting" => marker' = marker
          /\ unmarked' = unmarked + (IF at[Server] = "noting" THEN 1 ELSE 0)
      BY <1>0, <1>12 DEF Restart, MarkerLost, born, TypeOK
    <2>2. at[Server] = "noting" => marker' # ThisWeek
      BY <1>0, <2>1 DEF WeekInv, TypeOK, ThisWeek
    <2> QED
      BY <1>0, <2>1, <2>2, WeekFrame
  <1>13. CASE Tick
    BY <1>0, <1>13, WeekPasses DEF Tick, proc, born, history
  <1>14. CASE UNCHANGED vars
    BY <1>0, <1>14, WeekFrame DEF vars, WeekInv
  <1> QED
    BY <1>1, <1>2, <1>3, <1>4, <1>5, <1>6, <1>7, <1>8, <1>9, <1>10, <1>11, <1>12, <1>13, <1>14
       DEF Next

\* The weeks' reviews are counted rightly, whenever the server dies or a write fails.
THEOREM WeeksAreCounted == Spec => []WeekInv
  BY WeekInit, WeekStep, PTL DEF Spec

\* A week is reviewed once, and once more only for each worker whose marker was not
\* written, because the server died or because the write failed unnoticed.
THEOREM OneReviewAWeek == Spec => []WeeklyOnce
  <1>1. WeekInv => WeeklyOnce
    <2> SUFFICES ASSUME WeekInv, NEW wk \in 1 .. (MaxTicks + 1)
                 PROVE  Cardinality({w \in Workers : week[w] = wk}) <= 1 + unmarked
      BY DEF WeeklyOnce
    <2>1. wk \in Nat \ {0} /\ unmarked \in Nat
      BY ProcFacts DEF WeekInv, TypeOK
    <2>2. Cardinality(Reviewers(wk)) \in Nat
      BY ReviewersFinite
    <2>3. WeekBound(wk)
      BY <2>1 DEF WeekInv
    <2>4. Cardinality(Reviewers(wk)) <= 1 + unmarked
      BY <2>1, <2>2, <2>3 DEF WeekBound
    <2> QED
      BY <2>4 DEF Reviewers
  <1> QED
    BY <1>1, WeeksAreCounted, PTL

----------------------------------------------------------------------------
(* Whose a change is.  Who is about to write the overrides has read them as *)
(* they are, but for those that a write of another has outdated.           *)

ReadIsCurrent == \A p \in Procs : at[p] = "storing" /\ p \notin mixed => seen[p] = override

\* A step in which nobody writes the overrides, or comes to read them.
LEMMA CurrentFrame ==
  ASSUME ReadIsCurrent, UNCHANGED override,
         \A p \in Procs : at'[p] = "storing" /\ p \notin mixed' =>
           at[p] = "storing" /\ p \notin mixed /\ seen'[p] = seen[p]
  PROVE  ReadIsCurrent'
  BY DEF ReadIsCurrent

LEMMA CurrentStep == TypeOK /\ ReadIsCurrent /\ [Next]_vars => ReadIsCurrent'
  <1> SUFFICES ASSUME TypeOK, ReadIsCurrent, [Next]_vars PROVE ReadIsCurrent'
    OBVIOUS
  <1> USE ProcFacts
  <1>1. CASE AfterCycle
    <2>1. \A p \in Procs : at'[p] = "storing" => at[p] = "storing"
      BY <1>1 DEF TypeOK, AfterCycle, Spawn
    <2> QED
      BY <1>1, <2>1, CurrentFrame DEF AfterCycle, files
  <1>2. CASE CycleMarked
    BY <1>2, CurrentFrame DEF TypeOK, CycleMarked, files
  <1>3. CASE Directive
    <2>1. \A p \in Procs : at'[p] = "storing" => at[p] = "storing"
      BY <1>3 DEF TypeOK, Directive, Spawn
    <2> QED
      BY <1>3, <2>1, CurrentFrame DEF Directive, files
  <1>4. CASE WeeklyDue
    BY <1>4, CurrentFrame DEF TypeOK, WeeklyDue, files
  <1>5. CASE WeeklySpawned
    <2>1. \A p \in Procs : at'[p] = "storing" => at[p] = "storing"
      BY <1>5 DEF TypeOK, WeeklySpawned, Spawn, OnFailure
    <2> QED
      BY <1>5, <2>1, CurrentFrame DEF WeeklySpawned, files
  <1>6. CASE WeeklyNoted
    BY <1>6, CurrentFrame DEF TypeOK, WeeklyNoted, files
  <1>7. CASE QueueCleared
    BY <1>7, CurrentFrame DEF TypeOK, QueueCleared
  <1>8. ASSUME NEW w \in Workers, WorkerStep(w) PROVE ReadIsCurrent'
    <2>1. /\ \A p \in Procs \ {w} : at'[p] = at[p] /\ seen'[p] = seen[p]
          /\ UNCHANGED override
      BY <1>8 DEF TypeOK, WorkerStep, Answer, InboxRead, InboxWritten, QueueRead, QueueWritten,
                  Read, files
    <2>2. at'[w] # "storing"
      <3>1. CASE Answer(w)
        <4>1. PICK P \in Proposals :
                LET G == Gated(w, P)
                    ps == Only(w, Applied(w, G))
                IN at' = [at EXCEPT ![w] = Stage(ForReview(w, G), Deferred(w, G), ps)]
          BY <3>1 DEF Answer
        <4>2. PICK place : /\ place \in {"reviewing", "deferring", "merging", "done"}
                           /\ at' = [at EXCEPT ![w] = place]
          BY <4>1, StageIsPlace
        <4> QED
          BY <4>2 DEF TypeOK
      <3>2. CASE InboxWritten(w) \/ QueueWritten(w)
        <4>1. PICK place : /\ place \in {"reviewing", "deferring", "merging", "done"}
                           /\ at' = [at EXCEPT ![w] = place]
          BY <3>2, StageIsPlace DEF InboxWritten, QueueWritten
        <4> QED
          BY <4>1 DEF TypeOK
      <3>3. CASE InboxRead(w) \/ QueueRead(w)
        BY <3>3 DEF TypeOK, InboxRead, QueueRead
      <3> QED
        BY <1>8, <3>1, <3>2, <3>3 DEF WorkerStep
    <2>3. \A p \in Procs \ {w} : p \notin mixed' => p \notin mixed
      BY <1>8 DEF WorkerStep, Answer, InboxRead, InboxWritten, QueueRead, QueueWritten,
                  Read, Outdates
    <2> QED
      BY <2>1, <2>2, <2>3, CurrentFrame
  <1>9. ASSUME NEW p \in Procs, OverridesRead(p) PROVE ReadIsCurrent'
    <2>1. /\ \A q \in Procs \ {p} : at'[q] = at[q] /\ seen'[q] = seen[q]
          /\ UNCHANGED override
          /\ \A q \in Procs \ {p} : q \notin mixed' => q \notin mixed
          /\ p \notin mixed' => seen'[p] = override
      BY <1>9 DEF TypeOK, OverridesRead, Read, files
    <2> QED
      BY <2>1 DEF ReadIsCurrent
  <1>10. ASSUME NEW p \in Procs, OverridesWritten(p) PROVE ReadIsCurrent'
    <2>1. /\ at'[p] \in {"settling", "done"}
          /\ \A q \in Procs \ {p} : at'[q] = at[q]
          /\ \A q \in Procs \ {p} : at[q] = "storing" => q \in mixed'
      BY <1>10 DEF TypeOK, OverridesWritten, Outdates, Writing, OverrideStages
    <2> QED
      BY <2>1 DEF ReadIsCurrent
  <1>11. ASSUME NEW k \in Keys, Approve(k) \/ Reject(k) PROVE ReadIsCurrent'
    BY <1>11, CurrentFrame DEF TypeOK, Approve, Reject, files
  <1>12. CASE InboxSettled
    BY <1>12, CurrentFrame DEF TypeOK, InboxSettled, Outdates
  <1>13. CASE Restart
    <2>1. CASE at[Server] = "storing"
      BY <1>13, <2>1 DEF TypeOK, Restart, ReadIsCurrent, Writing, OverrideStages
    <2>2. CASE at[Server] # "storing"
      BY <1>13, <2>2, CurrentFrame DEF TypeOK, Restart
    <2> QED
      BY <2>1, <2>2
  <1>14. CASE Tick
    BY <1>14, CurrentFrame DEF Tick, files, proc
  <1>15. CASE UNCHANGED vars
    BY <1>15, CurrentFrame DEF vars
  <1> QED
    BY <1>1, <1>2, <1>3, <1>4, <1>5, <1>6, <1>7, <1>8, <1>9, <1>10, <1>11, <1>12, <1>13,
       <1>14, <1>15 DEF Next

\* A parameter that changes is changed by a process that proposes it, or by one
\* whose write met another's.
LEMMA ChangesAreOwn ==
  ASSUME TypeOK, ReadIsCurrent, [Next]_vars, NEW k \in Keys, override'[k] # override[k]
  PROVE  \/ override' = Empty
         \/ \E p \in Procs : at[p] = "storing" /\ at'[p] # "storing"
                              /\ (params[p][k] # 0 \/ p \in mixed)
  <1> USE ProcFacts
  <1>1. CASE Restart
    BY <1>1 DEF Restart, TypeOK
  <1>2. ASSUME NEW p \in Procs, OverridesWritten(p)
        PROVE  \/ override' = Empty
               \/ at[p] = "storing" /\ at'[p] # "storing" /\ (params[p][k] # 0 \/ p \in mixed)
    <2>1. at[p] = "storing" /\ at'[p] # "storing"
      BY <1>2 DEF OverridesWritten, TypeOK
    <2>2. CASE p \notin mixed /\ params[p][k] = 0 /\ override' # Empty
      <3>1. override' \in {Merge(seen[p], params[p]), override} /\ seen[p] = override
        BY <1>2, <2>1, <2>2 DEF OverridesWritten, Written, ReadIsCurrent
      <3>2. override'[k] = override[k]
        BY <2>2, <3>1 DEF Merge
      <3> QED
        BY <3>2
    <2> QED
      BY <2>1, <2>2
  <1>3. CASE ~Restart /\ ~\E p \in Procs : OverridesWritten(p)
    <2>1. UNCHANGED override
      BY <1>3 DEF Next, vars, files, AfterCycle, CycleMarked, Directive, WeeklyDue, WeeklySpawned,
                  WeeklyNoted, QueueCleared, WorkerStep, Answer, InboxRead, InboxWritten,
                  QueueRead, QueueWritten, OverridesRead, Approve, Reject, InboxSettled, Tick
    <2> QED
      BY <2>1
  <1> QED
    BY <1>1, <1>2, <1>3

\* Nobody's parameter goes missing but by a merge of his own proposal, by writes
\* that overlap, or with the whole file, by a write that failed or was cut.
THEOREM ProposalsAreOwn == Spec => OnlyOwnProposals
  <1>1. Init => ReadIsCurrent
    BY DEF Init, ReadIsCurrent
  <1>2. TypeOK /\ ReadIsCurrent /\ [Next]_vars =>
          [\A k \in Keys : override'[k] # override[k] =>
             \/ override' = Empty
             \/ \E p \in Procs : at[p] = "storing" /\ at'[p] # "storing"
                                  /\ (params[p][k] # 0 \/ p \in mixed)]_vars
    BY ChangesAreOwn
  <1> QED
    BY <1>1, <1>2, CurrentStep, OpsTypes, PTL DEF Spec, OnlyOwnProposals
=============================================================================
