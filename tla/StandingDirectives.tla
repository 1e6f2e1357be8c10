------------------------- MODULE StandingDirectives -------------------------
(***************************************************************************)
(* The standing directives of the users: a list per profile, and beside    *)
(* the profiles the marks of what was removed by hand, which keep the      *)
(* directive every boot seeds from coming back.                            *)
(*                                                                         *)
(* A removal and an addition write two files, one after the other and in   *)
(* place.  "cut" says where a death of the server ended them: in the list, *)
(* between the two, in the marks, or nowhere.  A write that fails is only  *)
(* logged.  A directive's identifier is its text.                          *)
(***************************************************************************)
EXTENDS Naturals, SequencesExt, FiniteSets

CONSTANTS Uids,            \* user ids
          Texts,           \* directives
          Macro,           \* the directive that is seeded at boot
          MaxDirectives,   \* how many a profile holds
          MaxJudging,      \* bound: messages judged at a time
          Torn             \* what a write that was cut leaves behind: no JSON

ASSUME DirectiveAssumption ==
  /\ Macro \in Texts /\ MaxDirectives \in Nat \ {0}
  /\ \A marks \in SUBSET (Uids \X Texts) : Torn # marks

Cuts == {"none", "inList", "between", "inMarks"}

VARIABLES list,            \* profiles/<uid>/standing_directives.json
          tombs,           \* directive_tombstones.json, as pairs
          judging,         \* messages whose kind a model is still judging
          withdrawn        \* history: removals that were answered and saved, and stand

dvars == <<list, tombs, judging, withdrawn>>

Listed(u) == IF list[u] = Torn THEN <<>> ELSE list[u]

Tombs == IF tombs = Torn THEN {} ELSE tombs

Capped(s) == IF Len(s) > MaxDirectives THEN Tail(s) ELSE s

DirectivesInit ==
  /\ list = [u \in Uids |-> <<>>]
  /\ tombs = {}
  /\ judging = {}
  /\ withdrawn = {}

(***************************************************************************)
(* The list is saved first, the mark second, and only when it changes.     *)
(***************************************************************************)
\* What write_text of "new" may leave of "old": a write that fails does so before
\* the file is opened or behind, and its caller goes on as if it were saved.
Written(old, new) == {new, old, Torn}

SavesList(u, s, cut) ==
  \E l \in IF cut = "inList" THEN {Torn} ELSE Written(list[u], s) :
    list' = [list EXCEPT ![u] = l]

SavesMarks(ts, cut) ==
  /\ cut = "inMarks" => ts # Tombs
  /\ tombs' \in CASE cut \in {"inList", "between"} -> {tombs}
                  [] cut = "inMarks" -> {Torn}
                  [] cut = "none" -> IF ts = Tombs THEN {tombs} ELSE Written(tombs, ts)

\* With the file of the marks what was removed before is forgotten.
Standing(removals) == IF tombs' = Torn THEN {} ELSE removals

\* Adding a directive again takes its mark back.
Appends(u, t, cut) ==
  /\ ~Contains(Listed(u), t)
  /\ SavesList(u, Capped(Append(Listed(u), t)), cut)
  /\ SavesMarks(Tombs \ {<<u, t>>}, cut)

AppendDirective(u, t, cut) ==
  /\ Appends(u, t, cut)
  /\ withdrawn' = Standing(withdrawn \ {<<u, t>>})
  /\ UNCHANGED judging

\* The filter drops one entry: no directive is listed twice (DirectivesInv in
\* AccountsProofs).  What is still being judged may come back, as a message sent
\* before.
RemoveDirective(u, t, cut) ==
  /\ \E i \in DOMAIN Listed(u) :
       Listed(u)[i] = t /\ SavesList(u, RemoveAt(Listed(u), i), cut)
  /\ SavesMarks(Tombs \union {<<u, t>>}, cut)
  /\ LET saved == ~Contains(Listed(u)', t) /\ <<u, t>> \in Tombs'
     IN withdrawn' = Standing(IF cut = "none" /\ saved /\ <<u, t>> \notin judging
                              THEN withdrawn \union {<<u, t>>} ELSE withdrawn)
  /\ UNCHANGED judging

\* A message to the swarm is answered, and a task asks whether it is to stand.
CeoDirective(u, t) ==
  /\ Cardinality(judging) < MaxJudging
  /\ judging' = judging \union {<<u, t>>}
  /\ withdrawn' = withdrawn \ {<<u, t>>}
  /\ UNCHANGED <<list, tombs>>

AutoPersist(u, t, cut) ==
  /\ <<u, t>> \in judging
  /\ judging' = judging \ {<<u, t>>}
  /\ \/ Appends(u, t, cut) /\ withdrawn' = Standing(withdrawn \ {<<u, t>>})
     \/ cut = "none" /\ UNCHANGED <<list, tombs, withdrawn>>

\* Mutant: a boot seeds whatever was removed.
ToSeedAlways(u) == TRUE

\* At boot, for the one administrator.
ToSeed(u) == <<u, Macro>> \notin Tombs

SeedAdminDirective(u, cut) ==
  /\ IF ToSeed(u) /\ ~Contains(Listed(u), Macro)
     THEN Appends(u, Macro, cut) /\ withdrawn' = Standing(withdrawn)
     ELSE cut = "none" /\ UNCHANGED <<list, tombs, withdrawn>>

-----------------------------------------------------------------------------
(***************************************************************************)
(* RemovedStaysRemoved: what a user removed, in a removal that was saved,  *)
(* stays off his list until he asks for it again, whatever is added,       *)
(* dropped for room, seeded at a boot, cut by a death of the server or not *)
(* saved in between - as long as the file of the marks is not torn.        *)
(***************************************************************************)
RemovedStaysRemoved == \A p \in withdrawn : ~Contains(Listed(p[1]), p[2])
=============================================================================
