---------------------------- MODULE BrokerCalls ----------------------------
(***************************************************************************)
(* How KISBroker (infra/kis_broker.py) asks KIS anything: the token every  *)
(* request carries, the one repair of a refused token, the repeats of a    *)
(* rate-limited request, and a sell, which first looks up the ticker's     *)
(* standing sells and cancels them.                                        *)
(*                                                                         *)
(* One broker object serves coroutines that interleave at every await:     *)
(* the trading loop, the equity poller and the dashboard.  KIS serves a    *)
(* request, and its answer is heard later.  Of the clock the model keeps   *)
(* what the code asks of it, how near each token is to its expiry.         *)
(***************************************************************************)
EXTENDS Integers, FiniteSets

CONSTANTS Readers,      \* coroutines that read (balance, prices)
          Sellers,      \* coroutines that sell
          RateRetries,  \* _RATE_LIMIT_MAX_RETRY
          MaxTokens,    \* bound: tokens KIS grants
          MaxStanding   \* bound: sells of the ticker that stand at the start

Callers == Readers \cup Sellers

ASSUME CallAssumption ==
  /\ Readers \cap Sellers = {}
  /\ RateRetries \in Nat /\ MaxTokens \in Nat /\ MaxStanding \in Nat \ {0}

VARIABLES
  \* KIS
  granted,   \* tokens granted so far, numbered in their order
  honoured,  \* those KIS still takes
  age,       \* of each: good, near its expiry (_TOKEN_SAFETY_SEC), or past it
  standing,  \* sells of the ticker that stand
  \* the process and its disk
  memTok, diskTok,  \* _token; the token file
  call       \* what each coroutine is in

vars == <<granted, honoured, age, standing, memTok, diskTok, call>>

kisVars == <<granted, honoured, age>>

Tokens  == 1..MaxTokens
Jobs    == {"read", "pending", "cancel", "order"}
Answers == {"none", "ok", "expired", "limited", "refused", "lost"}

(***************************************************************************)
(* A coroutine: its job; where it is (asking for a token, the grant on its *)
(* way, its request out, its answer on its way); the token; whether an     *)
(* answer was heard, which spends the repair; the repeats so far; the      *)
(* answer; the cancellations left of a sell.  For the properties: the      *)
(* orders KIS took of one sell; whether KIS dropped the token during the   *)
(* call; and whether the sell's lookup and cancellations all came through. *)
(***************************************************************************)
Idle == [job |-> "none", at |-> "idle", tok |-> 0, force |-> FALSE, heard |-> FALSE,
         tries |-> 0, ans |-> "none", left |-> 0,
         taken |-> 0, died |-> FALSE, looked |-> TRUE]

Init ==
  /\ granted = 0 /\ honoured = {} /\ age = [t \in Tokens |-> "good"]
  /\ standing \in 0..MaxStanding
  /\ memTok = 0 /\ diskTok = 0
  /\ call = [c \in Callers |-> Idle]

-----------------------------------------------------------------------------
(* Time, KIS, the process. *)

\* A token granted earlier expires earlier.
TokenAges ==
  /\ \E t \in 1..granted :
       /\ age[t] # "past"
       /\ \A s \in 1..(t - 1) : age[s] = "past"
       /\ age' = [age EXCEPT ![t] = IF @ = "good" THEN "near" ELSE "past"]
  /\ UNCHANGED <<granted, honoured, standing, memTok, diskTok, call>>

\* KIS drops a token, before its time or at it.
TokenDropped ==
  /\ \E t \in honoured :
       /\ honoured' = honoured \ {t}
       /\ call' = [c \in Callers |-> IF call[c].tok = t THEN [call[c] EXCEPT !.died = TRUE] ELSE call[c]]
  /\ UNCHANGED <<granted, age, standing, memTok, diskTok>>

\* A standing sell fills or lapses.
SellSettles ==
  /\ standing > 0 /\ standing' = standing - 1
  /\ UNCHANGED <<kisVars, memTok, diskTok, call>>

\* What is in memory goes with the process; the token file stays.
Restart ==
  /\ memTok' = 0
  /\ call' = [c \in Callers |-> Idle]
  /\ UNCHANGED <<kisVars, standing, diskTok>>

-----------------------------------------------------------------------------
(* token() and the start of a request. *)

Usable(t) == t # 0 /\ age[t] = "good"

AtHandKept(force) == IF Usable(memTok) THEN memTok ELSE IF Usable(diskTok) THEN diskTok ELSE 0

\* The token at hand: the one in memory, else the one on disk; none when the
\* reissue is forced.
AtHand(force) ==
  IF force THEN 0
  ELSE IF Usable(memTok) THEN memTok
  ELSE IF Usable(diskTok) THEN diskTok
  ELSE 0

\* c asks for a token and, when one is at hand, sends its request with it.
WithToken(c, r, force) ==
  LET t == AtHand(force)
  IN /\ call' = [call EXCEPT ![c] = [r EXCEPT !.force = force, !.tok = t, !.ans = "none",
                                              !.died = FALSE,
                                              !.at = IF t = 0 THEN "issue" ELSE "ask"]]
     /\ memTok' = IF t = 0 THEN memTok ELSE t
     /\ UNCHANGED <<kisVars, diskTok>>

\* Each request starts afresh: nothing heard, nothing repeated.
Asking(r, job) == [r EXCEPT !.job = job, !.heard = FALSE, !.tries = 0]

Read(c) ==
  /\ call[c].at = "idle"
  /\ WithToken(c, Asking(Idle, "read"), FALSE)
  /\ UNCHANGED standing

\* kr_sell looks up the ticker's standing orders first.
Sell(c) ==
  /\ call[c].at = "idle"
  /\ WithToken(c, Asking(Idle, "pending"), FALSE)
  /\ UNCHANGED standing

\* KIS grants a token; the answer is on its way.
Granted(c) ==
  /\ call[c].at = "issue" /\ granted < MaxTokens
  /\ granted' = granted + 1
  /\ honoured' = honoured \cup {granted'}
  /\ call' = [call EXCEPT ![c].at = "granted", ![c].tok = granted']
  /\ UNCHANGED <<age, standing, memTok, diskTok>>

\* It goes to memory and disk, over whatever arrived meanwhile.
TokenArrives(c) ==
  /\ call[c].at = "granted"
  /\ memTok' = call[c].tok /\ diskTok' = call[c].tok
  /\ call' = [call EXCEPT ![c].at = "ask"]
  /\ UNCHANGED <<kisVars, standing>>

-----------------------------------------------------------------------------
(* KIS answers. *)

Answer(c, ans) == call' = [call EXCEPT ![c].at = "told", ![c].ans = ans]

\* The rate limit may be looked at before the token.
Denied(c) ==
  /\ \E ans \in {"expired", "limited", "lost", "refused"} :
       /\ ans = "expired" => call[c].tok \notin honoured
       /\ ans = "refused" => call[c].tok \in honoured
       /\ Answer(c, ans)
  /\ UNCHANGED standing

ServedRead(c) ==
  /\ call[c].job = "read" /\ Answer(c, "ok")
  /\ UNCHANGED standing

\* The sells that stand, as KIS tells them now.
ServedPending(c) ==
  /\ call[c].job = "pending"
  /\ call' = [call EXCEPT ![c].at = "told", ![c].ans = "ok", ![c].left = standing]
  /\ UNCHANGED standing

ServedCancel(c) ==
  /\ call[c].job = "cancel" /\ standing > 0
  /\ \E ans \in {"ok", "lost"} : Answer(c, ans)
  /\ standing' = standing - 1

\* The order is taken, whether or not the answer comes back.  KIS refuses it
\* while an earlier sell locks the shares.
ServedOrder(c) ==
  /\ call[c].job = "order" /\ standing = 0
  /\ \E ans \in {"ok", "lost"} :
       call' = [call EXCEPT ![c].at = "told", ![c].ans = ans, ![c].taken = @ + 1]
  /\ standing' = 1

Serve(c) ==
  /\ call[c].at = "ask"
  /\ \/ Denied(c)
     \/ /\ call[c].tok \in honoured
        /\ ServedRead(c) \/ ServedPending(c) \/ ServedCancel(c) \/ ServedOrder(c)
  /\ UNCHANGED <<kisVars, memTok, diskTok>>

-----------------------------------------------------------------------------
(* The answer is heard. *)

\* _authed_json: the first answer that refuses the token has it reissued, once.
\* What kr_pending_orders passes on of a refusal no longer says why it was one.
Reissues(r) == ~r.heard /\ r.ans = "expired" /\ r.job # "pending"

RepeatsLost(r) == r.ans \in {"limited", "lost"} /\ r.tries < RateRetries /\ r.job # "pending"

\* A rate-limited request is sent again, up to _RATE_LIMIT_MAX_RETRY times.
Repeats(r) == r.ans = "limited" /\ r.tries < RateRetries /\ r.job # "pending"

Reissue(c) ==
  /\ call[c].at = "told" /\ Reissues(call[c])
  /\ WithToken(c, [call[c] EXCEPT !.heard = TRUE], TRUE)
  /\ UNCHANGED standing

Repeat(c) ==
  /\ call[c].at = "told" /\ Repeats(call[c])
  /\ call' = [call EXCEPT ![c].at = "ask", ![c].heard = TRUE, ![c].tries = @ + 1, ![c].ans = "none"]
  /\ UNCHANGED <<kisVars, standing, memTok, diskTok>>

LeftOfNone(r) == 0

\* The cancellations a sell has yet to make: an exception ends them.
LeftOf(r) ==
  IF r.ans = "lost" THEN 0
  ELSE IF r.job = "cancel" THEN r.left - 1
  ELSE IF r.ans = "ok" THEN r.left ELSE 0

\* The request is done with, for better or worse: a sell goes on to its next
\* cancellation or to its order, whatever the lookup and the cancellations came
\* to.
Done(c, r) ==
  \/ /\ r.job \in {"read", "order"}
     /\ call' = [call EXCEPT ![c] = Idle]
     /\ UNCHANGED <<kisVars, memTok, diskTok>>
  \/ /\ r.job \in {"pending", "cancel"}
     /\ WithToken(c, [Asking(r, IF LeftOf(r) > 0 THEN "cancel" ELSE "order")
                        EXCEPT !.left = LeftOf(r), !.looked = @ /\ r.ans = "ok"], FALSE)

Heard(c) ==
  /\ call[c].at = "told" /\ ~Reissues(call[c]) /\ ~Repeats(call[c])
  /\ Done(c, call[c])
  /\ UNCHANGED standing

\* KIS refuses a token.  A forced reissue leaves the refusal as the answer; else
\* the file's token serves for what is left of it, or the call fails.
TokenRefused(c) ==
  /\ call[c].at = "issue"
  /\ IF call[c].force THEN Done(c, [call[c] EXCEPT !.ans = "expired"])
     ELSE IF diskTok # 0 /\ age[diskTok] # "past"
          THEN /\ memTok' = diskTok
               /\ call' = [call EXCEPT ![c].at = "ask", ![c].tok = diskTok]
               /\ UNCHANGED <<kisVars, diskTok>>
          ELSE Done(c, [call[c] EXCEPT !.ans = "lost"])
  /\ UNCHANGED standing

-----------------------------------------------------------------------------
Step(c) ==
  \/ Granted(c) \/ TokenArrives(c) \/ TokenRefused(c)
  \/ Serve(c) \/ Reissue(c) \/ Repeat(c) \/ Heard(c)

Next ==
  \/ \E c \in Readers : Read(c)
  \/ \E c \in Sellers : Sell(c)
  \/ \E c \in Callers : Step(c)
  \/ TokenAges \/ TokenDropped \/ SellSettles \/ Restart

Spec == Init /\ [][Next]_vars

-----------------------------------------------------------------------------
TypeOK ==
  /\ granted \in 0..MaxTokens /\ honoured \subseteq 1..granted
  /\ age \in [Tokens -> {"good", "near", "past"}]
  /\ standing \in 0..MaxStanding
  /\ memTok \in 0..granted /\ diskTok \in 0..granted
  /\ \A c \in Callers :
       /\ call[c].job \in Jobs \cup {"none"} /\ call[c].ans \in Answers
       /\ call[c].at \in {"idle", "issue", "granted", "ask", "told"}
       /\ call[c].tok \in 0..granted /\ call[c].tries \in 0..RateRetries
       /\ call[c].left \in 0..MaxStanding /\ call[c].taken \in Nat

\* A sell puts at most one order in the market, however its token was refused,
\* its request limited and its answer lost: only what KIS has said it did not
\* take is sent again (_authed_json).
OneOrderPerSell == \A c \in Callers : call[c].taken <= 1

\* A read or an order does not end on a refused token (the "0 won" balance that
\* _authed_json is there for) unless KIS refused the reissue, dropped the token
\* once more during the call, or had the request wait for its rate limit first:
\* only the first answer is looked at.
EndsRefused(c) ==
  /\ call[c].at = "told" /\ call[c].ans = "expired" /\ call[c].job # "pending"
  /\ ~call[c].died /\ call[c].tries = 0

DeadTokenIsHealed == [][\A c \in Callers : EndsRefused(c) => ~Heard(c)]_vars

\* When one coroutine sells, its order is never turned down for shares that an
\* earlier sell locks, if the lookup and the cancellations came through:
\* kr_sell's "replace the standing sell" (the 003490 rejections).
SellIsNotBlocked ==
  \A s \in Sellers : (call[s].job = "order" /\ call[s].at = "ask" /\ call[s].looked /\ call[s].taken = 0)
                       => standing = 0
=============================================================================
