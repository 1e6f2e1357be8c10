------------------------- MODULE BrokerClientProofs -------------------------
(***************************************************************************)
(* What holds of the broker client.                                        *)
(*                                                                         *)
(* Its calls (BrokerCalls), for any number of coroutines, tokens, repeats  *)
(* and standing sells: a sell orders once, a dead token is healed within   *)
(* the call that meets it, and a lone sell is not blocked by the shares an *)
(* earlier one locks.                                                      *)
(*                                                                         *)
(* The account's reads (AccountReads), for any number of coroutines,       *)
(* stocks and trades: no ghost holdings, no vanished ones, and no fall of  *)
(* the curve for US stocks that a read missed.                             *)
(***************************************************************************)
EXTENDS BrokerCalls, AccountReads, TLAPS

----------------------------------------------------------------------------
(* The calls: types.                                                       *)

CallRecords ==
  [job : Jobs \cup {"none"}, at : {"idle", "issue", "granted", "ask", "told"}, tok : Nat,
   force : BOOLEAN, heard : BOOLEAN, tries : 0..RateRetries, ans : Answers, left : Nat,
   taken : Nat, died : BOOLEAN, looked : BOOLEAN]

\* The locals of a call go with its job: an idle coroutine has none, only a
\* seller cancels and orders, a cancellation is one of those left, and what is
\* counted of the order was answered so.
CallShape(c) ==
  LET r == call[c]
  IN /\ r.at = "idle" <=> r.job = "none"
     /\ c \in Readers => r.job \in {"none", "read"}
     /\ r.left <= MaxStanding /\ (r.job = "cancel" => r.left > 0)
     /\ r.tok <= granted
     /\ r.taken = 0 \/ (/\ r.taken = 1 /\ r.job = "order" /\ r.at = "told"
                        /\ r.ans \in {"ok", "lost"})

\* A call that has spent its repair on the token alone has a token KIS honours,
\* or honoured when the call got it.
RepairSpent(c) ==
  LET r == call[c]
  IN /\ r.at = "issue" /\ r.heard => r.force
     /\ r.heard /\ r.tries = 0 /\ r.at \in {"granted", "ask", "told"} =>
          /\ r.died \/ r.tok \in honoured
          /\ r.at = "told" /\ r.ans = "expired" => r.died

CallsInv ==
  /\ granted \in 0..MaxTokens /\ honoured \subseteq 1..granted
  /\ age \in [Tokens -> {"good", "near", "past"}]
  /\ standing \in 0..MaxStanding
  /\ memTok \in 0..granted /\ diskTok \in 0..granted
  /\ call \in [Callers -> CallRecords]
  /\ \A c \in Callers : CallShape(c) /\ RepairSpent(c)

LEMMA IdleRecord == Idle \in CallRecords
  BY CallAssumption DEF Idle, CallRecords, Jobs, Answers

LEMMA CallsInit == Init => CallsInv
  BY IdleRecord, CallAssumption DEF Init, CallsInv, CallShape, RepairSpent, Idle, Jobs

----------------------------------------------------------------------------
(* The calls: a step of one.                                               *)

\* The calls of the others, and KIS's tokens, stay as they are.
LEMMA OneCallStep ==
  ASSUME CallsInv, NEW c \in Callers, NEW r \in CallRecords, call' = [call EXCEPT ![c] = r],
         UNCHANGED kisVars, standing' \in 0..MaxStanding,
         memTok' \in 0..granted, diskTok' \in 0..granted,
         CallShape(c)', RepairSpent(c)'
  PROVE  CallsInv'
  <1>1. call' \in [Callers -> CallRecords] /\ \A d \in Callers \ {c} : call'[d] = call[d]
    BY DEF CallsInv
  <1>2. \A d \in Callers : CallShape(d)' /\ RepairSpent(d)'
    BY <1>1 DEF CallsInv, CallShape, RepairSpent, kisVars
  <1> QED
    BY <1>1, <1>2 DEF CallsInv, kisVars

LEMMA CallRecord ==
  ASSUME CallsInv, NEW c \in Callers PROVE call[c] \in CallRecords /\ CallShape(c) /\ RepairSpent(c)
  BY DEF CallsInv

\* The token at hand is one that was granted.
LEMMA AtHandGranted ==
  ASSUME CallsInv, NEW force PROVE AtHand(force) \in 0..granted
  BY DEF CallsInv, AtHand, Usable

\* A request begins, with the token at hand or by asking for one.
LEMMA RequestBegins ==
  ASSUME CallsInv, NEW c \in Callers, NEW r \in CallRecords, NEW force \in BOOLEAN,
         WithToken(c, r, force), UNCHANGED standing,
         r.job # "none", c \in Readers => r.job = "read",
         r.left <= MaxStanding, r.job = "cancel" => r.left > 0,
         r.taken = 0, r.heard => force
  PROVE  CallsInv'
  <1> DEFINE t == AtHand(force)
  <1> DEFINE new == [r EXCEPT !.force = force, !.tok = t, !.ans = "none", !.died = FALSE,
                              !.at = IF t = 0 THEN "issue" ELSE "ask"]
  <1>1. t \in 0..granted /\ granted \in Nat /\ (force => t = 0)
    BY AtHandGranted DEF CallsInv, AtHand
  <1>2. call' = [call EXCEPT ![c] = new] /\ memTok' = (IF t = 0 THEN memTok ELSE t)
        /\ UNCHANGED <<kisVars, diskTok>>
    BY DEF WithToken
  <1> HIDE DEF t
  <1>3. new \in CallRecords
    <2> DEFINE place == IF t = 0 THEN "issue" ELSE "ask"
    <2>1. place \in {"idle", "issue", "granted", "ask", "told"} /\ t \in Nat /\ "none" \in Answers
      BY <1>1 DEF Answers
    <2>2. new = [r EXCEPT !.force = force, !.tok = t, !.ans = "none", !.died = FALSE, !.at = place]
      OBVIOUS
    <2> HIDE DEF new, place
    <2> QED
      BY <2>1, <2>2 DEF CallRecords
  <1>4. /\ new.job = r.job /\ new.left = r.left /\ new.tok = t /\ new.taken = r.taken
        /\ new.heard = r.heard /\ new.force = force
        /\ new.at = (IF t = 0 THEN "issue" ELSE "ask")
    BY DEF CallRecords
  <1> HIDE DEF new
  <1>5. call'[c] = new
    BY <1>2 DEF CallsInv
  <1>6. CallShape(c)' /\ RepairSpent(c)'
    BY <1>1, <1>2, <1>4, <1>5 DEF CallShape, RepairSpent, kisVars
  <1>7. standing' \in 0..MaxStanding /\ memTok' \in 0..granted /\ diskTok' \in 0..granted
    BY <1>1, <1>2 DEF CallsInv
  <1> QED
    BY <1>2, <1>3, <1>6, <1>7, OneCallStep

\* An answer, or the order's place in the market, reaches its call.
LEMMA CallAnswered ==
  ASSUME CallsInv, NEW c \in Callers, call[c].at = "ask", NEW r \in CallRecords,
         call' = [call EXCEPT ![c] = r], UNCHANGED <<kisVars, memTok, diskTok>>,
         standing' \in 0..MaxStanding,
         r.at = "told", r.job = call[c].job, r.tok = call[c].tok,
         r.heard = call[c].heard, r.tries = call[c].tries, r.died = call[c].died,
         r.left <= MaxStanding, r.left = call[c].left \/ r.job = "pending",
         \/ r.taken = call[c].taken
         \/ r.taken = call[c].taken + 1 /\ r.job = "order" /\ r.ans \in {"ok", "lost"},
         r.ans = "expired" => r.tok \notin honoured
  PROVE  CallsInv'
  <1>1. call[c] \in CallRecords /\ CallShape(c) /\ RepairSpent(c) /\ call'[c] = r
    BY DEF CallsInv
  <1>2. call[c].taken = 0
    BY <1>1 DEF CallShape
  <1>3. CallShape(c)'
    BY <1>1, <1>2 DEF CallShape, kisVars
  <1>4. RepairSpent(c)'
    BY <1>1 DEF RepairSpent, kisVars
  <1> QED
    BY <1>3, <1>4, OneCallStep DEF CallsInv

----------------------------------------------------------------------------
(* The calls: their steps.                                                 *)

LEMMA WorldKeeps ==
  ASSUME CallsInv, TokenAges \/ TokenDropped \/ SellSettles \/ Restart PROVE CallsInv'
  <1>1. CASE TokenAges
    <2>1. PICK t \in 1..granted : age' = [age EXCEPT ![t] = IF @ = "good" THEN "near" ELSE "past"]
      BY <1>1 DEF TokenAges
    <2>2. UNCHANGED <<granted, honoured, standing, memTok, diskTok, call>>
      BY <1>1 DEF TokenAges
    <2>3. age' \in [Tokens -> {"good", "near", "past"}]
      BY <2>1 DEF CallsInv
    <2> QED
      BY <2>2, <2>3 DEF CallsInv, CallShape, RepairSpent
  <1>2. CASE TokenDropped
    <2>1. PICK t \in honoured :
            /\ honoured' = honoured \ {t}
            /\ call' = [c \in Callers |-> IF call[c].tok = t THEN [call[c] EXCEPT !.died = TRUE]
                                          ELSE call[c]]
      BY <1>2 DEF TokenDropped
    <2>2. UNCHANGED <<granted, age, standing, memTok, diskTok>>
      BY <1>2 DEF TokenDropped
    <2>3. ASSUME NEW c \in Callers
          PROVE  call'[c] \in CallRecords /\ CallShape(c)' /\ RepairSpent(c)'
      <3>1. call[c] \in CallRecords /\ CallShape(c) /\ RepairSpent(c)
        BY CallRecord
      <3>2. CASE call[c].tok = t
        <4>1. call'[c] = [call[c] EXCEPT !.died = TRUE]
          BY <2>1, <3>2
        <4>2. /\ call'[c] \in CallRecords /\ call'[c].died = TRUE
              /\ call'[c].at = call[c].at /\ call'[c].job = call[c].job
              /\ call'[c].left = call[c].left /\ call'[c].tok = call[c].tok
              /\ call'[c].taken = call[c].taken /\ call'[c].ans = call[c].ans
              /\ call'[c].heard = call[c].heard /\ call'[c].force = call[c].force
          BY <3>1, <4>1 DEF CallRecords
        <4> QED
          BY <2>2, <3>1, <4>2 DEF CallShape, RepairSpent
      <3>3. CASE call[c].tok # t
        <4>1. call'[c] = call[c]
          BY <2>1, <3>3
        <4> QED
          BY <2>1, <2>2, <3>1, <3>3, <4>1 DEF CallShape, RepairSpent
      <3> QED
        BY <3>2, <3>3
    <2>4. call' \in [Callers -> CallRecords]
      BY <2>1, <2>3
    <2> QED
      BY <2>1, <2>2, <2>3, <2>4 DEF CallsInv
  <1>3. CASE SellSettles
    <2>1. standing' \in 0..MaxStanding
      BY <1>3, CallAssumption DEF SellSettles, CallsInv
    <2> QED
      BY <1>3, <2>1 DEF SellSettles, kisVars, CallsInv, CallShape, RepairSpent
  <1>4. CASE Restart
    <2>1. \A c \in Callers : call'[c] = Idle
      BY <1>4 DEF Restart
    <2>2. \A c \in Callers : CallShape(c)' /\ RepairSpent(c)'
      <3>1. granted' \in Nat /\ MaxStanding \in Nat
        BY <1>4, CallAssumption DEF Restart, kisVars, CallsInv
      <3> QED
        BY <2>1, <3>1 DEF CallShape, RepairSpent, Idle
    <2> QED
      BY <1>4, <2>2, IdleRecord DEF Restart, kisVars, CallsInv
  <1> QED
    BY <1>1, <1>2, <1>3, <1>4

LEMMA AskedRecord ==
  ASSUME NEW r \in CallRecords, NEW job \in Jobs
  PROVE  /\ Asking(r, job) \in CallRecords /\ Asking(r, job).job = job
         /\ Asking(r, job).heard = FALSE /\ Asking(r, job).taken = r.taken
         /\ Asking(r, job).left = r.left /\ Asking(r, job).looked = r.looked
  <1>1. 0 \in 0..RateRetries
    BY CallAssumption
  <1>2. Asking(r, job) = [r EXCEPT !.job = job, !.heard = FALSE, !.tries = 0]
    BY DEF Asking
  <1> QED
    BY <1>1, <1>2 DEF CallRecords

LEMMA BeginKeeps ==
  ASSUME CallsInv
  PROVE  /\ \A c \in Readers : Read(c) => CallsInv'
         /\ \A c \in Sellers : Sell(c) => CallsInv'
  <1>1. ASSUME NEW c \in Readers, Read(c) PROVE CallsInv'
    <2> DEFINE r == Asking(Idle, "read")
    <2>1. Idle.taken = 0 /\ Idle.left = 0 /\ c \in Callers
      BY DEF Idle, Callers
    <2>2. /\ r \in CallRecords /\ r.job = "read" /\ r.heard = FALSE
          /\ r.taken = 0 /\ r.left = 0
      BY <2>1, IdleRecord, AskedRecord DEF Jobs
    <2>3. WithToken(c, r, FALSE) /\ UNCHANGED standing
      BY <1>1 DEF Read
    <2>4. 0 <= MaxStanding
      BY CallAssumption
    <2> HIDE DEF r
    <2> QED
      BY <2>1, <2>2, <2>3, <2>4, RequestBegins
  <1>2. ASSUME NEW c \in Sellers, Sell(c) PROVE CallsInv'
    <2> DEFINE r == Asking(Idle, "pending")
    <2>1. Idle.taken = 0 /\ Idle.left = 0 /\ c \in Callers /\ c \notin Readers
      BY CallAssumption DEF Idle, Callers
    <2>2. /\ r \in CallRecords /\ r.job = "pending" /\ r.heard = FALSE
          /\ r.taken = 0 /\ r.left = 0
      BY <2>1, IdleRecord, AskedRecord DEF Jobs
    <2>3. WithToken(c, r, FALSE) /\ UNCHANGED standing
      BY <1>2 DEF Sell
    <2>4. 0 <= MaxStanding
      BY CallAssumption
    <2> HIDE DEF r
    <2> QED
      BY <2>1, <2>2, <2>3, <2>4, RequestBegins
  <1> QED
    BY <1>1, <1>2

LEMMA GrantKeeps ==
  ASSUME CallsInv, NEW c \in Callers, Granted(c) PROVE CallsInv'
  <1> DEFINE new == [call[c] EXCEPT !.at = "granted", !.tok = granted']
  <1>1. /\ call[c].at = "issue" /\ granted < MaxTokens /\ granted' = granted + 1
        /\ honoured' = honoured \cup {granted'}
        /\ UNCHANGED <<age, standing, memTok, diskTok>>
    BY DEF Granted
  <1>2. call[c] \in CallRecords /\ CallShape(c) /\ RepairSpent(c)
    BY CallRecord
  <1>3. call' = [call EXCEPT ![c] = new]
    BY DEF Granted, CallsInv
  <1>4. granted' \in 0..MaxTokens /\ granted \in Nat /\ granted' \in Nat
    BY <1>1, CallAssumption DEF CallsInv
  <1>5. /\ new \in CallRecords /\ new.at = "granted" /\ new.tok = granted'
        /\ new.job = call[c].job /\ new.left = call[c].left /\ new.taken = call[c].taken
    BY <1>2, <1>4 DEF CallRecords
  <1> HIDE DEF new
  <1>6. call' \in [Callers -> CallRecords] /\ call'[c] = new
        /\ \A d \in Callers \ {c} : call'[d] = call[d]
    BY <1>3, <1>5 DEF CallsInv
  <1>7. CallShape(c)' /\ RepairSpent(c)'
    BY <1>1, <1>2, <1>4, <1>5, <1>6 DEF CallShape, RepairSpent
  <1>8. \A d \in Callers \ {c} : CallShape(d)' /\ RepairSpent(d)'
    <2> SUFFICES ASSUME NEW d \in Callers \ {c} PROVE CallShape(d)' /\ RepairSpent(d)'
      OBVIOUS
    <2>1. call[d] \in CallRecords /\ CallShape(d) /\ RepairSpent(d) /\ call'[d] = call[d]
      BY <1>6, CallRecord
    <2>2. call[d].tok \in Nat
      BY <2>1 DEF CallRecords
    <2> QED
      BY <1>1, <1>4, <2>1, <2>2 DEF CallShape, RepairSpent
  <1>9. honoured' \subseteq 1..granted' /\ memTok' \in 0..granted' /\ diskTok' \in 0..granted'
    BY <1>1, <1>4 DEF CallsInv
  <1> QED
    BY <1>1, <1>4, <1>6, <1>7, <1>8, <1>9 DEF CallsInv

LEMMA ArrivalKeeps ==
  ASSUME CallsInv, NEW c \in Callers, TokenArrives(c) PROVE CallsInv'
  <1> DEFINE new == [call[c] EXCEPT !.at = "ask"]
  <1>1. /\ call[c].at = "granted" /\ memTok' = call[c].tok /\ diskTok' = call[c].tok
        /\ UNCHANGED <<kisVars, standing>>
    BY DEF TokenArrives
  <1>2. call[c] \in CallRecords /\ CallShape(c) /\ RepairSpent(c)
    BY CallRecord
  <1>3. call' = [call EXCEPT ![c] = new]
    BY DEF TokenArrives, CallsInv
  <1>4. /\ new \in CallRecords /\ new.at = "ask" /\ new.tok = call[c].tok
        /\ new.job = call[c].job /\ new.left = call[c].left /\ new.taken = call[c].taken
        /\ new.heard = call[c].heard /\ new.tries = call[c].tries /\ new.died = call[c].died
    BY <1>2 DEF CallRecords
  <1> HIDE DEF new
  <1>5. call'[c] = new
    BY <1>3 DEF CallsInv
  <1>6. CallShape(c)' /\ RepairSpent(c)'
    BY <1>1, <1>2, <1>4, <1>5 DEF CallShape, RepairSpent, kisVars
  <1>7. memTok' \in 0..granted /\ diskTok' \in 0..granted
    BY <1>1, <1>2 DEF CallShape, CallRecords, CallsInv
  <1> QED
    BY <1>1, <1>3, <1>4, <1>6, <1>7, OneCallStep DEF CallsInv

LEMMA ServeKeeps ==
  ASSUME CallsInv, NEW c \in Callers, Serve(c) PROVE CallsInv'
  <1>1. call[c].at = "ask" /\ UNCHANGED <<kisVars, memTok, diskTok>>
    BY DEF Serve
  <1>2. call[c] \in CallRecords /\ CallShape(c) /\ RepairSpent(c)
    BY CallRecord
  <1>3. standing \in 0..MaxStanding /\ MaxStanding \in Nat /\ MaxStanding > 0
    BY CallAssumption DEF CallsInv
  \* An answer that says nothing of the market.
  <1>4. ASSUME NEW ans \in Answers, Answer(c, ans), standing' \in 0..MaxStanding,
               ans = "expired" => call[c].tok \notin honoured
        PROVE  CallsInv'
    <2> DEFINE new == [call[c] EXCEPT !.at = "told", !.ans = ans]
    <2>1. call' = [call EXCEPT ![c] = new]
      BY <1>4 DEF Answer, CallsInv
    <2>2. /\ new \in CallRecords /\ new.at = "told" /\ new.ans = ans
          /\ new.job = call[c].job /\ new.tok = call[c].tok /\ new.heard = call[c].heard
          /\ new.tries = call[c].tries /\ new.died = call[c].died
          /\ new.left = call[c].left /\ new.taken = call[c].taken
      BY <1>2, <1>4 DEF CallRecords
    <2> HIDE DEF new
    <2>3. new.left <= MaxStanding
      BY <1>2, <2>2 DEF CallShape
    <2> QED
      BY <1>1, <1>4, <2>1, <2>2, <2>3, CallAnswered
  <1>5. CASE Denied(c)
    <2>1. PICK ans \in {"expired", "limited", "lost", "refused"} :
            (ans = "expired" => call[c].tok \notin honoured) /\ Answer(c, ans)
      BY <1>5 DEF Denied
    <2>2. standing' \in 0..MaxStanding /\ ans \in Answers
      BY <1>3, <1>5 DEF Denied, Answers
    <2> QED
      BY <1>4, <2>1, <2>2
  <1>6. CASE ServedRead(c)
    BY <1>3, <1>4, <1>6 DEF ServedRead, Answers
  <1>7. CASE ServedPending(c)
    <2> DEFINE new == [call[c] EXCEPT !.at = "told", !.ans = "ok", !.left = standing]
    <2>1. call' = [call EXCEPT ![c] = new] /\ call[c].job = "pending" /\ UNCHANGED standing
      BY <1>7 DEF ServedPending, CallsInv
    <2>2. /\ new \in CallRecords /\ new.at = "told" /\ new.ans = "ok"
          /\ new.job = call[c].job /\ new.tok = call[c].tok /\ new.heard = call[c].heard
          /\ new.tries = call[c].tries /\ new.died = call[c].died
          /\ new.left = standing /\ new.taken = call[c].taken
      <3>1. "ok" \in Answers /\ standing \in Nat
        BY <1>3 DEF Answers
      <3> QED
        BY <1>2, <3>1 DEF CallRecords
    <2> HIDE DEF new
    <2>3. new.left <= MaxStanding /\ standing' \in 0..MaxStanding
      BY <1>3, <2>1, <2>2
    <2> QED
      BY <1>1, <2>1, <2>2, <2>3, CallAnswered
  <1>8. CASE ServedCancel(c)
    <2>1. standing' \in 0..MaxStanding
      BY <1>3, <1>8 DEF ServedCancel
    <2> QED
      BY <1>4, <1>8, <2>1 DEF ServedCancel, Answers
  <1>9. CASE ServedOrder(c)
    <2>1. PICK ans \in {"ok", "lost"} :
            call' = [call EXCEPT ![c].at = "told", ![c].ans = ans, ![c].taken = @ + 1]
      BY <1>9 DEF ServedOrder
    <2> DEFINE new == [call[c] EXCEPT !.at = "told", !.ans = ans, !.taken = @ + 1]
    <2>2. call' = [call EXCEPT ![c] = new] /\ call[c].job = "order" /\ standing' = 1
      BY <1>9, <2>1 DEF ServedOrder, CallsInv
    <2>3. /\ new \in CallRecords /\ new.at = "told" /\ new.ans = ans
          /\ new.job = call[c].job /\ new.tok = call[c].tok /\ new.heard = call[c].heard
          /\ new.tries = call[c].tries /\ new.died = call[c].died
          /\ new.left = call[c].left /\ new.taken = call[c].taken + 1
      <3>1. ans \in Answers /\ call[c].taken + 1 \in Nat
        BY <1>2 DEF Answers, CallRecords
      <3> QED
        BY <1>2, <3>1 DEF CallRecords
    <2> HIDE DEF new
    <2>4. new.left <= MaxStanding
      BY <1>2, <2>3 DEF CallShape
    <2>5. standing' \in 0..MaxStanding
      BY <1>3, <2>2
    <2> QED
      BY <1>1, <2>2, <2>3, <2>4, <2>5, CallAnswered
  <1> QED
    BY <1>5, <1>6, <1>7, <1>8, <1>9 DEF Serve

LEMMA ReissueKeeps ==
  ASSUME CallsInv, NEW c \in Callers, Reissue(c) PROVE CallsInv'
  <1> DEFINE r == [call[c] EXCEPT !.heard = TRUE]
  <1>1. /\ call[c].at = "told" /\ call[c].ans = "expired" /\ ~call[c].heard
        /\ WithToken(c, r, TRUE) /\ UNCHANGED standing
    BY DEF Reissue, Reissues
  <1>2. call[c] \in CallRecords /\ CallShape(c)
    BY CallRecord
  <1>3. /\ r \in CallRecords /\ r.job = call[c].job /\ r.left = call[c].left
        /\ r.taken = call[c].taken
    BY <1>2 DEF CallRecords
  <1> HIDE DEF r
  <1>4. /\ r.job # "none" /\ (c \in Readers => r.job = "read") /\ r.left <= MaxStanding
        /\ (r.job = "cancel" => r.left > 0) /\ r.taken = 0
    BY <1>1, <1>2, <1>3 DEF CallShape
  <1> QED
    BY <1>1, <1>3, <1>4, RequestBegins

LEMMA RepeatKeeps ==
  ASSUME CallsInv, NEW c \in Callers, Repeat(c) PROVE CallsInv'
  <1> DEFINE new == [call[c] EXCEPT !.at = "ask", !.heard = TRUE, !.tries = @ + 1, !.ans = "none"]
  <1>1. /\ call[c].at = "told" /\ call[c].ans = "limited" /\ call[c].tries < RateRetries
        /\ UNCHANGED <<kisVars, standing, memTok, diskTok>>
    BY DEF Repeat, Repeats
  <1>2. call[c] \in CallRecords /\ CallShape(c)
    BY CallRecord
  <1>3. call' = [call EXCEPT ![c] = new]
    BY DEF Repeat, CallsInv
  <1>4. call[c].tries + 1 \in 0..RateRetries /\ "none" \in Answers
    BY <1>1, <1>2, CallAssumption DEF CallRecords, Answers
  <1>5. /\ new \in CallRecords /\ new.at = "ask" /\ new.tok = call[c].tok
        /\ new.job = call[c].job /\ new.left = call[c].left /\ new.taken = call[c].taken
        /\ new.tries = call[c].tries + 1
    BY <1>2, <1>4 DEF CallRecords
  <1> HIDE DEF new
  <1>6. call'[c] = new /\ call[c].tries \in Nat
    BY <1>2, <1>3 DEF CallsInv, CallRecords
  <1>7. CallShape(c)'
    BY <1>1, <1>2, <1>5, <1>6 DEF CallShape, kisVars
  <1>8. RepairSpent(c)'
    BY <1>5, <1>6 DEF RepairSpent
  <1> QED
    BY <1>1, <1>3, <1>5, <1>7, <1>8, OneCallStep DEF CallsInv

\* A request is done with: the next one of a sell, or none.
LEMMA DoneKeeps ==
  ASSUME CallsInv, NEW c \in Callers, NEW ans \in Answers, call[c].at \in {"issue", "told"},
         NEW r \in {call[c], [call[c] EXCEPT !.ans = ans]}, Done(c, r), UNCHANGED standing
  PROVE  CallsInv'
  <1>1. call[c] \in CallRecords /\ CallShape(c)
    BY CallRecord
  <1>2. /\ r \in CallRecords /\ r.job = call[c].job /\ r.left = call[c].left
        /\ r.taken = call[c].taken
    BY <1>1 DEF CallRecords
  <1>3. CASE call' = [call EXCEPT ![c] = Idle] /\ UNCHANGED <<kisVars, memTok, diskTok>>
    <2>1. call'[c] = Idle /\ granted' \in Nat /\ MaxStanding \in Nat
      BY <1>3, CallAssumption DEF CallsInv, kisVars
    <2>2. CallShape(c)' /\ RepairSpent(c)'
      BY <2>1 DEF CallShape, RepairSpent, Idle
    <2> QED
      BY <1>3, <2>2, IdleRecord, OneCallStep DEF CallsInv
  <1>4. ASSUME r.job \in {"pending", "cancel"},
               WithToken(c, [Asking(r, IF LeftOf(r) > 0 THEN "cancel" ELSE "order")
                               EXCEPT !.left = LeftOf(r), !.looked = @ /\ r.ans = "ok"], FALSE)
        PROVE  CallsInv'
    <2> DEFINE job == IF LeftOf(r) > 0 THEN "cancel" ELSE "order"
    <2> DEFINE asked == Asking(r, job)
    <2> DEFINE lk == asked.looked /\ r.ans = "ok"
    <2> DEFINE next == [asked EXCEPT !.left = LeftOf(r), !.looked = lk]
    <2>1. job \in Jobs /\ job \in {"cancel", "order"}
      BY DEF Jobs
    <2>2. /\ asked \in CallRecords /\ asked.job = job /\ asked.heard = FALSE
          /\ asked.taken = r.taken
      BY <1>2, <2>1, AskedRecord
    <2>3. LeftOf(r) \in Nat /\ LeftOf(r) <= MaxStanding /\ (job = "cancel" => LeftOf(r) > 0)
      BY <1>1, <1>2, CallAssumption DEF LeftOf, CallShape, CallRecords
    <2>4. WithToken(c, next, FALSE)
      BY <1>4
    <2>5. r.taken = 0 /\ r.job # "read" /\ c \notin Readers
      BY <1>1, <1>2, <1>4 DEF CallShape
    <2> HIDE DEF asked, job
    <2>6. lk \in BOOLEAN
      OBVIOUS
    <2> HIDE DEF lk
    <2>7. /\ next \in CallRecords /\ next.job = job /\ next.heard = FALSE
          /\ next.taken = 0 /\ next.left = LeftOf(r)
      BY <2>2, <2>3, <2>5, <2>6 DEF CallRecords
    <2> HIDE DEF next
    <2> QED
      BY <2>1, <2>3, <2>4, <2>5, <2>7, RequestBegins
  <1> QED
    BY <1>3, <1>4 DEF Done

LEMMA HeardKeeps ==
  ASSUME CallsInv, NEW c \in Callers, Heard(c) PROVE CallsInv'
  BY DoneKeeps DEF Heard, Answers

LEMMA RefusalKeeps ==
  ASSUME CallsInv, NEW c \in Callers, TokenRefused(c) PROVE CallsInv'
  <1>1. call[c].at = "issue" /\ UNCHANGED standing
    BY DEF TokenRefused
  <1>2. CASE \E ans \in Answers : Done(c, [call[c] EXCEPT !.ans = ans])
    BY <1>1, <1>2, DoneKeeps
  <1>3. CASE /\ ~call[c].force /\ memTok' = diskTok
             /\ call' = [call EXCEPT ![c].at = "ask", ![c].tok = diskTok]
             /\ UNCHANGED <<kisVars, diskTok>>
    <2> DEFINE new == [call[c] EXCEPT !.at = "ask", !.tok = diskTok]
    <2>1. call[c] \in CallRecords /\ CallShape(c) /\ RepairSpent(c)
      BY CallRecord
    <2>2. call' = [call EXCEPT ![c] = new]
      BY <1>3 DEF CallsInv
    <2>3. diskTok \in 0..granted /\ diskTok \in Nat /\ diskTok <= granted
      BY DEF CallsInv
    <2>4. /\ new \in CallRecords /\ new.at = "ask" /\ new.tok = diskTok
          /\ new.job = call[c].job /\ new.left = call[c].left /\ new.taken = call[c].taken
          /\ new.heard = call[c].heard
      BY <2>1, <2>3 DEF CallRecords
    <2> HIDE DEF new
    <2>5. call'[c] = new
      BY <2>2 DEF CallsInv
    <2>6. ~call[c].heard
      BY <1>1, <1>3, <2>1 DEF RepairSpent
    <2>7. CallShape(c)' /\ RepairSpent(c)'
      BY <1>1, <1>3, <2>1, <2>3, <2>4, <2>5, <2>6 DEF CallShape, RepairSpent, kisVars
    <2> QED
      BY <1>1, <1>3, <2>2, <2>3, <2>4, <2>7, OneCallStep DEF CallsInv
  <1> QED
    BY <1>2, <1>3 DEF TokenRefused, Answers

LEMMA CallsStep == CallsInv /\ [Next]_vars => CallsInv'
  <1> SUFFICES ASSUME CallsInv, [Next]_vars PROVE CallsInv'
    OBVIOUS
  <1>1. CASE UNCHANGED vars
    BY <1>1 DEF vars, CallsInv, CallShape, RepairSpent
  <1>2. ASSUME NEW c \in Callers, Step(c) PROVE CallsInv'
    BY <1>2, GrantKeeps, ArrivalKeeps, RefusalKeeps, ServeKeeps, ReissueKeeps, RepeatKeeps,
       HeardKeeps DEF Step
  <1> QED
    BY <1>1, <1>2, BeginKeeps, WorldKeeps DEF Next

----------------------------------------------------------------------------
(* The calls: the theorems.                                                *)

THEOREM CallsInvariance == Spec => []CallsInv
  BY CallsInit, CallsStep, PTL DEF Spec

\* TypeOK holds of every run: what a call remembers stays within its bounds.
THEOREM CallTypes == Spec => []TypeOK
  <1>1. CallsInv => TypeOK
    <2> SUFFICES ASSUME CallsInv PROVE TypeOK
      OBVIOUS
    <2>1. ASSUME NEW c \in Callers
          PROVE  /\ call[c].job \in Jobs \cup {"none"} /\ call[c].ans \in Answers
                 /\ call[c].at \in {"idle", "issue", "granted", "ask", "told"}
                 /\ call[c].tok \in 0..granted /\ call[c].tries \in 0..RateRetries
                 /\ call[c].left \in 0..MaxStanding /\ call[c].taken \in Nat
      <3>1. call[c] \in CallRecords /\ CallShape(c)
        BY CallRecord
      <3>2. granted \in Nat /\ MaxStanding \in Nat
        BY CallAssumption DEF CallsInv
      <3> QED
        BY <3>1, <3>2 DEF CallRecords, CallShape
    <2> QED
      BY <2>1 DEF CallsInv, TypeOK
  <1> QED
    BY <1>1, CallsInvariance, PTL

\* OneOrderPerSell holds of every run: what _authed_json sends again, KIS has
\* said it did not take, for an expired token as for the rate limit.
THEOREM SellOrdersOnce == Spec => []OneOrderPerSell
  <1>1. CallsInv => OneOrderPerSell
    BY DEF CallsInv, CallShape, OneOrderPerSell
  <1> QED
    BY <1>1, CallsInvariance, PTL

\* DeadTokenIsHealed holds of every step: who hears a refused token as his
\* first answer has it reissued, and the reissued token is honoured.
THEOREM DeadTokensAreHealed == Spec => DeadTokenIsHealed
  <1>1. CallsInv /\ [Next]_vars => [\A c \in Callers : EndsRefused(c) => ~Heard(c)]_vars
    <2> SUFFICES ASSUME CallsInv, NEW c \in Callers, EndsRefused(c), Heard(c) PROVE FALSE
      OBVIOUS
    <2>1. call[c].heard
      BY DEF EndsRefused, Heard, Reissues
    <2> QED
      BY <2>1 DEF EndsRefused, CallsInv, RepairSpent
  <1> QED
    BY <1>1, CallsInvariance, PTL DEF Spec, DeadTokenIsHealed

----------------------------------------------------------------------------
(* A lone seller.                                                          *)

\* While all of a sell's answers came through, no more sells of the ticker
\* stand than it has yet to cancel, and none when it comes to its order.
StandingKnown(c) ==
  LET r == call[c]
  IN r.looked =>
       /\ r.job = "pending" /\ r.at = "told" /\ r.ans = "ok" => standing <= r.left
       /\ r.job = "cancel" =>
            standing <= (IF r.at = "told" /\ r.ans = "ok" THEN r.left - 1 ELSE r.left)
       /\ r.job = "order" /\ r.taken = 0 => standing = 0

LoneInv == \A s \in Sellers : StandingKnown(s)

LEMMA StandingFrame ==
  ASSUME CallsInv, CallsInv', LoneInv, NEW s \in Sellers, standing' <= standing,
         call'[s].looked => call[s].looked, call'[s].job = call[s].job,
         call'[s].left = call[s].left, call'[s].taken = call[s].taken,
         ~(call'[s].at = "told" /\ call'[s].ans = "ok")
  PROVE  StandingKnown(s)'
  <1>1. standing \in Nat /\ standing' \in Nat
    BY DEF CallsInv
  <1>2. call[s] \in CallRecords
    BY CallRecord DEF Callers
  <1>3. call[s].left \in Nat
    BY <1>2 DEF CallRecords
  <1> QED
    BY <1>1, <1>3 DEF LoneInv, StandingKnown

\* What KIS answers a seller: the standing sells it names, or one less.
LEMMA StandingServed ==
  ASSUME CallsInv, CallsInv', LoneInv, NEW s \in Sellers, Serve(s) PROVE StandingKnown(s)'
  <1>1. call[s] \in CallRecords /\ CallShape(s) /\ call[s].at = "ask" /\ s \notin Readers
    BY CallRecord, CallAssumption DEF Callers, Serve
  <1>2. standing \in Nat /\ standing' \in Nat /\ call[s].left \in Nat
    BY <1>1 DEF CallsInv, CallRecords
  <1>3. ASSUME NEW ans, Answer(s, ans)
        PROVE  /\ call'[s].looked = call[s].looked /\ call'[s].job = call[s].job
               /\ call'[s].left = call[s].left /\ call'[s].taken = call[s].taken
               /\ call'[s].at = "told" /\ call'[s].ans = ans
    <2>1. call'[s] = [call[s] EXCEPT !.at = "told", !.ans = ans]
      BY <1>3 DEF Answer, CallsInv, Callers
    <2> QED
      BY <1>1, <2>1 DEF CallRecords
  <1>4. CASE Denied(s)
    <2>1. PICK ans \in {"expired", "limited", "lost", "refused"} : Answer(s, ans)
      BY <1>4 DEF Denied
    <2>2. standing' <= standing
      BY <1>2, <1>4 DEF Denied
    <2> QED
      BY <1>3, <2>1, <2>2, StandingFrame
  <1>5. CASE ServedPending(s)
    <2>1. call'[s] = [call[s] EXCEPT !.at = "told", !.ans = "ok", !.left = standing]
          /\ call[s].job = "pending" /\ standing' = standing
      BY <1>5 DEF ServedPending, CallsInv, Callers
    <2>2. call'[s].job = "pending" /\ call'[s].left = standing
      BY <1>1, <2>1 DEF CallRecords
    <2> QED
      BY <1>2, <2>1, <2>2 DEF StandingKnown
  <1>6. CASE ServedCancel(s)
    <2>1. PICK ans \in {"ok", "lost"} : Answer(s, ans)
      BY <1>6 DEF ServedCancel
    <2>2. call[s].job = "cancel" /\ standing > 0 /\ standing' = standing - 1
      BY <1>6 DEF ServedCancel
    <2>3. call[s].looked => standing <= call[s].left
      BY <1>1, <2>2 DEF LoneInv, StandingKnown
    <2>4. /\ call'[s].looked = call[s].looked /\ call'[s].job = "cancel"
          /\ call'[s].left = call[s].left /\ call'[s].ans = ans
      BY <1>3, <2>1, <2>2
    <2>5. call'[s].looked => standing' <= call'[s].left - 1
      BY <1>2, <2>2, <2>3, <2>4
    <2> QED
      BY <1>2, <2>4, <2>5 DEF StandingKnown
  <1>7. CASE ServedOrder(s)
    <2>1. PICK ans \in {"ok", "lost"} :
            call' = [call EXCEPT ![s].at = "told", ![s].ans = ans, ![s].taken = @ + 1]
      BY <1>7 DEF ServedOrder
    <2>2. call'[s] = [call[s] EXCEPT !.at = "told", !.ans = ans, !.taken = @ + 1]
      BY <2>1 DEF CallsInv, Callers
    <2>3. /\ call'[s].taken = call[s].taken + 1 /\ call[s].taken \in Nat
          /\ call'[s].job = call[s].job
      BY <1>1, <2>2 DEF CallRecords
    <2>4. call[s].job = "order"
      BY <1>7 DEF ServedOrder
    <2> QED
      BY <2>3, <2>4 DEF StandingKnown
  <1>8. CASE ServedRead(s)
    BY <1>3, <1>8 DEF ServedRead, StandingKnown
  <1> QED
    BY <1>4, <1>5, <1>6, <1>7, <1>8 DEF Serve

\* The next request of a sell knows as much as the answers before it told.
LEMMA StandingDone ==
  ASSUME CallsInv, CallsInv', LoneInv, NEW s \in Sellers, NEW ans \in Answers \ {"ok"},
         NEW r \in {call[s], [call[s] EXCEPT !.ans = ans]},
         r.ans = "ok" => r = call[s] /\ call[s].at = "told", Done(s, r), UNCHANGED standing
  PROVE  StandingKnown(s)'
  <1>1. call[s] \in CallRecords /\ CallShape(s) /\ StandingKnown(s)
    BY CallRecord DEF Callers, LoneInv
  <1>2. standing \in Nat /\ call[s].left \in Nat
    BY <1>1 DEF CallsInv, CallRecords
  <1>3. /\ r \in CallRecords /\ r.job = call[s].job /\ r.left = call[s].left
        /\ r.looked = call[s].looked /\ r.taken = call[s].taken
    BY <1>1 DEF CallRecords
  <1>4. CASE call' = [call EXCEPT ![s] = Idle]
    <2>1. call'[s] = Idle
      BY <1>4 DEF CallsInv, Callers
    <2> QED
      BY <2>1 DEF StandingKnown, Idle
  <1>5. ASSUME r.job \in {"pending", "cancel"},
               WithToken(s, [Asking(r, IF LeftOf(r) > 0 THEN "cancel" ELSE "order")
                               EXCEPT !.left = LeftOf(r), !.looked = @ /\ r.ans = "ok"], FALSE)
        PROVE  StandingKnown(s)'
    <2> DEFINE job == IF LeftOf(r) > 0 THEN "cancel" ELSE "order"
    <2> DEFINE asked == Asking(r, job)
    <2> DEFINE lk == asked.looked /\ r.ans = "ok"
    <2> DEFINE next == [asked EXCEPT !.left = LeftOf(r), !.looked = lk]
    <2> DEFINE t == AtHand(FALSE)
    <2> DEFINE new == [next EXCEPT !.force = FALSE, !.tok = t, !.ans = "none", !.died = FALSE,
                                   !.at = IF t = 0 THEN "issue" ELSE "ask"]
    <2>1. job \in Jobs /\ (job = "cancel" \/ (job = "order" /\ ~(LeftOf(r) > 0)))
      BY DEF Jobs
    <2>2. /\ asked \in CallRecords /\ asked.job = job /\ asked.looked = r.looked
          /\ asked.taken = r.taken
      BY <1>3, <2>1, AskedRecord
    <2>3. call' = [call EXCEPT ![s] = new]
      BY <1>5 DEF WithToken
    <2>4. call'[s] = new
      BY <2>3 DEF CallsInv, Callers
    <2> HIDE DEF asked, job, t
    <2>5. /\ new.job = job /\ new.left = LeftOf(r) /\ new.looked = lk
          /\ new.at = (IF t = 0 THEN "issue" ELSE "ask")
      BY <2>2 DEF CallRecords
    <2>6. lk => r.looked /\ r.ans = "ok"
      BY <2>2
    <2> HIDE DEF new, lk
    <2>7. lk => standing <= LeftOf(r) /\ LeftOf(r) \in Nat
      <3> SUFFICES ASSUME lk PROVE standing <= LeftOf(r) /\ LeftOf(r) \in Nat
        OBVIOUS
      <3>1. r.ans = "ok" /\ r = call[s] /\ call[s].looked /\ call[s].at = "told"
        BY <1>3, <2>6
      <3>2. CASE call[s].job = "pending"
        BY <1>1, <1>2, <3>1, <3>2 DEF StandingKnown, LeftOf
      <3>3. CASE call[s].job = "cancel"
        BY <1>1, <1>2, <3>1, <3>3 DEF StandingKnown, LeftOf, CallShape
      <3> QED
        BY <1>3, <1>5, <3>2, <3>3
    <2>8. new.at # "told"
      BY <2>5
    <2>9. standing' = standing /\ (job = "order" /\ lk => standing = 0)
      BY <1>2, <2>1, <2>7
    <2> QED
      BY <1>2, <2>1, <2>4, <2>5, <2>7, <2>8, <2>9 DEF StandingKnown
  <1> QED
    BY <1>4, <1>5 DEF Done

\* The steps of the lone seller.
LEMMA SellerStep ==
  ASSUME CallsInv, CallsInv', LoneInv, NEW s \in Sellers, Sell(s) \/ Step(s)
  PROVE  StandingKnown(s)'
  <1>1. call[s] \in CallRecords /\ s \in Callers
    BY CallRecord DEF Callers
  <1>2. standing \in Nat
    BY DEF CallsInv
  <1>3. CASE Sell(s)
    <2> DEFINE r == Asking(Idle, "pending")
    <2> DEFINE t == AtHand(FALSE)
    <2> DEFINE new == [r EXCEPT !.force = FALSE, !.tok = t, !.ans = "none", !.died = FALSE,
                                !.at = IF t = 0 THEN "issue" ELSE "ask"]
    <2>1. r \in CallRecords /\ r.job = "pending"
      BY IdleRecord, AskedRecord DEF Jobs
    <2>2. call'[s] = new
      BY <1>1, <1>3 DEF Sell, WithToken, CallsInv
    <2> HIDE DEF r, t
    <2>3. new.job = "pending" /\ new.at # "told"
      BY <2>1 DEF CallRecords
    <2> QED
      BY <2>2, <2>3 DEF StandingKnown
  <1>4. CASE Granted(s) \/ TokenArrives(s)
    <2>1. \/ call'[s] = [call[s] EXCEPT !.at = "granted", !.tok = granted']
          \/ call'[s] = [call[s] EXCEPT !.at = "ask"]
      BY <1>1, <1>4 DEF Granted, TokenArrives, CallsInv
    <2>2. standing' = standing
      BY <1>4 DEF Granted, TokenArrives
    <2>3. /\ call'[s].looked = call[s].looked /\ call'[s].job = call[s].job
          /\ call'[s].left = call[s].left /\ call'[s].taken = call[s].taken
          /\ call'[s].at # "told"
      BY <1>1, <2>1 DEF CallRecords
    <2> QED
      BY <1>2, <2>2, <2>3, StandingFrame
  <1>5. CASE Serve(s)
    BY <1>5, StandingServed
  <1>6. CASE Reissue(s)
    <2> DEFINE r == [call[s] EXCEPT !.heard = TRUE]
    <2> DEFINE t == AtHand(TRUE)
    <2> DEFINE new == [r EXCEPT !.force = TRUE, !.tok = t, !.ans = "none", !.died = FALSE,
                                !.at = IF t = 0 THEN "issue" ELSE "ask"]
    <2>1. call'[s] = new /\ standing' = standing
      BY <1>1, <1>6 DEF Reissue, WithToken, CallsInv
    <2>2. /\ r \in CallRecords /\ r.looked = call[s].looked /\ r.job = call[s].job
          /\ r.left = call[s].left /\ r.taken = call[s].taken
      BY <1>1 DEF CallRecords
    <2> HIDE DEF r, t
    <2>3. /\ new.looked = r.looked /\ new.job = r.job /\ new.left = r.left
          /\ new.taken = r.taken /\ new.at # "told"
      BY <2>2 DEF CallRecords
    <2>4. /\ call'[s].looked = call[s].looked /\ call'[s].job = call[s].job
          /\ call'[s].left = call[s].left /\ call'[s].taken = call[s].taken
          /\ call'[s].at # "told" /\ standing' <= standing
      BY <1>2, <2>1, <2>2, <2>3
    <2> QED
      BY <2>4, StandingFrame
  <1>7. CASE Repeat(s)
    <2>1. call'[s] = [call[s] EXCEPT !.at = "ask", !.heard = TRUE, !.tries = @ + 1, !.ans = "none"]
          /\ standing' = standing
      BY <1>1, <1>7 DEF Repeat, CallsInv
    <2>2. /\ call'[s].looked = call[s].looked /\ call'[s].job = call[s].job
          /\ call'[s].left = call[s].left /\ call'[s].taken = call[s].taken
          /\ call'[s].at # "told"
      BY <1>1, <2>1 DEF CallRecords
    <2>3. standing' <= standing
      BY <1>2, <2>1
    <2> QED
      BY <2>2, <2>3, StandingFrame
  <1>8. CASE Heard(s)
    <2>1. call[s].at = "told" /\ Done(s, call[s]) /\ UNCHANGED standing
      BY <1>8 DEF Heard
    <2>2. "lost" \in Answers \ {"ok"}
      BY DEF Answers
    <2> DEFINE r == call[s]
    <2>3. r \in {call[s], [call[s] EXCEPT !.ans = "lost"]} /\ Done(s, r)
          /\ (r.ans = "ok" => r = call[s] /\ call[s].at = "told")
      BY <2>1
    <2> HIDE DEF r
    <2> QED
      BY <2>1, <2>2, <2>3, StandingDone
  <1>9. CASE TokenRefused(s)
    <2>1. call[s].at = "issue" /\ UNCHANGED standing
      BY <1>9 DEF TokenRefused
    <2>2. ASSUME NEW ans \in {"expired", "lost"}, Done(s, [call[s] EXCEPT !.ans = ans])
          PROVE  StandingKnown(s)'
      <3>1. ans \in Answers \ {"ok"}
        BY DEF Answers
      <3> DEFINE r == [call[s] EXCEPT !.ans = ans]
      <3>2. r \in {call[s], [call[s] EXCEPT !.ans = ans]} /\ Done(s, r)
        BY <2>2
      <3>3. r.ans # "ok"
        BY <1>1, <3>1 DEF CallRecords
      <3> HIDE DEF r
      <3> QED
        BY <2>1, <3>1, <3>2, <3>3, StandingDone
    <2>3. CASE call' = [call EXCEPT ![s].at = "ask", ![s].tok = diskTok]
      <3>1. call'[s] = [call[s] EXCEPT !.at = "ask", !.tok = diskTok]
        BY <1>1, <2>3 DEF CallsInv
      <3>2. /\ call'[s].looked = call[s].looked /\ call'[s].job = call[s].job
            /\ call'[s].left = call[s].left /\ call'[s].taken = call[s].taken
            /\ call'[s].at # "told"
        BY <1>1, <3>1 DEF CallRecords
      <3> QED
        BY <1>2, <2>1, <3>2, StandingFrame
    <2>4. CASE call[s].force
      BY <1>9, <2>2, <2>4 DEF TokenRefused
    <2>5. CASE ~call[s].force /\ diskTok # 0 /\ age[diskTok] # "past"
      BY <1>9, <2>3, <2>5 DEF TokenRefused
    <2>6. CASE ~call[s].force /\ ~(diskTok # 0 /\ age[diskTok] # "past")
      BY <1>9, <2>2, <2>6 DEF TokenRefused
    <2> QED
      BY <2>4, <2>5, <2>6
  <1> QED
    BY <1>3, <1>4, <1>5, <1>6, <1>7, <1>8, <1>9 DEF Step

\* What others do leaves the sells as they are, but for those that settle.
LEMMA WorldStanding ==
  ASSUME CallsInv, CallsInv', LoneInv, TokenAges \/ TokenDropped \/ SellSettles \/ Restart
  PROVE  LoneInv'
  <1>1. standing \in Nat /\ standing' \in Nat
    BY DEF CallsInv
  <1>2. \A s \in Sellers : call[s] \in CallRecords /\ call[s].left \in Nat
    BY CallRecord DEF Callers, CallRecords
  <1>3. CASE TokenAges
    BY <1>3 DEF TokenAges, LoneInv, StandingKnown
  <1>4. CASE TokenDropped
    <2>1. PICK t \in honoured :
            call' = [c \in Callers |-> IF call[c].tok = t THEN [call[c] EXCEPT !.died = TRUE]
                                      ELSE call[c]]
      BY <1>4 DEF TokenDropped
    <2>2. standing' = standing
      BY <1>4 DEF TokenDropped
    <2>3. ASSUME NEW s \in Sellers PROVE StandingKnown(s)'
      <3>1. call'[s] = call[s] \/ call'[s] = [call[s] EXCEPT !.died = TRUE]
        BY <2>1 DEF Callers
      <3>2. /\ call'[s].looked = call[s].looked /\ call'[s].job = call[s].job
            /\ call'[s].left = call[s].left /\ call'[s].taken = call[s].taken
            /\ call'[s].at = call[s].at /\ call'[s].ans = call[s].ans
        BY <1>2, <3>1 DEF CallRecords
      <3> QED
        BY <2>2, <3>2 DEF LoneInv, StandingKnown
    <2> QED
      BY <2>3 DEF LoneInv
  <1>5. CASE SellSettles
    <2>1. call' = call /\ standing' = standing - 1
      BY <1>5 DEF SellSettles
    <2>2. ASSUME NEW s \in Sellers PROVE StandingKnown(s)'
      <3>1. standing' >= 0 /\ standing' <= standing
        BY <1>1, <2>1
      <3> QED
        BY <1>1, <1>2, <2>1, <3>1 DEF LoneInv, StandingKnown
    <2> QED
      BY <2>2 DEF LoneInv
  <1>6. CASE Restart
    <2>1. \A s \in Sellers : call'[s] = Idle
      BY <1>6 DEF Restart, Callers
    <2> QED
      BY <2>1 DEF LoneInv, StandingKnown, Idle
  <1> QED
    BY <1>3, <1>4, <1>5, <1>6

\* A reader's step is not one of a sell.
LEMMA ReaderStanding ==
  ASSUME CallsInv, LoneInv, NEW c \in Readers, Read(c) \/ Step(c) PROVE LoneInv'
  <1>1. CallShape(c) /\ c \notin Sellers
    BY CallRecord, CallAssumption DEF Callers
  <1>2. call[c].job \notin {"pending", "cancel", "order"}
    BY <1>1 DEF CallShape
  <1>3. standing' = standing
    BY <1>2 DEF Read, Step, Granted, TokenArrives, TokenRefused, Serve, Denied, ServedRead,
                ServedPending, ServedCancel, ServedOrder, Reissue, Repeat, Heard
  <1>4. ASSUME NEW s \in Sellers PROVE call'[s] = call[s]
    <2>1. s # c /\ s \in Callers /\ call \in [Callers -> CallRecords]
      BY <1>1 DEF Callers, CallsInv
    <2>2. CASE Read(c)
      BY <2>1, <2>2 DEF Read, WithToken
    <2>3. CASE Granted(c) \/ TokenArrives(c) \/ Reissue(c) \/ Repeat(c)
      BY <2>1, <2>3 DEF Granted, TokenArrives, Reissue, Repeat, WithToken
    <2>4. CASE Serve(c)
      BY <2>1, <2>4 DEF Serve, Denied, Answer, ServedRead, ServedPending, ServedCancel, ServedOrder
    <2>5. CASE Heard(c)
      BY <2>1, <2>5 DEF Heard, Done, WithToken
    <2>6. CASE TokenRefused(c)
      BY <2>1, <2>6 DEF TokenRefused, Done, WithToken
    <2> QED
      BY <2>2, <2>3, <2>4, <2>5, <2>6 DEF Step
  <1> QED
    BY <1>3, <1>4 DEF LoneInv, StandingKnown

LEMMA LoneStep ==
  ASSUME \A s, t \in Sellers : s = t, CallsInv, CallsInv', LoneInv, [Next]_vars PROVE LoneInv'
  <1>1. ASSUME NEW s \in Sellers, Sell(s) \/ Step(s) PROVE LoneInv'
    BY <1>1, SellerStep DEF LoneInv
  <1>2. CASE UNCHANGED vars
    BY <1>2 DEF vars, LoneInv, StandingKnown
  <1> QED
    BY <1>1, <1>2, WorldStanding, ReaderStanding DEF Next, Callers

\* SellIsNotBlocked holds of every run in which one coroutine sells: its order
\* meets no standing sell when its lookup and its cancellations came through.
THEOREM LoneSellIsNotBlocked ==
  ASSUME \A s, t \in Sellers : s = t PROVE Spec => []SellIsNotBlocked
  <1>1. Init => LoneInv
    BY DEF Init, LoneInv, StandingKnown, Idle, Callers
  <1>2. CallsInv /\ CallsInv' /\ LoneInv /\ [Next]_vars => LoneInv'
    BY LoneStep
  <1>3. LoneInv => SellIsNotBlocked
    BY DEF LoneInv, StandingKnown, SellIsNotBlocked
  <1> QED
    BY <1>1, <1>2, <1>3, CallsInvariance, PTL DEF Spec

----------------------------------------------------------------------------
(* The account's reads: the invariant.                                     *)

Places == {"idle", "asked", "told", "listing", "valuing", "valued", "weighed"}

ReadRecords ==
  [at : Places, cached : Snapshots \cup {NoSnap}, ok : BOOLEAN,
   rows : SUBSET Stocks, values : SUBSET Stocks, snap : Snapshots \cup {NoSnap},
   listed : BOOLEAN, value : {"none", "some", "odd", "nothing", "failed"},
   counted : BOOLEAN, flat : BOOLEAN, sure : BOOLEAN]

ReadsTypes ==
  /\ held \in SUBSET Stocks /\ us \in BOOLEAN /\ trades \in 0..MaxTrades
  /\ snap \in Snapshots \cup {NoSnap} /\ fresh \in BOOLEAN
  /\ disk \in SUBSET Stocks /\ diskOld \in BOOLEAN
  /\ ov \in BOOLEAN /\ ovOld \in BOOLEAN
  /\ curve \in [us : BOOLEAN, sure : BOOLEAN] \cup {NoPoint}
  /\ clean \in BOOLEAN /\ known \in BOOLEAN /\ usKnown \in BOOLEAN
  /\ reader \in [Coroutines -> ReadRecords]

\* What the caches hold while the account is known to be empty, to hold a stock
\* that matters, to hold US ones.
CachesFit ==
  /\ clean => held = {} /\ disk = {} /\ (snap # NoSnap => snap.list = {})
  /\ known => Large(held) /\ disk # {} /\ (~diskOld /\ snap # NoSnap => snap.list # {})
  /\ usKnown => us /\ ov /\ ~ovOld
  /\ curve # NoPoint /\ curve.sure => curve.us

\* What a read under way may bring back: nothing of a stock the account no longer
\* holds, no good and empty list of one that it does.
ReadFits(q) ==
  LET x == reader[q]
  IN /\ x.at = "idle" => x.cached = NoSnap /\ x.rows = {} /\ ~x.ok
     /\ x.at \in {"listing", "valuing", "valued", "weighed"} => x.snap \in Snapshots
     /\ x.flat => held = {}
     /\ x.at = "told" /\ x.flat => x.rows = {} /\ x.values = {}
     /\ clean => x.rows = {} /\ (x.cached # NoSnap => x.cached.list = {})
     /\ known => (x.rows = {} => ~x.ok \/ Large(x.values))
     /\ x.sure => usKnown
     /\ x.at = "weighed" /\ x.sure => x.counted

ReadsInv == ReadsTypes /\ CachesFit /\ \A q \in Coroutines : ReadFits(q)

LEMMA IdleRead == NoRead \in ReadRecords
  BY DEF NoRead, ReadRecords, Places

LEMMA ReadsStart == ReadsInit => ReadsInv
  <1> SUFFICES ASSUME ReadsInit PROVE ReadsInv
    OBVIOUS
  <1>1. ReadsTypes
    <2>1. reader \in [Coroutines -> ReadRecords]
      BY IdleRead DEF ReadsInit
    <2>2. trades \in 0..MaxTrades
      BY ReadAssumption DEF ReadsInit
    <2> QED
      BY <2>1, <2>2 DEF ReadsInit, ReadsTypes
  <1>2. CachesFit
    BY DEF ReadsInit, CachesFit
  <1>3. \A q \in Coroutines : ReadFits(q)
    BY DEF ReadsInit, ReadFits, NoRead
  <1> QED
    BY <1>1, <1>2, <1>3 DEF ReadsInv

----------------------------------------------------------------------------
(* The account's reads: a step of one.                                     *)

\* The reads of the others stay as they are.
LEMMA OneRead ==
  ASSUME ReadsTypes, NEW r \in Coroutines, NEW x \in ReadRecords, reader' = [reader EXCEPT ![r] = x]
  PROVE  /\ reader' \in [Coroutines -> ReadRecords] /\ reader'[r] = x
         /\ \A q \in Coroutines \ {r} : reader'[q] = reader[q]
  BY DEF ReadsTypes

LEMMA ReadRecord ==
  ASSUME ReadsInv, NEW r \in Coroutines PROVE reader[r] \in ReadRecords /\ ReadFits(r)
  BY DEF ReadsInv, ReadsTypes

LEMMA StartKeeps ==
  ASSUME ReadsInv, NEW r \in Coroutines, Start(r) PROVE ReadsInv'
  <1>1. PICK forget \in BOOLEAN :
          LET cached == IF forget THEN NoSnap ELSE snap
          IN /\ reader' = [reader EXCEPT ![r] = [NoRead EXCEPT
                    !.at = IF Hit(cached) THEN "listing" ELSE "asked",
                    !.cached = IF Hit(cached) THEN NoSnap ELSE cached,
                    !.snap = Handed(cached),
                    !.flat = (held = {}), !.sure = us /\ usKnown]]
             /\ snap' = cached /\ fresh' = Hit(cached)
    BY DEF Start
  <1> DEFINE cached == IF forget THEN NoSnap ELSE snap
  <1> DEFINE place == IF Hit(cached) THEN "listing" ELSE "asked"
  <1> DEFINE found == IF Hit(cached) THEN NoSnap ELSE cached
  <1> DEFINE handed == Handed(cached)
  <1> DEFINE flat == held = {}
  <1> DEFINE sure == us /\ usKnown
  <1> DEFINE x == [NoRead EXCEPT !.at = place, !.cached = found, !.snap = handed,
                               !.flat = flat, !.sure = sure]
  <1>2. /\ reader' = [reader EXCEPT ![r] = x]
        /\ snap' = cached /\ fresh' = Hit(cached)
        /\ UNCHANGED <<account, disk, diskOld, usCache, curve, history>>
    BY <1>1 DEF Start
  <1>3. /\ cached \in {NoSnap, snap} /\ found \in {NoSnap, snap}
        /\ handed \in Snapshots \cup {NoSnap} /\ (place = "listing" => handed \in Snapshots)
        /\ place \in {"listing", "asked"} /\ Hit(cached) \in BOOLEAN
        /\ snap \in Snapshots \cup {NoSnap}
    BY DEF ReadsInv, ReadsTypes, Hit, Handed
  <1>4. sure \in BOOLEAN /\ flat \in BOOLEAN /\ (sure => usKnown) /\ (flat => held = {})
    BY DEF ReadsInv, ReadsTypes
  <1> HIDE DEF cached, place, found, handed, flat, sure
  <1>5. x \in ReadRecords
    BY <1>3, <1>4, IdleRead DEF ReadRecords, Places
  <1>6. /\ x.at = place /\ x.cached = found /\ x.snap = handed /\ x.flat = flat /\ x.sure = sure
        /\ x.rows = {} /\ ~x.ok
    BY DEF NoRead
  <1> HIDE DEF x
  <1>7. reader' \in [Coroutines -> ReadRecords] /\ reader'[r] = x
        /\ \A q \in Coroutines \ {r} : reader'[q] = reader[q]
    BY <1>2, <1>5, OneRead DEF ReadsInv
  <1>8. ReadsTypes'
    BY <1>2, <1>3, <1>7 DEF ReadsInv, ReadsTypes, account, usCache, history
  <1>9. CachesFit'
    BY <1>2, <1>3 DEF ReadsInv, CachesFit, account, usCache, history
  <1>10. ReadFits(r)'
    BY <1>2, <1>3, <1>4, <1>6, <1>7 DEF ReadsInv, CachesFit, ReadFits, account, usCache, history
  <1>11. \A q \in Coroutines \ {r} : ReadFits(q)'
    BY <1>2, <1>7 DEF ReadsInv, ReadFits, account, usCache, history
  <1> QED
    BY <1>8, <1>9, <1>10, <1>11 DEF ReadsInv

\* KIS's answers: none is a good and empty list with a total that agrees, while a
\* stock that matters is held.
LEMMA AnsweredKeeps ==
  ASSUME ReadsInv, NEW r \in Coroutines, Answered(r) PROVE ReadsInv'
  <1>1. PICK a \in {[ok |-> TRUE, rows |-> held, values |-> held],
                    [ok |-> TRUE, rows |-> {}, values |-> held],
                    [ok |-> FALSE, rows |-> {}, values |-> {}],
                    [ok |-> FALSE, rows |-> held \cap FirstPage, values |-> held]} :
          reader' = [reader EXCEPT ![r].at = "told", ![r].ok = a.ok, ![r].rows = a.rows, ![r].values = a.values]
    BY DEF Answered
  <1> DEFINE ok == a.ok
  <1> DEFINE rows == a.rows
  <1> DEFINE values == a.values
  <1> DEFINE x == [reader[r] EXCEPT !.at = "told", !.ok = ok, !.rows = rows, !.values = values]
  <1>2. ok \in BOOLEAN /\ rows \subseteq held /\ values \subseteq held
        /\ (rows = {} => ~ok \/ values = held)
    <2>1. CASE a = [ok |-> TRUE, rows |-> held, values |-> held]
      BY <2>1
    <2>2. CASE a = [ok |-> TRUE, rows |-> {}, values |-> held]
      BY <2>2
    <2>3. CASE a = [ok |-> FALSE, rows |-> {}, values |-> {}]
      BY <2>3
    <2>4. CASE a = [ok |-> FALSE, rows |-> held \cap FirstPage, values |-> held]
      BY <2>4
    <2> QED
      BY <2>1, <2>2, <2>3, <2>4
  <1>3. reader' = [reader EXCEPT ![r] = x]
    BY <1>1
  <1>4. held \in SUBSET Stocks
    BY DEF ReadsInv, ReadsTypes
  <1>5. reader[r] \in ReadRecords /\ ReadFits(r)
    BY ReadRecord
  <1> HIDE DEF ok, rows, values
  <1>6. x \in ReadRecords
    BY <1>2, <1>4, <1>5 DEF ReadRecords, Places
  <1>7. /\ x.at = "told" /\ x.ok = ok /\ x.rows = rows /\ x.values = values
        /\ x.cached = reader[r].cached /\ x.flat = reader[r].flat /\ x.sure = reader[r].sure
    BY <1>5 DEF ReadRecords
  <1> HIDE DEF x
  <1>8. reader' \in [Coroutines -> ReadRecords] /\ reader'[r] = x
        /\ \A q \in Coroutines \ {r} : reader'[q] = reader[q]
    BY <1>3, <1>6, OneRead DEF ReadsInv
  <1>9. UNCHANGED <<account, krCache, usCache, curve, history>>
    BY DEF Answered
  <1>10. ReadsTypes' /\ CachesFit'
    BY <1>8, <1>9 DEF ReadsInv, ReadsTypes, CachesFit, account, krCache, usCache, history
  <1>11. ReadFits(r)'
    BY <1>2, <1>5, <1>7, <1>8, <1>9 DEF ReadsInv, CachesFit, ReadFits, account, usCache, history
  <1>12. \A q \in Coroutines \ {r} : ReadFits(q)'
    BY <1>8, <1>9 DEF ReadsInv, ReadFits, account, usCache, history
  <1> QED
    BY <1>10, <1>11, <1>12 DEF ReadsInv

\* The merge: what an answer may bring back is what the caches may hold.
LEMMA MergeKeeps ==
  ASSUME ReadsInv, NEW r \in Coroutines, Merge(r) PROVE ReadsInv'
  <1> DEFINE x == reader[r]
  <1> DEFINE m == Merged(x)
  <1> DEFINE y == [x EXCEPT !.at = "listing", !.snap = m, !.cached = NoSnap,
                            !.ok = FALSE, !.rows = {}, !.values = {}]
  <1> DEFINE new == IF r \in Pollers THEN y ELSE NoRead
  <1>1. x \in ReadRecords /\ ReadFits(r) /\ x.at = "told"
    BY ReadRecord DEF Merge
  <1>2. /\ snap' = m /\ fresh' = TRUE
        /\ disk' = (IF x.rows # {} \/ Flat(x) THEN x.rows ELSE disk)
        /\ diskOld' = (diskOld /\ x.rows = {} /\ ~Flat(x))
        /\ clean' = (clean \/ (x.ok /\ x.flat /\ Alone(r)))
        /\ known' = (known \/ (x.ok /\ x.rows # {} /\ Large(held) /\ Alone(r)))
        /\ reader' = [reader EXCEPT ![r] = new]
        /\ UNCHANGED <<account, usCache, curve, usKnown>>
    BY DEF Merge
  <1>3. /\ x.ok \in BOOLEAN /\ x.rows \in SUBSET Stocks /\ x.cached \in Snapshots \cup {NoSnap}
        /\ x.flat \in BOOLEAN
    BY <1>1 DEF ReadRecords
  <1>4. m = [ok |-> x.ok, list |-> IF Prior(x) # {} /\ (~x.ok \/ (x.rows = {} /\ Large(x.values)))
                                   THEN Prior(x) ELSE x.rows]
    BY DEF Merged
  <1>5. Prior(x) \in SUBSET Stocks
    BY <1>3 DEF Prior, ReadsInv, ReadsTypes, Snapshots
  <1>6. m \in Snapshots
    BY <1>3, <1>4, <1>5 DEF Snapshots
  <1>7. m.list = IF Prior(x) # {} /\ (~x.ok \/ (x.rows = {} /\ Large(x.values)))
                 THEN Prior(x) ELSE x.rows
    BY <1>4
  <1> HIDE DEF m
  <1>8. y \in ReadRecords
    BY <1>1, <1>6 DEF ReadRecords, Places
  <1>9. /\ y.at = "listing" /\ y.snap = m /\ y.cached = NoSnap /\ ~y.ok /\ y.rows = {}
        /\ y.flat = x.flat /\ y.sure = x.sure
    BY <1>1 DEF ReadRecords
  <1>10. /\ new \in ReadRecords /\ new.at \in {"idle", "listing"}
         /\ (new.at = "listing" => new.snap \in Snapshots) /\ new.cached = NoSnap
         /\ new.rows = {} /\ ~new.ok /\ (new.flat => x.flat) /\ (new.sure => x.sure)
    <2>1. CASE r \in Pollers
      BY <1>6, <1>8, <1>9, <2>1
    <2>2. CASE r \notin Pollers
      BY <2>2, IdleRead DEF NoRead
    <2> QED
      BY <2>1, <2>2
  <1> HIDE DEF y, new
  <1>11. reader' \in [Coroutines -> ReadRecords] /\ reader'[r] = new
         /\ \A q \in Coroutines \ {r} : reader'[q] = reader[q]
    BY <1>2, <1>10, OneRead DEF ReadsInv
  <1> HIDE DEF x
  <1>12. held' = held /\ us' = us /\ trades' = trades /\ ov' = ov /\ ovOld' = ovOld
         /\ curve' = curve /\ usKnown' = usKnown
    BY <1>2 DEF account, usCache
  <1>13. x.flat => held = {} /\ x.rows = {} /\ x.values = {}
    BY <1>1 DEF ReadFits, x
  <1>14. ReadsTypes'
    BY <1>2, <1>3, <1>6, <1>11, <1>12 DEF ReadsInv, ReadsTypes
  <1>15. clean' => held = {} /\ disk' = {} /\ m.list = {}
    <2>1. CASE clean
      <3>1. x.rows = {} /\ (x.cached # NoSnap => x.cached.list = {}) /\ held = {} /\ disk = {}
        BY <1>1, <2>1 DEF ReadsInv, CachesFit, ReadFits, x
      <3>2. Prior(x) = {}
        BY <3>1 DEF Prior
      <3> QED
        BY <1>2, <1>7, <3>1, <3>2
    <2>2. CASE x.ok /\ x.flat
      <3>1. Flat(x)
        BY <1>13, <2>2 DEF Flat, Large
      <3> QED
        BY <1>2, <1>7, <1>13, <2>2, <3>1 DEF Large
    <2> QED
      BY <1>2, <2>1, <2>2
  <1>16. known' => Large(held) /\ disk' # {} /\ (~diskOld' => m.list # {})
    <2>1. CASE known /\ x.rows = {}
      <3>1. Large(held) /\ disk # {} /\ (~x.ok \/ Large(x.values))
        BY <1>1, <2>1 DEF ReadsInv, CachesFit, ReadFits, x
      <3>2. ~Flat(x) /\ disk' = disk /\ diskOld' = diskOld
        BY <1>2, <2>1, <3>1 DEF Flat, ReadsInv, ReadsTypes
      <3>3. ~diskOld => Prior(x) # {}
        BY <3>1 DEF Prior
      <3> QED
        BY <1>7, <2>1, <3>1, <3>2, <3>3
    <2>2. CASE x.rows # {}
      <3>1. known' => Large(held)
        BY <1>2 DEF ReadsInv, CachesFit
      <3> QED
        BY <1>2, <1>7, <2>2, <3>1
    <2> QED
      BY <1>2, <2>1, <2>2
  <1>17. CachesFit'
    <2>1. known' => Large(held)'
      BY <1>12, <1>16 DEF Large
    <2> QED
      BY <1>2, <1>12, <1>15, <1>16, <2>1 DEF ReadsInv, CachesFit
  <1>18. ReadFits(r)'
    BY <1>10, <1>11, <1>12, <1>13, <1>1 DEF ReadFits, x
  <1>19. ASSUME NEW q \in Coroutines \ {r} PROVE ReadFits(q)'
    <2>1. ReadFits(q) /\ reader'[q] = reader[q]
      BY <1>11 DEF ReadsInv
    <2>2. CASE Alone(r)
      <3>1. reader[q].at = "idle"
        BY <2>2 DEF Alone
      <3>2. reader[q].cached = NoSnap /\ reader[q].rows = {} /\ ~reader[q].ok
        BY <2>1, <3>1 DEF ReadFits
      <3> QED
        BY <1>12, <2>1, <3>1, <3>2 DEF ReadFits
    <2>3. CASE ~Alone(r)
      <3>1. clean' = clean /\ known' = known
        BY <1>2, <2>3 DEF ReadsInv, ReadsTypes
      <3> QED
        BY <1>12, <2>1, <3>1 DEF ReadFits, Large
    <2> QED
      BY <2>2, <2>3
  <1> QED
    BY <1>14, <1>17, <1>18, <1>19 DEF ReadsInv

\* The steps of portfolio_holdings that leave the caches alone.
LEMMA ListedValuedKeep ==
  ASSUME ReadsInv, NEW r \in Coroutines, Listed(r) \/ Valued(r) PROVE ReadsInv'
  <1>1. reader[r] \in ReadRecords /\ ReadFits(r) /\ us \in BOOLEAN
    BY ReadRecord DEF ReadsInv, ReadsTypes
  <1>2. PICK x \in ReadRecords :
          /\ reader' = [reader EXCEPT ![r] = x]
          /\ x.at \in {"valuing", "valued"} /\ reader[r].at \in {"listing", "valuing"}
          /\ x.cached = reader[r].cached /\ x.ok = reader[r].ok /\ x.rows = reader[r].rows
          /\ x.values = reader[r].values /\ x.snap = reader[r].snap
          /\ x.flat = reader[r].flat /\ x.sure = reader[r].sure
    <2>1. CASE Listed(r)
      <3>1. PICK l \in {us, FALSE} : reader' = [reader EXCEPT ![r].at = "valuing", ![r].listed = l]
        BY <2>1 DEF Listed
      <3> DEFINE x == [reader[r] EXCEPT !.at = "valuing", !.listed = l]
      <3>2. x \in ReadRecords
        BY <1>1 DEF ReadRecords, Places
      <3>3. reader' = [reader EXCEPT ![r] = x] /\ reader[r].at = "listing"
        BY <2>1, <3>1 DEF Listed
      <3>4. /\ x.at = "valuing"
            /\ x.cached = reader[r].cached /\ x.ok = reader[r].ok /\ x.rows = reader[r].rows
            /\ x.values = reader[r].values /\ x.snap = reader[r].snap
            /\ x.flat = reader[r].flat /\ x.sure = reader[r].sure
        BY <1>1 DEF ReadRecords
      <3> HIDE DEF x
      <3> QED
        BY <3>2, <3>3, <3>4
    <2>2. CASE Valued(r)
      <3>1. PICK v \in {"some", "odd", "nothing", "failed"} :
              reader' = [reader EXCEPT ![r].at = "valued", ![r].value = v]
        BY <2>2 DEF Valued
      <3> DEFINE x == [reader[r] EXCEPT !.at = "valued", !.value = v]
      <3>2. x \in ReadRecords
        BY <1>1 DEF ReadRecords, Places
      <3>3. reader' = [reader EXCEPT ![r] = x] /\ reader[r].at = "valuing"
        BY <2>2, <3>1 DEF Valued
      <3>4. /\ x.at = "valued"
            /\ x.cached = reader[r].cached /\ x.ok = reader[r].ok /\ x.rows = reader[r].rows
            /\ x.values = reader[r].values /\ x.snap = reader[r].snap
            /\ x.flat = reader[r].flat /\ x.sure = reader[r].sure
        BY <1>1 DEF ReadRecords
      <3> HIDE DEF x
      <3> QED
        BY <3>2, <3>3, <3>4
    <2> QED
      BY <2>1, <2>2
  <1>3. reader' \in [Coroutines -> ReadRecords] /\ reader'[r] = x
        /\ \A q \in Coroutines \ {r} : reader'[q] = reader[q]
    BY <1>2, OneRead DEF ReadsInv
  <1>4. UNCHANGED <<account, krCache, usCache, curve, history>>
    BY DEF Listed, Valued
  <1>5. ReadsTypes' /\ CachesFit'
    BY <1>3, <1>4 DEF ReadsInv, ReadsTypes, CachesFit, account, krCache, usCache, history
  <1>6. ReadFits(r)'
    BY <1>1, <1>2, <1>3, <1>4 DEF ReadFits, Large, account, history
  <1>7. \A q \in Coroutines \ {r} : ReadFits(q)'
    BY <1>3, <1>4 DEF ReadsInv, ReadFits, account, history
  <1> QED
    BY <1>5, <1>6, <1>7 DEF ReadsInv

\* A read that is misled unsettles them all; else the value that counts, or the
\* cache that stands in for it, is that of the US stocks held.
LEMMA WeighedKeeps ==
  ASSUME ReadsInv, NEW r \in Coroutines, Weighed(r) PROVE ReadsInv'
  <1> DEFINE x == reader[r]
  <1> DEFINE m == Misled(x)
  <1>1. x \in ReadRecords /\ ReadFits(r) /\ x.at = "valued"
    BY ReadRecord DEF Weighed
  <1>2. /\ ov' = (x.value = "some" \/ (ov /\ ~Dropped(x)))
        /\ ovOld' = (ovOld /\ x.value # "some" /\ ~Dropped(x))
        /\ usKnown' = IF m THEN FALSE ELSE usKnown \/ (x.value = "some" /\ us /\ Alone(r))
        /\ UNCHANGED <<account, krCache, curve, clean, known>>
    BY DEF Weighed
  <1>3. m = Dropped(x) /\ m \in BOOLEAN /\ Counted(x) \in BOOLEAN
    BY DEF Misled, SoldOut, Dropped, Counted
  <1>4. ASSUME NEW q \in Coroutines
        PROVE  /\ reader'[q] \in ReadRecords /\ reader'[q].cached = reader[q].cached
               /\ reader'[q].ok = reader[q].ok /\ reader'[q].rows = reader[q].rows
               /\ reader'[q].values = reader[q].values /\ reader'[q].snap = reader[q].snap
               /\ reader'[q].flat = reader[q].flat /\ reader'[q].sure = (reader[q].sure /\ ~m)
               /\ q = r => reader'[q].at = "weighed" /\ reader'[q].counted = Counted(x)
               /\ q # r => reader'[q].at = reader[q].at /\ reader'[q].counted = reader[q].counted
    <2>1. reader[q] \in ReadRecords
      BY ReadRecord
    <2> DEFINE sure == reader[q].sure /\ ~m
    <2> DEFINE c == Counted(x)
    <2>2. sure \in BOOLEAN
      BY <1>3, <2>1 DEF ReadRecords
    <2>3. CASE q = r
      <3> DEFINE new == [x EXCEPT !.at = "weighed", !.counted = c, !.sure = sure]
      <3>1. reader'[q] = new
        BY <2>3 DEF Weighed
      <3> HIDE DEF sure, m, c
      <3>2. new \in ReadRecords /\ new.at = "weighed" /\ new.counted = c /\ new.sure = sure
            /\ new.cached = x.cached /\ new.ok = x.ok /\ new.rows = x.rows /\ new.values = x.values
            /\ new.snap = x.snap /\ new.flat = x.flat
        BY <1>1, <1>3, <2>2 DEF ReadRecords, Places, c
      <3> HIDE DEF new
      <3> QED
        BY <2>3, <3>1, <3>2 DEF sure, c
    <2>4. CASE q # r
      <3> DEFINE new == [reader[q] EXCEPT !.sure = sure]
      <3>1. reader'[q] = new
        BY <2>4 DEF Weighed
      <3> HIDE DEF sure, m, c
      <3>3. new \in ReadRecords /\ new.sure = sure /\ new.at = reader[q].at
            /\ new.counted = reader[q].counted
            /\ new.cached = reader[q].cached /\ new.ok = reader[q].ok
            /\ new.rows = reader[q].rows /\ new.values = reader[q].values
            /\ new.snap = reader[q].snap /\ new.flat = reader[q].flat
        BY <2>1, <2>2 DEF ReadRecords
      <3> HIDE DEF new
      <3> QED
        BY <2>4, <3>1, <3>3 DEF sure
    <2> QED
      BY <2>3, <2>4
  <1>5. reader' \in [Coroutines -> ReadRecords]
    BY <1>4 DEF Weighed
  <1>6. ReadsTypes'
    <2>1. ov' \in BOOLEAN /\ ovOld' \in BOOLEAN /\ usKnown' \in BOOLEAN
      BY <1>2 DEF ReadsInv, ReadsTypes
    <2> QED
      BY <1>2, <1>5, <2>1 DEF ReadsInv, ReadsTypes, account, krCache
  <1>7. CachesFit'
    <2>1. usKnown' => us' /\ ov' /\ ~ovOld'
      BY <1>2, <1>3 DEF ReadsInv, CachesFit, account
    <2> QED
      BY <1>2, <2>1 DEF ReadsInv, CachesFit, account, krCache
  <1>8. ASSUME NEW q \in Coroutines PROVE ReadFits(q)'
    <2>1. ReadFits(q)
      BY DEF ReadsInv
    <2>2. reader'[q].sure => usKnown'
      BY <1>2, <1>4, <2>1 DEF ReadFits
    <2>3. q = r /\ reader'[q].sure => reader'[q].counted
      <3> SUFFICES ASSUME q = r, reader'[q].sure PROVE Counted(x)
        BY <1>4
      <3>1. ~m /\ usKnown
        BY <1>4, <2>1 DEF ReadFits
      <3> QED
        BY <1>3, <3>1 DEF Counted, ReadsInv, CachesFit
    <2>4. CASE q = r
      BY <1>1, <1>2, <1>4, <2>1, <2>2, <2>3, <2>4 DEF ReadFits, Large, account
    <2>5. CASE q # r
      BY <1>2, <1>4, <2>1, <2>2, <2>5 DEF ReadFits, Large, account
    <2> QED
      BY <2>4, <2>5
  <1> QED
    BY <1>6, <1>7, <1>8 DEF ReadsInv

LEMMA RecordedKeeps ==
  ASSUME ReadsInv, NEW r \in Coroutines, Recorded(r) PROVE ReadsInv'
  <1> DEFINE x == reader[r]
  <1>1. x \in ReadRecords /\ ReadFits(r) /\ x.at = "weighed"
    BY ReadRecord DEF Recorded
  <1>2. PICK settled \in BOOLEAN :
          curve' \in {[us |-> settled \/ x.counted, sure |-> x.sure], curve}
    <2>1. CASE UNCHANGED curve
      BY <2>1
    <2>2. ASSUME NEW settled \in BOOLEAN, curve' = [us |-> settled \/ x.counted, sure |-> x.sure]
          PROVE  \E b \in BOOLEAN : curve' \in {[us |-> b \/ x.counted, sure |-> x.sure], curve}
      BY <2>2
    <2> QED
      BY <2>1, <2>2 DEF Recorded
  <1>3. reader' = [reader EXCEPT ![r] = NoRead] /\ UNCHANGED <<account, krCache, usCache, history>>
    BY DEF Recorded
  <1>4. x.counted \in BOOLEAN /\ x.sure \in BOOLEAN /\ (x.sure => x.counted)
    BY <1>1 DEF ReadRecords, ReadFits
  <1> DEFINE counts == settled \/ x.counted
  <1>5. curve' = [us |-> counts, sure |-> x.sure] \/ curve' = curve
    BY <1>2
  <1>6. counts \in BOOLEAN /\ (x.sure => counts)
    BY <1>4
  <1> HIDE DEF counts, x
  <1>7. curve' \in [us : BOOLEAN, sure : BOOLEAN] \cup {NoPoint}
        /\ (curve' # NoPoint /\ curve'.sure => curve'.us)
    BY <1>4, <1>5, <1>6 DEF ReadsInv, ReadsTypes, CachesFit
  <1>8. reader' \in [Coroutines -> ReadRecords] /\ reader'[r] = NoRead
        /\ \A q \in Coroutines \ {r} : reader'[q] = reader[q]
    BY <1>3, IdleRead, OneRead DEF ReadsInv
  <1>9. ReadsTypes' /\ CachesFit'
    BY <1>3, <1>7, <1>8 DEF ReadsInv, ReadsTypes, CachesFit, account, krCache, usCache, history
  <1>10. ReadFits(r)'
    BY <1>8 DEF ReadFits, NoRead
  <1>11. \A q \in Coroutines \ {r} : ReadFits(q)'
    BY <1>3, <1>8 DEF ReadsInv, ReadFits, Large, account, history
  <1> QED
    BY <1>9, <1>10, <1>11 DEF ReadsInv

----------------------------------------------------------------------------
(* The account's reads: the account, time, the process.                    *)

\* The account changes: what was known of it is known no longer, of the caches as
\* of the reads under way.
LEMMA TradeKeeps ==
  ASSUME ReadsInv, Trade PROVE ReadsInv'
  <1>1. /\ held' \in SUBSET Stocks /\ us' \in BOOLEAN /\ trades' \in 0..MaxTrades
        /\ held' # held => us' = us
    <2>1. trades < MaxTrades /\ trades' = trades + 1 /\ trades \in 0..MaxTrades /\ MaxTrades \in Nat
      BY ReadAssumption DEF Trade, ReadsInv, ReadsTypes
    <2>2. trades' \in 0..MaxTrades
      BY <2>1
    <2> QED
      BY <2>2 DEF Trade, ReadsInv, ReadsTypes
  <1>2. /\ clean' = (clean /\ held' = {})
        /\ known' = (known /\ Large(held'))
        /\ usKnown' = (usKnown /\ us' = us)
        /\ UNCHANGED <<krCache, usCache, curve>>
    BY DEF Trade
  <1>3. ASSUME NEW q \in Coroutines
        PROVE  /\ reader'[q] \in ReadRecords /\ reader'[q].cached = reader[q].cached
               /\ reader'[q].ok = reader[q].ok /\ reader'[q].rows = reader[q].rows
               /\ reader'[q].values = reader[q].values /\ reader'[q].snap = reader[q].snap
               /\ reader'[q].flat = (reader[q].flat /\ held' = {})
               /\ reader'[q].sure = (reader[q].sure /\ us' = us)
               /\ reader'[q].at = reader[q].at /\ reader'[q].counted = reader[q].counted
    <2> DEFINE flat == reader[q].flat /\ held' = {}
    <2> DEFINE sure == reader[q].sure /\ us' = us
    <2> DEFINE new == [reader[q] EXCEPT !.flat = flat, !.sure = sure]
    <2>1. reader[q] \in ReadRecords /\ reader'[q] = new
      BY ReadRecord DEF Trade
    <2>2. flat \in BOOLEAN /\ sure \in BOOLEAN
      BY <2>1 DEF ReadRecords
    <2> HIDE DEF flat, sure
    <2>3. new \in ReadRecords /\ new.sure = sure /\ new.flat = flat /\ new.at = reader[q].at
          /\ new.counted = reader[q].counted
          /\ new.cached = reader[q].cached /\ new.ok = reader[q].ok
          /\ new.rows = reader[q].rows /\ new.values = reader[q].values
          /\ new.snap = reader[q].snap
      BY <2>1, <2>2 DEF ReadRecords
    <2> HIDE DEF new
    <2> QED
      BY <2>1, <2>3 DEF flat, sure
  <1>4. reader' \in [Coroutines -> ReadRecords]
    BY <1>3 DEF Trade
  <1>5. ReadsTypes'
    BY <1>1, <1>2, <1>4 DEF ReadsInv, ReadsTypes, krCache, usCache
  <1>6. CachesFit'
    BY <1>2 DEF ReadsInv, CachesFit, Large, krCache, usCache
  <1>7. ASSUME NEW q \in Coroutines PROVE ReadFits(q)'
    <2>1. ReadFits(q)
      BY DEF ReadsInv
    <2> QED
      BY <1>1, <1>2, <1>3, <2>1 DEF ReadFits, Large
  <1> QED
    BY <1>5, <1>6, <1>7 DEF ReadsInv

LEMMA CachesAgeKeeps ==
  ASSUME ReadsInv, CachesAge PROVE ReadsInv'
  <1>1. UNCHANGED <<account, snap, disk, ov, curve, clean, known>>
    BY DEF CachesAge
  <1>2. CASE /\ UNCHANGED <<reader, usKnown, ovOld>> /\ fresh' \in BOOLEAN
             /\ diskOld' \in BOOLEAN /\ (diskOld => diskOld')
    BY <1>1, <1>2 DEF ReadsInv, ReadsTypes, CachesFit, ReadFits, Large, account
  <1>3. CASE /\ ovOld' = TRUE /\ usKnown' = FALSE /\ UNCHANGED <<fresh, diskOld>>
             /\ reader' = [r \in Coroutines |-> [reader[r] EXCEPT !.sure = FALSE]]
    <2>1. ASSUME NEW q \in Coroutines
          PROVE  /\ reader'[q] \in ReadRecords /\ reader'[q].cached = reader[q].cached
                 /\ reader'[q].ok = reader[q].ok /\ reader'[q].rows = reader[q].rows
                 /\ reader'[q].values = reader[q].values /\ reader'[q].snap = reader[q].snap
                 /\ reader'[q].flat = reader[q].flat /\ ~reader'[q].sure
                 /\ reader'[q].at = reader[q].at
      <3>1. reader[q] \in ReadRecords /\ reader'[q] = [reader[q] EXCEPT !.sure = FALSE]
        BY <1>3, ReadRecord
      <3> QED
        BY <3>1 DEF ReadRecords
    <2>2. ReadsTypes'
      BY <1>1, <1>3, <2>1 DEF ReadsInv, ReadsTypes, account
    <2>3. CachesFit'
      BY <1>1, <1>3 DEF ReadsInv, CachesFit, Large, account
    <2>4. ASSUME NEW q \in Coroutines PROVE ReadFits(q)'
      BY <1>1, <2>1 DEF ReadsInv, ReadFits, Large, account
    <2> QED
      BY <2>2, <2>3, <2>4 DEF ReadsInv
  <1> QED
    BY <1>2, <1>3 DEF CachesAge, ReadsInv, ReadsTypes

LEMMA RestartKeeps ==
  ASSUME ReadsInv, ProcessRestarts PROVE ReadsInv'
  <1>1. /\ snap' = NoSnap /\ fresh' = FALSE /\ reader' = [r \in Coroutines |-> NoRead]
        /\ UNCHANGED <<account, disk, diskOld, usCache, curve, history>>
    BY DEF ProcessRestarts
  <1>2. ReadsTypes' /\ CachesFit'
    BY <1>1, IdleRead DEF ReadsInv, ReadsTypes, CachesFit, Large, account, usCache, history
  <1>3. \A q \in Coroutines : ReadFits(q)'
    BY <1>1 DEF ReadFits, NoRead
  <1> QED
    BY <1>2, <1>3 DEF ReadsInv

----------------------------------------------------------------------------
(* The account's reads: the theorems.                                      *)

\* Every behaviour of the reads keeps the invariant.
THEOREM ReadsInvariance == ReadsSpec => []ReadsInv
  <1>1. ReadsInv /\ [ReadsNext]_readsVars => ReadsInv'
    <2> SUFFICES ASSUME ReadsInv, [ReadsNext]_readsVars PROVE ReadsInv'
      OBVIOUS
    <2>1. CASE UNCHANGED readsVars
      BY <2>1 DEF readsVars, ReadsInv, ReadsTypes, CachesFit, ReadFits, Large
    <2> QED
      BY <2>1, StartKeeps, AnsweredKeeps, MergeKeeps, ListedValuedKeep, WeighedKeeps,
         RecordedKeeps, TradeKeeps, CachesAgeKeeps, RestartKeeps DEF ReadsNext
  <1> QED
    BY <1>1, ReadsStart, PTL DEF ReadsSpec

\* ReadsTypeOK holds of every run of the reads.
THEOREM ReadTypes == ReadsSpec => []ReadsTypeOK
  <1>1. ReadsInv => ReadsTypeOK
    BY DEF ReadsInv, ReadsTypes, ReadFits, ReadRecords, Places, ReadsTypeOK
  <1> QED
    BY <1>1, ReadsInvariance, PTL

\* NoGhosts holds of every run: once an undisturbed read has found the account
\* empty, no cache brings back what was sold.
THEOREM GhostsStayGone == ReadsSpec => []NoGhosts
  <1>1. ReadsInv => NoGhosts
    BY DEF ReadsInv, CachesFit, NoGhosts
  <1> QED
    BY <1>1, ReadsInvariance, PTL

\* HoldingsStay holds of every run: what an undisturbed read has listed does not
\* vanish by failed reads, empty answers or restarts.
THEOREM HoldingsSurvive == ReadsSpec => []HoldingsStay
  <1>1. ReadsInv => HoldingsStay
    BY DEF ReadsInv, CachesFit, HoldingsStay
  <1> QED
    BY <1>1, ReadsInvariance, PTL

\* CurveKeepsUs holds of every run: a point of the curve counts the US stocks
\* that its read began with.
THEOREM CurveCountsUs == ReadsSpec => []CurveKeepsUs
  <1>1. ReadsInv => CurveKeepsUs
    BY DEF ReadsInv, CachesFit, CurveKeepsUs
  <1> QED
    BY <1>1, ReadsInvariance, PTL
=============================================================================
