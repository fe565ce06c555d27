------------------------ MODULE ProxyCredentialsProofs ------------------------
(***************************************************************************)
(* The safety properties of ProxyCredentials, for every number of handlers *)
(* and of tokens.                                                          *)
(*                                                                         *)
(* A replaced refresh token is presented again only if its replacement was *)
(* lost.  That needs what the file, the holder of the lock and the request *)
(* on its way to the provider say about the same token at every moment;    *)
(* and a retry is fresh because a token that is not saved yet is known to  *)
(* nobody but the holder of the lock.                                      *)
(***************************************************************************)
EXTENDS ProxyCredentials, TLAPS

\* Nothing names a token before it is issued.
Known ==
  /\ spent \subseteq 1..issued
  /\ \A q \in asks : q.refresh \in 1..issued
  /\ file # None => /\ file.access \in 1..issued
                    /\ file.refresh # None => file.refresh \in 1..issued
  /\ \A h \in Handler :
       /\ task[h].token # None => task[h].token \in 1..issued
       /\ task[h].rejected # None => task[h].rejected \in 1..issued
       /\ At(h, "asking") => task[h].old \in 1..issued
       /\ At(h, "save") => /\ task[h].old \in 1..issued
                           /\ task[h].new # None
                           /\ task[h].new.access \in 1..issued
                           /\ task[h].new.refresh \in 1..issued

\* Where a handler is says whether it holds the lock and how often it sent.
Placed ==
  \A h \in Handler :
    /\ lock = h <=> At(h, "asking") \/ At(h, "save")
    /\ ~At(h, "sent") => task[h].sends # 2
    /\ At(h, "sent") => task[h].token # None

\* A refresh request whose sender lives is the sender's present one.
Presented ==
  \A q \in asks : q.by # None => At(q.by, "asking") /\ task[q.by].old = q.refresh

\* The holder of the lock works with a token that is not replaced, or whose
\* replacement is lost.
Unspent ==
  \A h \in Handler :
    /\ At(h, "asking") /\ task[h].old \in spent => task[h].old \in lost
    /\ At(h, "save") /\ task[h].new.refresh \in spent => task[h].new.refresh \in lost

\* A token that is not saved yet is in no other place.
Secret ==
  \A h \in Handler : At(h, "save") =>
    /\ file # None => file.access # task[h].new.access
    /\ \A g \in Handler : /\ task[g].token # task[h].new.access
                          /\ task[g].rejected # task[h].new.access

\* The token refused before is no longer in the file when the retry leaves.
Replaced ==
  \A h \in Handler : At(h, "send") /\ file # None => file.access # task[h].rejected

Inv ==
  /\ TypeOK /\ Known /\ Placed /\ Presented /\ Unspent /\ Secret /\ Replaced
  /\ ServedOnce /\ RetryIsFresh /\ LoginStaysUsable

-----------------------------------------------------------------------------
\* What a step of one handler does to all of them.
LEMMA StepOfOne ==
  ASSUME TypeOK, NEW h \in Handler, NEW next \in Task, Goto(h, next)
  PROVE  /\ task' \in [Handler -> Task]
         /\ task'[h] = next
         /\ \A g \in Handler : g # h => task'[g] = task[g]
BY DEF TypeOK, Goto

\* A handler that waits for nothing is a handler.
LEMMA IdleIsTask == Idle \in Task
BY DEF Idle, Task, Maybe

\* Only one handler is between its request to the provider and its save.
LEMMA OneHolder ==
  ASSUME Placed, NEW g \in Handler, NEW h \in Handler,
         At(g, "asking") \/ At(g, "save"), At(h, "asking") \/ At(h, "save")
  PROVE  g = h
BY DEF Placed

\* At first one token is known, and nobody has asked for anything.
LEMMA InitHolds == Init => Inv
<1> SUFFICES ASSUME Init PROVE Inv
  OBVIOUS
<1> USE BoundAssumption, NoneAssumption
<1>1. 1 \in Tokens /\ 1 \in 1..issued
  BY DEF Init, Tokens
<1>2. \A h \in Handler : task[h] = Idle
  BY DEF Init
<1>3. TypeOK
  <2>1. task \in [Handler -> Task]
    BY IdleIsTask DEF Init
  <2>2. file \in Maybe(Credentials) /\ issued \in Tokens
    BY <1>1 DEF Init, Maybe, Credentials
  <2>3. QED
    BY <2>1, <2>2 DEF Init, TypeOK, Maybe
<1>4. Known /\ Presented /\ Unspent /\ Secret
  BY <1>1, <1>2 DEF Init, Known, Presented, Unspent, Secret, At, Idle
<1>5. Placed /\ Replaced
  BY <1>1, <1>2 DEF Init, Placed, Replaced, At, Idle
<1>6. ServedOnce /\ RetryIsFresh /\ LoginStaysUsable
  BY <1>1, <1>2 DEF Init, ServedOnce, RetryIsFresh, LoginStaysUsable, At, Idle
<1>7. QED
  BY <1>3, <1>4, <1>5, <1>6 DEF Inv

-----------------------------------------------------------------------------
(* The handlers.                                                           *)

\* What a handler may do that neither has the lock nor gets it: move on with
\* tokens it has seen, or with the one in the file.
Movable(h, next) ==
  /\ ~At(h, "asking") /\ ~At(h, "save") /\ next.at \notin {"asking", "save"}
  /\ \A t \in {next.token, next.rejected} :
       \/ t \in {None, task[h].token, task[h].rejected}
       \/ file # None /\ t = file.access
  /\ next.at = "sent" => next.token # None
  /\ next.at # "sent" => next.sends # 2
  /\ next.at # "idle" => ~next.served
  /\ next.at = "send" /\ file # None => file.access # next.rejected
  /\ next.at = "sent" /\ next.sends = 2 => next.token # next.rejected

\* Such a step keeps the invariant.
LEMMA MoveKeeps ==
  ASSUME Inv, NEW h \in Handler, NEW next \in Task, Goto(h, next),
         UNCHANGED <<file, lock, provider>>, Movable(h, next)
  PROVE  Inv'
<1> USE NoneAssumption DEF Movable
<1>1. /\ task' \in [Handler -> Task] /\ task'[h] = next
      /\ \A g \in Handler : g # h => task'[g] = task[g]
  BY StepOfOne DEF Inv
<1>2. UNCHANGED <<file, lock, asks, issued, spent, lost>>
  BY DEF provider
<1>3. TypeOK'
  BY <1>1, <1>2 DEF Inv, TypeOK
<1>4. Known'
  BY <1>1, <1>2 DEF Inv, Known, At
<1>5. Placed'
  BY <1>1, <1>2 DEF Inv, Placed, At
<1>6. Presented' /\ Unspent'
  BY <1>1, <1>2 DEF Inv, Presented, Unspent, At, TypeOK, Ask, Maybe
<1>7. Secret'
  <2> SUFFICES ASSUME NEW s \in Handler, At(s, "save")'
               PROVE  /\ file' # None => file'.access # task'[s].new.access
                      /\ \A g \in Handler : /\ task'[g].token # task'[s].new.access
                                            /\ task'[g].rejected # task'[s].new.access
    BY DEF Secret
  <2>1. s # h /\ task'[s] = task[s] /\ At(s, "save")
    BY <1>1 DEF At
  <2>2. task[s].new.access # None
    BY <2>1 DEF Inv, Known
  <2>3. QED
    BY <1>1, <1>2, <2>1, <2>2 DEF Inv, Secret
<1>8. Replaced'
  BY <1>1, <1>2 DEF Inv, Replaced, At
<1>9. ServedOnce' /\ RetryIsFresh'
  BY <1>1 DEF Inv, ServedOnce, RetryIsFresh, At
<1>10. LoginStaysUsable'
  BY <1>1, <1>2 DEF Inv, LoginStaysUsable, At, TypeOK, Maybe
<1>11. QED
  BY <1>3, <1>4, <1>5, <1>6, <1>7, <1>8, <1>9, <1>10 DEF Inv

\* A handler gives up, and the lock with it; what it held is lost if it was
\* replaced, and so is what an answer to nobody replaces.
LEMMA FinishKeeps ==
  ASSUME Inv, NEW h \in Handler, Finish(h), UNCHANGED file,
         issued' \in Tokens, issued <= issued',
         lost' \in SUBSET Tokens, lost \subseteq lost',
         spent' \subseteq spent \cup (lost' \cap 1..issued),
         At(h, "save") /\ task[h].old \in spent => task[h].old \in lost',
         \A q \in asks' : \/ q \in asks /\ q.by # h
                          \/ q \in Ask /\ q.by = None /\ q.refresh \in 1..issued
  PROVE  Inv'
<1> USE NoneAssumption
<1>0. /\ issued \in Nat /\ issued' \in Nat /\ 1..issued \subseteq 1..issued'
      /\ 1..issued \subseteq Tokens
  BY BoundAssumption DEF Inv, TypeOK, Tokens
<1>1. /\ task' \in [Handler -> Task] /\ task'[h] = Idle
      /\ \A g \in Handler : g # h => task'[g] = task[g]
  BY IdleIsTask, StepOfOne DEF Inv, Finish
<1>2. UNCHANGED file /\ lock' = IF lock = h THEN None ELSE lock
  BY DEF Finish, Unlocked
<1>3. /\ Idle.at = "idle" /\ Idle.token = None /\ Idle.rejected = None
      /\ Idle.sends = 0 /\ Idle.served = FALSE
  BY DEF Idle
<1>4. TypeOK'
  <2>1. spent' \in SUBSET Tokens /\ asks' \in SUBSET Ask
    BY <1>0 DEF Inv, TypeOK
  <2>2. QED
    BY <1>1, <1>2, <2>1 DEF Inv, TypeOK, Maybe
<1>5. Known'
  <2>1. spent' \subseteq 1..issued /\ \A q \in asks' : q.refresh \in 1..issued
    BY DEF Inv, Known
  <2>2. QED
    BY <1>0, <1>1, <1>2, <1>3, <2>1 DEF Inv, Known, At
<1>6. Placed'
  BY <1>1, <1>2, <1>3 DEF Inv, Placed, At
<1>7. Presented'
  <2> SUFFICES ASSUME NEW q \in asks', q.by # None
               PROVE  At(q.by, "asking")' /\ task'[q.by].old = q.refresh
    BY DEF Presented
  <2>1. q \in asks /\ q.by # h /\ q.by \in Handler
    BY DEF Inv, TypeOK, Ask, Maybe
  <2>2. QED
    BY <1>1, <2>1 DEF Inv, Presented, At
<1>8. Unspent'
  BY <1>1, <1>3 DEF Inv, Unspent, At
<1>9. Secret'
  <2> SUFFICES ASSUME NEW s \in Handler, At(s, "save")'
               PROVE  /\ file' # None => file'.access # task'[s].new.access
                      /\ \A g \in Handler : /\ task'[g].token # task'[s].new.access
                                            /\ task'[g].rejected # task'[s].new.access
    BY DEF Secret
  <2>1. s # h /\ task'[s] = task[s] /\ At(s, "save")
    BY <1>1, <1>3 DEF At
  <2>2. task[s].new.access # None
    BY <2>1 DEF Inv, Known
  <2>3. QED
    BY <1>1, <1>2, <1>3, <2>1, <2>2 DEF Inv, Secret
<1>10. Replaced'
  BY <1>1, <1>2, <1>3 DEF Inv, Replaced, At
<1>11. ServedOnce' /\ RetryIsFresh'
  BY <1>1, <1>3 DEF Inv, ServedOnce, RetryIsFresh, At
<1>12. LoginStaysUsable'
  <2> SUFFICES ASSUME file # None, file.refresh \in spent', file.refresh \notin lost'
               PROVE  /\ lock' # None /\ At(lock, "save")' /\ task'[lock'].old = file.refresh
    BY <1>2 DEF LoginStaysUsable, At
  <2>1. file.refresh \in spent /\ file.refresh \notin lost
    OBVIOUS
  <2>2. lock # None /\ At(lock, "save") /\ task[lock].old = file.refresh
    BY <2>1 DEF Inv, LoginStaysUsable
  <2>3. lock # h
    BY <2>1, <2>2
  <2>4. lock \in Handler
    BY <2>2 DEF Inv, TypeOK, Maybe
  <2>5. QED
    BY <1>1, <1>2, <2>2, <2>3, <2>4 DEF At
<1>13. QED
  BY <1>4, <1>5, <1>6, <1>7, <1>8, <1>9, <1>10, <1>11, <1>12 DEF Inv

-----------------------------------------------------------------------------
(* The handlers.                                                           *)

\* A request arrives with no token refused yet.
LEMMA ArriveKeeps == ASSUME Inv, NEW h \in Handler, Arrive(h) PROVE Inv'
<1> USE NoneAssumption
<1> DEFINE next == [Idle EXCEPT !.at = IF Usable(None) THEN "send" ELSE "lock"]
<1>1. next \in Task
  BY IdleIsTask DEF Task
<1>2. /\ next.at \in {"send", "lock"} /\ next.sends = 0 /\ next.token = None
      /\ next.rejected = None /\ next.served = FALSE
  BY DEF Idle
<1>3. ~At(h, "asking") /\ ~At(h, "save")
  BY DEF Arrive, At
<1>4. file # None => file.access # None
  BY DEF Inv, Known
<1>5. Goto(h, next) /\ UNCHANGED <<file, lock, provider>>
  BY DEF Arrive
<1> HIDE DEF next
<1>6. Movable(h, next)
  BY <1>2, <1>3, <1>4 DEF Movable
<1>7. QED
  BY <1>1, <1>5, <1>6, MoveKeeps

\* The file holds another token than the refused one, and that is enough.
LEMMA RecheckReuseKeeps == ASSUME Inv, NEW h \in Handler, RecheckReuse(h) PROVE Inv'
<1> DEFINE next == [task[h] EXCEPT !.at = "send"]
<1>0. task[h] \in Task /\ task[h].at = "lock"
  BY DEF Inv, TypeOK, RecheckReuse, At
<1>1. next \in Task
  BY <1>0 DEF Task
<1>2. /\ next.at = "send" /\ next.sends = task[h].sends /\ next.token = task[h].token
      /\ next.rejected = task[h].rejected /\ next.served = task[h].served
  BY <1>0 DEF Task
<1>3. /\ ~At(h, "asking") /\ ~At(h, "save") /\ task[h].sends # 2 /\ ~task[h].served
      /\ file.access # task[h].rejected
  BY <1>0 DEF At, Inv, Placed, ServedOnce, RecheckReuse, Usable
<1>4. Goto(h, next) /\ UNCHANGED <<file, lock, provider>>
  BY DEF RecheckReuse
<1> HIDE DEF next
<1>5. Movable(h, next)
  BY <1>2, <1>3 DEF Movable
<1>6. QED
  BY <1>1, <1>4, <1>5, MoveKeeps

\* A request that ends without the lock leaves nothing behind.
LEMMA EndKeeps ==
  ASSUME Inv, NEW h \in Handler, Goto(h, Idle), ~At(h, "asking"), ~At(h, "save"),
         UNCHANGED <<file, lock, provider>>
  PROVE  Inv'
<1>1. /\ Idle.at = "idle" /\ Idle.token = None /\ Idle.rejected = None
      /\ Idle.sends = 0 /\ Idle.served = FALSE
  BY DEF Idle
<1>2. Movable(h, Idle)
  BY <1>1 DEF Movable
<1>3. QED
  BY <1>2, IdleIsTask, MoveKeeps

LEMMA RecheckFailKeeps == ASSUME Inv, NEW h \in Handler, RecheckFail(h) PROVE Inv'
BY EndKeeps DEF RecheckFail, At

\* The request leaves for the first or the second time.
LEMMA SendKeeps == ASSUME Inv, NEW h \in Handler, Send(h) PROVE Inv'
<1> USE NoneAssumption
<1> DEFINE next == [task[h] EXCEPT !.at = "sent", !.sends = task[h].sends + 1,
                                   !.token = file.access]
<1>0. task[h] \in Task /\ task[h].at = "send"
  BY DEF Inv, TypeOK, Send, At
<1>1. CASE file = None
  BY <1>0, <1>1, EndKeeps DEF Send, At
<1>2. CASE file # None
  <2>1. file.access \in Tokens /\ file.access # None
    BY <1>2 DEF Inv, TypeOK, Maybe, Credentials, Tokens
  <2>2. /\ task[h].sends \in {0, 1} /\ ~task[h].served
        /\ file.access # task[h].rejected
    BY <1>0, <1>2 DEF Inv, Placed, ServedOnce, Replaced, At, Task
  <2>3. next \in Task
    <3>1. task[h].sends + 1 \in 0..2 /\ file.access \in Maybe(Tokens)
      BY <2>1, <2>2 DEF Maybe
    <3>2. QED
      BY <1>0, <3>1 DEF Task
  <2>4. /\ next.at = "sent" /\ next.token = file.access
        /\ next.rejected = task[h].rejected /\ next.served = task[h].served
    BY <1>0 DEF Task
  <2>5. Goto(h, next) /\ UNCHANGED <<file, lock, provider>>
    BY <1>2 DEF Send
  <2> HIDE DEF next
  <2>6. Movable(h, next)
    BY <1>0, <1>2, <2>1, <2>2, <2>4 DEF Movable, At
  <2>7. QED
    BY <2>3, <2>5, <2>6, MoveKeeps
<1>3. QED
  BY <1>1, <1>2

\* The request is over, or is refused for the first time.
LEMMA AnswerKeeps ==
  ASSUME Inv, NEW h \in Handler, NEW kind \in Answers, Answer(h, kind) PROVE Inv'
<1> USE NoneAssumption
<1> DEFINE place == IF Usable(task[h].token) THEN "send" ELSE "lock"
<1>0. task[h] \in Task /\ task[h].at = "sent"
  BY DEF Inv, TypeOK, Answer, At
<1>1. CASE ~(Retries(h, kind) /\ file # None)
  BY <1>0, <1>1, EndKeeps DEF Answer, At
<1>2. CASE Retries(h, kind) /\ file # None
  <2> DEFINE again == [task[h] EXCEPT !.at = place, !.rejected = task[h].token,
                                      !.served = FALSE]
  <2>1. (kind \in Served) = FALSE /\ task[h].sends = 1
    BY <1>2 DEF Retries, Served
  <2>2. /\ place \in {"send", "lock"}
        /\ place = "send" => file.access # task[h].token
    BY DEF Usable
  <2>3. Goto(h, again) /\ UNCHANGED <<file, lock, provider>>
    BY <1>2, <2>1 DEF Answer
  <2> HIDE DEF place
  <2>4. again \in Task
    BY <1>0, <2>2 DEF Task
  <2>5. /\ again.at = place /\ again.sends = 1 /\ again.token = task[h].token
        /\ again.rejected = task[h].token /\ again.served = FALSE
    BY <1>0, <2>1 DEF Task
  <2> HIDE DEF again
  <2>6. Movable(h, again)
    BY <1>0, <2>2, <2>5 DEF Movable, At
  <2>7. QED
    BY <2>3, <2>4, <2>6, MoveKeeps
<1>3. QED
  BY <1>1, <1>2

\* The lock is taken, and with it the file's refresh token.
LEMMA RecheckRefreshKeeps ==
  ASSUME Inv, NEW h \in Handler, RecheckRefresh(h) PROVE Inv'
<1> USE NoneAssumption
<1> DEFINE next == [task[h] EXCEPT !.at = "asking", !.old = file.refresh]
           ask == [by |-> h, refresh |-> file.refresh]
<1>0. /\ task[h] \in Task /\ task[h].at = "lock" /\ lock = None /\ lock' = h
      /\ file # None /\ file.refresh \in Tokens /\ file.refresh \in 1..issued
  BY DEF Inv, TypeOK, RecheckRefresh, At, Maybe, Credentials, Known
<1>1. next \in Task /\ ask \in Ask
  BY <1>0 DEF Task, Maybe, Ask
<1>2. /\ next.at = "asking" /\ next.old = file.refresh /\ next.token = task[h].token
      /\ next.rejected = task[h].rejected /\ next.sends = task[h].sends
      /\ next.served = task[h].served /\ ask.by = h /\ ask.refresh = file.refresh
  BY <1>0 DEF Task
<1>3. /\ task' \in [Handler -> Task] /\ task'[h] = next
      /\ \A g \in Handler : g # h => task'[g] = task[g]
  BY <1>1, StepOfOne DEF Inv, RecheckRefresh
<1>4. UNCHANGED <<file, issued, spent, lost>> /\ asks' = asks \cup {ask}
  BY DEF RecheckRefresh
<1>5. \A g \in Handler : ~At(g, "asking") /\ ~At(g, "save")
  BY <1>0 DEF Inv, Placed
<1> HIDE DEF next, ask
<1>6. TypeOK'
  BY <1>0, <1>1, <1>3, <1>4 DEF Inv, TypeOK, Maybe
<1>7. Known'
  BY <1>0, <1>2, <1>3, <1>4 DEF Inv, Known, At
<1>8. Placed'
  BY <1>0, <1>2, <1>3, <1>5 DEF Inv, Placed, At
<1>9. Presented'
  <2>1. \A q \in asks : q.by = None
    BY <1>5 DEF Inv, Presented, TypeOK, Ask, Maybe
  <2>2. QED
    BY <1>2, <1>3, <1>4, <2>1 DEF Presented, At
<1>10. Unspent' /\ Secret'
  BY <1>0, <1>2, <1>3, <1>4, <1>5 DEF Inv, Unspent, Secret, LoginStaysUsable, At
<1>11. Replaced' /\ ServedOnce' /\ RetryIsFresh'
  BY <1>0, <1>2, <1>3, <1>4 DEF Inv, Replaced, ServedOnce, RetryIsFresh, At
<1>12. LoginStaysUsable'
  BY <1>0, <1>4 DEF Inv, LoginStaysUsable
<1>13. QED
  BY <1>6, <1>7, <1>8, <1>9, <1>10, <1>11, <1>12 DEF Inv

\* The new credentials take the place of the old ones.
LEMMA SaveKeeps == ASSUME Inv, NEW h \in Handler, Save(h) PROVE Inv'
<1> USE NoneAssumption
<1> DEFINE next == [task[h] EXCEPT !.at = "send", !.old = None, !.new = None]
           new == task[h].new
<1>0. /\ task[h] \in Task /\ task[h].at = "save" /\ lock' = None
      /\ new \in Credentials /\ new # None
  BY DEF Inv, TypeOK, Save, At, Known, Task, Maybe
<1>1. next \in Task
  BY <1>0 DEF Task, Maybe
<1>2. /\ next.at = "send" /\ next.token = task[h].token
      /\ next.rejected = task[h].rejected /\ next.sends = task[h].sends
      /\ next.served = task[h].served
  BY <1>0 DEF Task
<1>3. /\ task' \in [Handler -> Task] /\ task'[h] = next
      /\ \A g \in Handler : g # h => task'[g] = task[g]
  BY <1>1, StepOfOne DEF Inv, Save
<1>4. UNCHANGED <<asks, issued, spent, lost>> /\ file' = new
  BY DEF Save, provider
<1>5. \A g \in Handler : g # h => ~At(g, "asking") /\ ~At(g, "save")
  BY <1>0, OneHolder DEF Inv, At
<1> HIDE DEF next
<1>6. TypeOK'
  BY <1>0, <1>3, <1>4 DEF Inv, TypeOK, Maybe
<1>7. Known'
  BY <1>0, <1>2, <1>3, <1>4 DEF Inv, Known, At
<1>8. Placed'
  BY <1>0, <1>2, <1>3, <1>5 DEF Inv, Placed, At
<1>9. Presented'
  BY <1>0, <1>3, <1>4, <1>5 DEF Inv, Presented, At, TypeOK, Ask, Maybe
<1>10. Unspent' /\ Secret'
  BY <1>2, <1>3, <1>5 DEF Unspent, Secret, At
<1>11. Replaced'
  BY <1>0, <1>2, <1>3, <1>4 DEF Inv, Replaced, Secret, At
<1>12. ServedOnce' /\ RetryIsFresh'
  BY <1>0, <1>2, <1>3 DEF Inv, ServedOnce, RetryIsFresh, At
<1>13. LoginStaysUsable'
  BY <1>0, <1>4 DEF Inv, LoginStaysUsable, Unspent, At
<1>14. QED
  BY <1>6, <1>7, <1>8, <1>9, <1>10, <1>11, <1>12, <1>13 DEF Inv

\* The new credentials are lost.
LEMMA SaveFailKeeps == ASSUME Inv, NEW h \in Handler, SaveFail(h) PROVE Inv'
<1>1. UNCHANGED <<file, issued, spent, asks>> /\ lost' = lost \cup Unsaved(h)
  BY DEF SaveFail
<1>2. At(h, "save") /\ \A q \in asks : q.by # h
  BY NoneAssumption DEF SaveFail, Inv, Presented, At, TypeOK, Ask, Maybe
<1>3. issued \in Tokens /\ issued <= issued /\ spent \in SUBSET Tokens
  BY BoundAssumption DEF Inv, TypeOK, Tokens
<1>4. lost' \in SUBSET Tokens /\ lost \subseteq lost'
  BY <1>1, <1>3 DEF Inv, TypeOK, Unsaved
<1>5. At(h, "save") /\ task[h].old \in spent => task[h].old \in lost'
  BY <1>1 DEF Unsaved
<1>6. Finish(h)
  BY DEF SaveFail
<1>7. QED
  BY <1>1, <1>2, <1>3, <1>4, <1>5, <1>6, FinishKeeps

-----------------------------------------------------------------------------
(* The identity provider.                                                  *)

\* The answer with the new credentials arrives.
LEMMA ArrivingKeeps ==
  ASSUME Inv, NEW q \in asks, NEW rotate \in BOOLEAN, Exchange(q, rotate, TRUE)
  PROVE  Inv'
<1> USE NoneAssumption
<1> DEFINE h == q.by
           fresh == IF rotate THEN issued + 1 ELSE q.refresh
           new == [access |-> issued + 1, refresh |-> fresh, expired |-> FALSE]
           next == [task[h] EXCEPT !.at = "save", !.new = new]
<1>0. /\ h \in Handler /\ h # None /\ task[h] \in Task
      /\ task[h].at = "asking" /\ task[h].old = q.refresh
  BY DEF Inv, TypeOK, Exchange, Awaited, Ask, Maybe, Presented, At
<1>1. /\ issued \in Nat /\ issued + 1 \in Tokens /\ issued + 1 \notin 1..issued
      /\ 1..issued \subseteq 1..(issued + 1) /\ issued + 1 \in 1..(issued + 1)
  BY BoundAssumption DEF Inv, TypeOK, Tokens, Exchange
<1>2. q.refresh \in 1..issued /\ q.refresh \in Tokens /\ q.refresh \notin spent
  BY DEF Inv, TypeOK, Known, Ask, Exchange
<1>3. fresh \in Tokens /\ fresh \in 1..(issued + 1) /\ fresh \notin spent'
  <2>1. CASE rotate
    BY <1>1, <1>2, <2>1 DEF Inv, Known, Exchange
  <2>2. CASE ~rotate
    BY <1>1, <1>2, <2>2 DEF Exchange
  <2>3. QED
    BY <2>1, <2>2
<1>4. /\ UNCHANGED <<file, lock, lost>>
      /\ issued' = issued + 1 /\ asks' = asks \ {q} /\ Goto(h, next)
      /\ spent \subseteq spent' /\ spent' \subseteq spent \cup {q.refresh}
  BY DEF Exchange
<1> HIDE DEF fresh
<1>5. new \in Credentials /\ new # None
  <2>1. new \in Credentials
    BY <1>1, <1>3 DEF Credentials, Maybe
  <2>2. QED
    BY <2>1
<1>6. next \in Task
  BY <1>0, <1>5 DEF Task, Maybe
<1>7. /\ next.at = "save" /\ next.token = task[h].token /\ next.old = q.refresh
      /\ next.rejected = task[h].rejected /\ next.sends = task[h].sends
      /\ next.served = task[h].served /\ next.new = new
      /\ new.access = issued + 1 /\ new.refresh = fresh
  BY <1>0 DEF Task
<1> HIDE DEF h, new, next
<1>8. /\ task' \in [Handler -> Task] /\ task'[h] = next
      /\ \A g \in Handler : g # h => task'[g] = task[g]
  BY <1>0, <1>4, <1>6, StepOfOne DEF Inv
<1>9. lock = h /\ \A g \in Handler : g # h => ~At(g, "asking") /\ ~At(g, "save")
  BY <1>0, OneHolder DEF Inv, At, Placed
<1>10. TypeOK'
  <2>1. spent' \in SUBSET Tokens
    BY <1>2, <1>4 DEF Inv, TypeOK
  <2>2. QED
    BY <1>1, <1>4, <1>8, <2>1 DEF Inv, TypeOK
<1>11. Known'
  <2>1. spent' \subseteq 1..issued
    BY <1>2, <1>4 DEF Inv, Known
  <2>2. QED
    BY <1>0, <1>1, <1>2, <1>3, <1>4, <1>5, <1>7, <1>8, <2>1 DEF Inv, Known, At
<1>12. Placed'
  BY <1>0, <1>4, <1>7, <1>8 DEF Inv, Placed, At
<1>13. Presented'
  <2> SUFFICES ASSUME NEW p \in asks', p.by # None PROVE FALSE
    BY DEF Presented
  <2>1. p \in asks /\ p # q /\ p \in Ask /\ q \in Ask /\ p.by \in Handler
    BY <1>4 DEF Inv, TypeOK, Ask, Maybe
  <2>2. p.by = h /\ p.refresh = q.refresh
    BY <1>0, <1>9, <2>1 DEF Inv, Presented
  <2>3. QED
    BY <2>1, <2>2 DEF Ask, h
<1>14. Unspent'
  BY <1>0, <1>3, <1>4, <1>7, <1>8, <1>9 DEF Unspent, At
<1>15. Secret'
  <2>1. /\ file # None => file.access # issued + 1
        /\ \A g \in Handler : task[g].token # issued + 1 /\ task[g].rejected # issued + 1
    BY <1>1 DEF Inv, Known
  <2>2. QED
    BY <1>0, <1>4, <1>7, <1>8, <1>9, <2>1 DEF Secret, At
<1>16. Replaced' /\ ServedOnce' /\ RetryIsFresh'
  BY <1>0, <1>4, <1>7, <1>8 DEF Inv, Replaced, ServedOnce, RetryIsFresh, At
<1>17. LoginStaysUsable'
  BY <1>0, <1>4, <1>7, <1>8, <1>9 DEF Inv, LoginStaysUsable, At
<1>18. QED
  BY <1>10, <1>11, <1>12, <1>13, <1>14, <1>15, <1>16, <1>17 DEF Inv

\* Nobody is there any more to give up: only the provider's side changes.
LEMMA OrphanKeeps ==
  ASSUME Inv, UNCHANGED <<file, lock, task>>,
         issued' \in Tokens, issued <= issued',
         lost' \in SUBSET Tokens, lost \subseteq lost',
         spent' \subseteq spent \cup (lost' \cap 1..issued), asks' \subseteq asks
  PROVE  Inv'
<1> USE NoneAssumption
<1>0. 1..issued \subseteq 1..issued' /\ 1..issued \subseteq Tokens
  BY BoundAssumption DEF Inv, TypeOK, Tokens
<1>1. UNCHANGED <<file, lock, task>>
  OBVIOUS
<1>2. TypeOK'
  BY <1>0, <1>1 DEF Inv, TypeOK
<1>3. Known'
  <2>1. spent' \subseteq 1..issued
    BY DEF Inv, Known
  <2>2. QED
    BY <1>0, <1>1, <2>1 DEF Inv, Known, At
<1>4. Placed' /\ Presented' /\ Unspent' /\ Secret' /\ Replaced'
  BY <1>1 DEF Inv, Placed, Presented, Unspent, Secret, Replaced, At
<1>5. ServedOnce' /\ RetryIsFresh' /\ LoginStaysUsable'
  BY <1>1 DEF Inv, ServedOnce, RetryIsFresh, LoginStaysUsable, At
<1>6. QED
  BY <1>2, <1>3, <1>4, <1>5 DEF Inv

\* The token is replaced, and the answer is lost.
LEMMA LostKeeps ==
  ASSUME Inv, NEW q \in asks, NEW rotate \in BOOLEAN, Exchange(q, rotate, FALSE)
  PROVE  Inv'
<1> USE NoneAssumption
<1>1. q \in Ask /\ q.refresh \in 1..issued /\ q.refresh \in Tokens
  BY DEF Inv, TypeOK, Known, Ask
<1>2. issued' \in Tokens /\ issued <= issued' /\ UNCHANGED file
  BY BoundAssumption DEF Inv, TypeOK, Tokens, Exchange
<1>3. /\ lost' = (IF rotate THEN lost \cup {q.refresh} ELSE lost)
      /\ spent' = (IF rotate THEN spent \cup {q.refresh} ELSE spent)
      /\ asks' = asks \ {q}
  BY DEF Exchange
<1>4. lost' \in SUBSET Tokens /\ lost \subseteq lost'
  BY <1>1, <1>3 DEF Inv, TypeOK
<1>5. spent' \subseteq spent \cup (lost' \cap 1..issued)
  BY <1>1, <1>3
<1>6. CASE Awaited(q)
  <2>1. q.by \in Handler /\ At(q.by, "asking") /\ ~At(q.by, "save")
    BY <1>1, <1>6 DEF Inv, Presented, Awaited, Ask, Maybe, At
  <2>2. Finish(q.by)
    BY <1>6 DEF Exchange
  <2>3. \A p \in asks' : p \in asks /\ p.by # q.by
    BY <1>1, <1>3, <2>1 DEF Inv, TypeOK, Presented, Ask
  <2>4. QED
    BY <1>2, <1>4, <1>5, <2>1, <2>2, <2>3, FinishKeeps
<1>7. CASE ~Awaited(q)
  <2>1. UNCHANGED <<lock, task>>
    BY <1>7 DEF Exchange
  <2>2. QED
    BY <1>2, <1>3, <1>4, <1>5, <2>1, OrphanKeeps
<1>8. QED
  BY <1>6, <1>7

LEMMA ExchangeKeeps ==
  ASSUME Inv, NEW q \in asks, NEW rotate \in BOOLEAN, NEW arrives \in BOOLEAN,
         Exchange(q, rotate, arrives)
  PROVE  Inv'
BY ArrivingKeeps, LostKeeps

\* The token is not replaced.
LEMMA RefusalKeeps == ASSUME Inv, NEW q \in asks, Refusal(q) PROVE Inv'
<1> USE NoneAssumption
<1>1. q \in Ask /\ issued \in Tokens /\ issued <= issued /\ lost \in SUBSET Tokens
  BY BoundAssumption DEF Inv, TypeOK, Tokens
<1>2. UNCHANGED <<file, issued, spent, lost>> /\ asks' = asks \ {q}
  BY DEF Refusal
<1>3. CASE Awaited(q)
  <2>1. q.by \in Handler /\ At(q.by, "asking") /\ ~At(q.by, "save")
    BY <1>1, <1>3 DEF Inv, Presented, Awaited, Ask, Maybe, At
  <2>2. Finish(q.by)
    BY <1>3 DEF Refusal
  <2>3. \A p \in asks' : p \in asks /\ p.by # q.by
    BY <1>1, <1>2, <2>1 DEF Inv, TypeOK, Presented, Ask
  <2>4. QED
    BY <1>1, <1>2, <2>1, <2>2, <2>3, FinishKeeps
<1>4. CASE ~Awaited(q)
  <2>1. UNCHANGED <<lock, task>>
    BY <1>4 DEF Refusal
  <2>2. QED
    BY <1>1, <1>2, <2>1, OrphanKeeps
<1>5. QED
  BY <1>3, <1>4
-----------------------------------------------------------------------------
(* The surroundings.                                                       *)

\* A login brings a token nobody has seen.
LEMMA LoginKeeps ==
  ASSUME Inv, NEW refreshable \in BOOLEAN, Login(refreshable) PROVE Inv'
<1> USE NoneAssumption
<1> DEFINE fresh == IF refreshable THEN issued + 1 ELSE None
           new == [access |-> issued + 1, refresh |-> fresh, expired |-> FALSE]
<1>1. /\ issued \in Nat /\ issued + 1 \in Tokens /\ issued + 1 \notin 1..issued
      /\ 1..issued \subseteq 1..(issued + 1) /\ issued + 1 \in 1..(issued + 1)
  BY BoundAssumption DEF Inv, TypeOK, Tokens, Login
<1>2. /\ fresh \in Maybe(Tokens) /\ fresh \notin spent
      /\ fresh # None => fresh \in 1..(issued + 1)
  <2>0. spent \subseteq 1..issued
    BY DEF Inv, Known
  <2>1. issued + 1 \notin spent /\ None \notin spent
    <3>1. issued + 1 \notin spent
      BY <1>1, <2>0
    <3>2. \A n \in spent : n \in Nat
      BY <2>0
    <3>3. QED
      BY <3>1, <3>2
  <2>2. fresh \in {None, issued + 1}
    OBVIOUS
  <2>3. QED
    BY <1>1, <2>1, <2>2 DEF Maybe
<1>3. /\ file' = new /\ issued' = issued + 1
      /\ UNCHANGED <<lock, task, asks, spent, lost>>
  BY DEF Login
<1>4. new.access = issued + 1 /\ new.refresh = fresh
  OBVIOUS
<1>5. new \in Credentials
  BY <1>1, <1>2 DEF Credentials
<1> HIDE DEF new, fresh
<1>6. TypeOK'
  BY <1>1, <1>3, <1>5 DEF Inv, TypeOK, Maybe
<1>7. Known'
  BY <1>1, <1>2, <1>3, <1>4 DEF Inv, Known, At
<1>8. Placed' /\ Presented' /\ Unspent'
  BY <1>3 DEF Inv, Placed, Presented, Unspent, At
<1>9. Secret'
  BY <1>1, <1>3, <1>4 DEF Inv, Secret, Known, At
<1>10. Replaced'
  BY <1>1, <1>3, <1>4 DEF Inv, Replaced, Known, At
<1>11. ServedOnce' /\ RetryIsFresh'
  BY <1>3 DEF Inv, ServedOnce, RetryIsFresh, At
<1>12. LoginStaysUsable'
  BY <1>2, <1>3, <1>4 DEF LoginStaysUsable
<1>13. QED
  BY <1>6, <1>7, <1>8, <1>9, <1>10, <1>11, <1>12 DEF Inv

\* A logout takes the file away.
LEMMA LogoutKeeps == ASSUME Inv, Logout PROVE Inv'
<1>1. file' = None /\ UNCHANGED <<lock, task, asks, issued, spent, lost>>
  BY DEF Logout, provider
<1>2. TypeOK'
  BY <1>1 DEF Inv, TypeOK, Maybe
<1>3. Known' /\ Placed' /\ Presented' /\ Unspent' /\ Secret' /\ Replaced'
  BY <1>1 DEF Inv, Known, Placed, Presented, Unspent, Secret, Replaced, At
<1>4. ServedOnce' /\ RetryIsFresh' /\ LoginStaysUsable'
  BY <1>1 DEF Inv, ServedOnce, RetryIsFresh, LoginStaysUsable, At
<1>5. QED
  BY <1>2, <1>3, <1>4 DEF Inv

\* Time changes nothing that the invariant speaks of.
LEMMA ExpireKeeps == ASSUME Inv, Expire PROVE Inv'
<1> DEFINE new == [file EXCEPT !.expired = TRUE]
<1>1. file # None /\ file \in Credentials
  BY DEF Inv, TypeOK, Expire, Maybe
<1>2. new \in Credentials /\ new.access = file.access /\ new.refresh = file.refresh
  BY <1>1 DEF Credentials
<1>3. file' = new /\ UNCHANGED <<lock, task, asks, issued, spent, lost>>
  BY DEF Expire, provider
<1> HIDE DEF new
<1>4. TypeOK'
  BY <1>2, <1>3 DEF Inv, TypeOK, Maybe
<1>5. Known' /\ Placed' /\ Presented' /\ Unspent' /\ Secret' /\ Replaced'
  BY <1>1, <1>2, <1>3
     DEF Inv, Known, Placed, Presented, Unspent, Secret, Replaced, At
<1>6. ServedOnce' /\ RetryIsFresh' /\ LoginStaysUsable'
  BY <1>1, <1>2, <1>3 DEF Inv, ServedOnce, RetryIsFresh, LoginStaysUsable, At
<1>7. QED
  BY <1>4, <1>5, <1>6 DEF Inv

\* No step, no change.
LEMMA StutterKeeps == ASSUME Inv, UNCHANGED vars PROVE Inv'
<1>1. UNCHANGED <<file, lock, task, asks, issued, spent, lost>>
  BY DEF vars, provider
<1>2. TypeOK'
  BY <1>1 DEF Inv, TypeOK
<1>3. Known' /\ Placed' /\ Presented' /\ Unspent' /\ Secret' /\ Replaced'
  BY <1>1 DEF Inv, Known, Placed, Presented, Unspent, Secret, Replaced, At
<1>4. ServedOnce' /\ RetryIsFresh' /\ LoginStaysUsable'
  BY <1>1 DEF Inv, ServedOnce, RetryIsFresh, LoginStaysUsable, At
<1>5. QED
  BY <1>2, <1>3, <1>4 DEF Inv

\* A killed process leaves its question to the provider behind.
LEMMA DieKeeps == ASSUME Inv, NEW h \in Handler, Die(h) PROVE Inv'
<1>1. UNCHANGED <<file, issued, spent>> /\ lost' = lost \cup Unsaved(h) /\ Finish(h)
  BY DEF Die
<1>2. issued \in Tokens /\ issued <= issued /\ spent \in SUBSET Tokens
  BY BoundAssumption DEF Inv, TypeOK, Tokens
<1>3. lost' \in SUBSET Tokens /\ lost \subseteq lost'
  BY <1>1, <1>2 DEF Inv, TypeOK, Unsaved
<1>4. At(h, "save") /\ task[h].old \in spent => task[h].old \in lost'
  BY <1>1 DEF Unsaved
<1>5. \A q \in asks' : \/ q \in asks /\ q.by # h
                       \/ q \in Ask /\ q.by = None /\ q.refresh \in 1..issued
  BY DEF Die, Inv, TypeOK, Known, Ask, Maybe
<1>6. QED
  BY <1>1, <1>2, <1>3, <1>4, <1>5, FinishKeeps

-----------------------------------------------------------------------------
\* No step of anybody disturbs the invariant.
LEMMA NextKeeps == Inv /\ [Next]_vars => Inv'
<1> SUFFICES ASSUME Inv, [Next]_vars PROVE Inv'
  OBVIOUS
<1>1. ASSUME NEW h \in Handler, Arrive(h) \/ HandlerStep(h) \/ Die(h) PROVE Inv'
  BY <1>1, ArriveKeeps, RecheckReuseKeeps, RecheckRefreshKeeps, RecheckFailKeeps,
     SaveKeeps, SaveFailKeeps, SendKeeps, AnswerKeeps, DieKeeps DEF HandlerStep
<1>2. ASSUME NEW q \in asks, ProviderStep(q) PROVE Inv'
  BY <1>2, ExchangeKeeps, RefusalKeeps DEF ProviderStep
<1>3. QED
  BY <1>1, <1>2, LoginKeeps, LogoutKeeps, ExpireKeeps, StutterKeeps DEF Next

\* In every state a run of the proxies and the CLI can reach, the file, the
\* lock, the handlers and the provider agree about every token.
THEOREM InvariantHolds == Spec => []Inv
BY InitHolds, NextKeeps, PTL DEF Spec

\* The variables keep their types (StoredCredentials and the states of
\* proxy_handler and refresh_credentials_from_path).
THEOREM TypeCorrect == Spec => []TypeOK
BY InvariantHolds, PTL DEF Inv

\* A request that the model provider may have carried out is never sent again
\* (proxy_handler retries only what is_fence_auth_rejection accepts).
THEOREM NothingIsServedTwice == Spec => []ServedOnce
BY InvariantHolds, PTL DEF Inv

\* A retry never carries the token that has just been refused, whichever
\* process wrote the file between the refusal and the retry.
THEOREM EveryRetryIsFresh == Spec => []RetryIsFresh
BY InvariantHolds, PTL DEF Inv

\* refresh_credentials_from_path never presents a replaced refresh token whose
\* replacement somebody has saved.
THEOREM RotationIsRespected == Spec => []PresentedIsUnspent
<1>1. Inv => PresentedIsUnspent
  BY DEF Inv, Presented, Unspent, PresentedIsUnspent, TypeOK, Ask, Maybe
<1>2. QED
  BY <1>1, InvariantHolds, PTL

\* The file never keeps a replaced refresh token beyond the save of its
\* replacement, unless that replacement was lost.
THEOREM LoginsStayUsable == Spec => []LoginStaysUsable
BY InvariantHolds, PTL DEF Inv
=============================================================================
