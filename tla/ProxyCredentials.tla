--------------------------- MODULE ProxyCredentials ---------------------------
(***************************************************************************)
(* The OIDC credentials of src/auth.rs and the HTTP requests of            *)
(* src/proxy.rs that use them.  Every local proxy, and every CLI, shares   *)
(* one credentials file.  A request makes sure the credentials are fresh,  *)
(* goes to the fence with the token then in the file, and is sent once     *)
(* more with another token if the fence refuses the first one.  Whoever    *)
(* refreshes holds .credentials.json.refresh.lock meanwhile; login and     *)
(* logout write the file without it.                                       *)
(*                                                                         *)
(* Tokens are numbers in the order of their issue.  A handler is a request *)
(* in a process of its own; flock keeps handlers of one process apart as   *)
(* it does those of two.                                                   *)
(***************************************************************************)
EXTENDS Naturals

CONSTANTS
  Handler,    \* requests served at a time
  MaxIssued,  \* bound on the tokens ever issued
  None

ASSUME BoundAssumption == MaxIssued \in Nat \ {0}

VARIABLES
  file,     \* credentials.json
  lock,     \* the holder of the refresh lock
  task,     \* where each handler is
  asks,     \* refresh requests on their way to the provider
  issued,   \* tokens issued so far
  spent,    \* refresh tokens the provider has replaced
  lost      \* replaced ones whose replacement never reached the file

provider == <<issued, spent, lost, asks>>
vars == <<file, lock, task, provider>>

Tokens == 1..MaxIssued
Maybe(S) == S \cup {None}

\* expired: expires_at is less than a minute away, or past.
Credentials == [access : Tokens, refresh : Maybe(Tokens), expired : BOOLEAN]

ASSUME NoneAssumption ==
  None \notin Handler /\ None \notin Nat /\ None \notin Credentials

\* rejected: the token the fence refused; token: the one last sent;
\* sends: how often the request was sent; served: it has been carried out;
\* old: the refresh token presented; new: the provider's answer to it.
Task == [at : {"idle", "lock", "asking", "save", "send", "sent"},
         rejected : Maybe(Tokens), token : Maybe(Tokens), sends : 0..2,
         served : BOOLEAN, old : Maybe(Tokens), new : Maybe(Credentials)]
Idle == [at |-> "idle", rejected |-> None, token |-> None, sends |-> 0,
         served |-> FALSE, old |-> None, new |-> None]

\* A request whose sender is gone has no sender.
Ask == [by : Maybe(Handler), refresh : Tokens]

TypeOK ==
  /\ file \in Maybe(Credentials)
  /\ lock \in Maybe(Handler)
  /\ task \in [Handler -> Task]
  /\ asks \in SUBSET Ask
  /\ issued \in Tokens
  /\ spent \in SUBSET Tokens
  /\ lost \in SUBSET Tokens

\* Somebody has logged in.
Init ==
  /\ file = [access |-> 1, refresh |-> 1, expired |-> FALSE]
  /\ lock = None
  /\ task = [h \in Handler |-> Idle]
  /\ asks = {}
  /\ issued = 1
  /\ spent = {}
  /\ lost = {}

-----------------------------------------------------------------------------
(* One request.                                                            *)

At(h, place) == task[h].at = place

Goto(h, next) == task' = [task EXCEPT ![h] = next]

\* Mutant of Unlocked: a request that fails keeps the lock.
StillLocked(h) == lock

\* The client gets an answer; the lock, if held, goes.
Unlocked(h) == IF lock = h THEN None ELSE lock
Finish(h) == Goto(h, Idle) /\ lock' = Unlocked(h)

\* The credentials in the file can be used, though `rejected` was refused.
Usable(rejected) == file.access # rejected /\ ~file.expired

\* ensure_fresh_oidc, up to the lock.
Arrive(h) ==
  /\ At(h, "idle")
  /\ file # None
  /\ Goto(h, [Idle EXCEPT !.at = IF Usable(None) THEN "send" ELSE "lock"])
  /\ UNCHANGED <<file, lock, provider>>

\* Under the lock the file is read again.  Another process has refreshed it,
RecheckReuse(h) ==
  /\ At(h, "lock") /\ lock = None
  /\ file # None /\ Usable(task[h].rejected)
  /\ Goto(h, [task[h] EXCEPT !.at = "send"])
  /\ UNCHANGED <<file, lock, provider>>

\* Mutant of RecheckRefresh: the guard of the lock is dropped at once.
RefreshUnlocked(h) ==
  /\ At(h, "lock") /\ lock = None
  /\ file # None /\ ~Usable(task[h].rejected) /\ file.refresh # None
  /\ Goto(h, [task[h] EXCEPT !.at = "asking", !.old = file.refresh])
  /\ asks' = asks \cup {[by |-> h, refresh |-> file.refresh]}
  /\ UNCHANGED <<file, lock, issued, spent, lost>>

\* or this one has to, and keeps the lock,
RecheckRefresh(h) ==
  /\ At(h, "lock") /\ lock = None
  /\ file # None /\ ~Usable(task[h].rejected) /\ file.refresh # None
  /\ lock' = h
  /\ Goto(h, [task[h] EXCEPT !.at = "asking", !.old = file.refresh])
  /\ asks' = asks \cup {[by |-> h, refresh |-> file.refresh]}
  /\ UNCHANGED <<file, issued, spent, lost>>

\* or cannot.
RecheckFail(h) ==
  /\ At(h, "lock") /\ lock = None
  /\ file # None => ~Usable(task[h].rejected) /\ file.refresh = None
  /\ Goto(h, Idle)
  /\ UNCHANGED <<file, lock, provider>>

\* Mutant of Save: the old refresh token is kept.
SaveAccess(h) ==
  /\ At(h, "save")
  /\ file' = [task[h].new EXCEPT !.refresh = task[h].old]
  /\ lock' = None
  /\ Goto(h, [task[h] EXCEPT !.at = "send", !.old = None, !.new = None])
  /\ UNCHANGED <<provider>>

\* The answer is saved in one rename.
Save(h) ==
  /\ At(h, "save")
  /\ file' = task[h].new
  /\ lock' = None
  /\ Goto(h, [task[h] EXCEPT !.at = "send", !.old = None, !.new = None])
  /\ UNCHANGED <<provider>>

\* What the holder of the lock gives up when it stops in the middle.
Unsaved(h) == IF At(h, "save") THEN {task[h].old} \cap spent ELSE {}

SaveFail(h) ==
  /\ At(h, "save")
  /\ lost' = lost \cup Unsaved(h)
  /\ Finish(h)
  /\ UNCHANGED <<file, issued, spent, asks>>

\* Mutant of Send: the retry carries the headers of the first attempt.
SendAgain(h) ==
  /\ At(h, "send")
  /\ IF file = None
     THEN Goto(h, Idle)
     ELSE Goto(h, [task[h] EXCEPT !.at = "sent", !.sends = task[h].sends + 1,
            !.token = IF task[h].sends = 0 THEN file.access ELSE task[h].token])
  /\ UNCHANGED <<file, lock, provider>>

\* The request leaves with the token that is in the file now.
Send(h) ==
  /\ At(h, "send")
  /\ IF file = None
     THEN Goto(h, Idle)
     ELSE Goto(h, [task[h] EXCEPT !.at = "sent", !.sends = task[h].sends + 1,
                                  !.token = file.access])
  /\ UNCHANGED <<file, lock, provider>>

\* Mutant of Retries: any 401 is taken for the fence's.
RetriesAny(h, kind) ==
  kind \in {"fence_401", "provider_401"} /\ task[h].sends = 1

\* Mutant of Retries: as often as the fence refuses.
RetriesOn(h, kind) == kind = "fence_401"

\* Only the fence's own refusal is retried, and once.
Retries(h, kind) == kind = "fence_401" /\ task[h].sends = 1

\* The fence refuses the token, whatever its reason, or passes the request on
\* to the model provider; an answer may be lost on either side of that.
Served == {"ok", "provider_401", "lost_late"}
Answers == Served \cup {"fence_401", "lost_early"}

\* The request is over; or, refused, it looks at the file again
\* (refresh_rejected_oidc, up to the lock).
Answer(h, kind) ==
  /\ At(h, "sent")
  /\ Goto(h, IF Retries(h, kind) /\ file # None
             THEN [task[h] EXCEPT !.at = IF Usable(task[h].token) THEN "send" ELSE "lock",
                                  !.rejected = task[h].token,
                                  !.served = kind \in Served]
             ELSE Idle)
  /\ UNCHANGED <<file, lock, provider>>

-----------------------------------------------------------------------------
(* The identity provider.                                                  *)

\* Who gets the answer to q: its sender, if it is still there.
Awaited(q) == q.by # None

\* A token is replaced, with a new refresh token or without; the answer
\* arrives or is lost.
Exchange(q, rotate, arrives) ==
  LET next == [access |-> issued + 1,
               refresh |-> IF rotate THEN issued + 1 ELSE q.refresh,
               expired |-> FALSE]
  IN
  /\ q \in asks /\ q.refresh \notin spent /\ issued < MaxIssued
  /\ arrives => Awaited(q)
  /\ asks' = asks \ {q}
  /\ issued' = issued + 1
  /\ spent' = IF rotate THEN spent \cup {q.refresh} ELSE spent
  /\ IF arrives
     THEN /\ Goto(q.by, [task[q.by] EXCEPT !.at = "save", !.new = next])
          /\ UNCHANGED <<lock, lost>>
     ELSE /\ lost' = IF rotate THEN lost \cup {q.refresh} ELSE lost
          /\ IF Awaited(q) THEN Finish(q.by) ELSE UNCHANGED <<lock, task>>
  /\ UNCHANGED <<file>>

\* The token is not accepted, the answer is useless, or nothing answers.
Refusal(q) ==
  /\ q \in asks
  /\ asks' = asks \ {q}
  /\ IF Awaited(q) THEN Finish(q.by) ELSE UNCHANGED <<lock, task>>
  /\ UNCHANGED <<file, issued, spent, lost>>

-----------------------------------------------------------------------------
(* The surroundings.                                                       *)

\* device_auth_login and save_credentials; the provider may give no refresh
\* token.
Login(refreshable) ==
  /\ issued < MaxIssued
  /\ issued' = issued + 1
  /\ file' = [access |-> issued + 1,
              refresh |-> IF refreshable THEN issued + 1 ELSE None,
              expired |-> FALSE]
  /\ UNCHANGED <<lock, task, asks, spent, lost>>

\* delete_credentials
Logout ==
  /\ file # None
  /\ file' = None
  /\ UNCHANGED <<lock, task, provider>>

\* A token that expires on its way to the file does so right after the save.
Expire ==
  /\ file # None /\ ~file.expired
  /\ file' = [file EXCEPT !.expired = TRUE]
  /\ UNCHANGED <<lock, task, provider>>

\* The process is killed; what it asked the provider is still on its way.
Die(h) ==
  /\ ~At(h, "idle")
  /\ asks' = {[by |-> None, refresh |-> q.refresh] : q \in {p \in asks : p.by = h}}
             \cup {p \in asks : p.by # h}
  /\ lost' = lost \cup Unsaved(h)
  /\ Finish(h)
  /\ UNCHANGED <<file, issued, spent>>

-----------------------------------------------------------------------------
HandlerStep(h) ==
  \/ RecheckReuse(h) \/ RecheckRefresh(h) \/ RecheckFail(h)
  \/ Save(h) \/ SaveFail(h) \/ Send(h)
  \/ \E kind \in Answers : Answer(h, kind)

ProviderStep(q) ==
  \/ \E rotate, arrives \in BOOLEAN : Exchange(q, rotate, arrives)
  \/ Refusal(q)

Next ==
  \/ \E h \in Handler : Arrive(h) \/ HandlerStep(h) \/ Die(h)
  \/ \E q \in asks : ProviderStep(q)
  \/ \E refreshable \in BOOLEAN : Login(refreshable)
  \/ Logout \/ Expire

Spec == Init /\ [][Next]_vars

\* A request that has arrived is worked on; connections end one way or the
\* other; the lock, free again and again, is got in the end.
Fairness ==
  /\ \A h \in Handler :
       /\ WF_vars(HandlerStep(h))
       /\ SF_vars(RecheckReuse(h) \/ RecheckRefresh(h) \/ RecheckFail(h))
  /\ \A h \in Handler : WF_vars(\E q \in asks : q.by = h /\ ProviderStep(q))

FairSpec == Spec /\ Fairness

-----------------------------------------------------------------------------
(* Properties.                                                             *)

\* "an invalid provider credential cannot duplicate a request" (proxy.rs):
\* whatever is refused, lost or refreshed meanwhile, a request that has been
\* carried out is not sent again.
ServedOnce == \A h \in Handler : ~At(h, "idle") => ~task[h].served

\* A retry never carries the token the fence has just refused, whoever wrote
\* the file in between (proxy_handler's second build of the headers).
RetryIsFresh ==
  \A h \in Handler : At(h, "sent") /\ task[h].sends = 2
                     => task[h].token # task[h].rejected

\* "reuse the replacement instead of spending or invalidating the rotated
\* refresh token" (auth.rs): a replaced refresh token is only presented again
\* if its replacement was lost in a crash or on the network.
PresentedIsUnspent ==
  \A q \in asks : q.by # None /\ q.refresh \in spent => q.refresh \in lost

\* A login can be refreshed as long as no answer of the provider is lost: the
\* file never keeps a replaced refresh token, except while its replacement is
\* about to be saved.
LoginStaysUsable ==
  file # None /\ file.refresh \in spent =>
    \/ file.refresh \in lost
    \/ lock # None /\ At(lock, "save") /\ task[lock].old = file.refresh

\* Every request is answered, however many others refresh at the same time.
RequestIsAnswered == \A h \in Handler : ~At(h, "idle") ~> At(h, "idle")
=============================================================================
