------------------------------- MODULE Users -------------------------------
(***************************************************************************)
(* The user manager: accounts, the actions that are confirmed by mail,     *)
(* sessions and fee plans, with their databases and with the fee plans the *)
(* backends are told about.                                                *)
(*                                                                         *)
(* All of it runs on the manager's one thread.  A handler that sends mail  *)
(* is a coroutine and yields until the mail server answers; the others run *)
(* to their end.  One action is the code between two such points.  The     *)
(* database calls are atomic row by row.                                   *)
(*                                                                         *)
(* UsersCache_ is a map with a lock per entry.  changePasswordInitiateImpl *)
(* keeps its entry locked for reading while it waits for the mail server:  *)
(* a handler of the same thread that wants to write the entry then spins   *)
(* for ever.                                                               *)
(***************************************************************************)
EXTENDS Integers, FiniteSets, FiniteSetsExt, Functions

CONSTANTS
    Logins,       \* ordinary logins ("admin" and "observer" are refused everywhere)
    Emails,       \* e-mail addresses
    NoEmail,      \* an account without an address (userCreateForce)
    NoRecord,     \* a mail that no registration waits for
    PlanIds,      \* fee plans an admin may create, besides "default"
    Receivers,    \* sets of logins a fee plan may name
    SmtpModes,    \* values of SMTP.Enabled
    MaxActions,   \* bound: actions created
    MaxSessions,  \* bound: sessions created
    MaxIds,       \* bound: both together, without and with mail
    MaxMails,     \* bound: coroutines waiting for the mail server
    MaxRestarts   \* bound on crashes and restarts

ASSUME UsersAssumptions ==
    /\ NoEmail \notin Emails /\ "default" \notin PlanIds
    /\ SmtpModes \subseteq BOOLEAN /\ Receivers \subseteq SUBSET Logins
    /\ {MaxActions, MaxSessions, MaxMails, MaxRestarts} \subseteq Nat /\ MaxIds \in [BOOLEAN -> Nat]

VARIABLES
    smtp,         \* SMTP.Enabled
    cache,        \* UsersCache_
    db,           \* UsersDb_
    emails,       \* AllEmails_
    actions,      \* ActionsCache_, and UserActionsDb_ with the same rows
    actionOf,     \* LoginActionMap_
    sessions,     \* SessionsCache_, and UserSessionsDb_ with the same rows
    sessionOf,    \* LoginSessionMap_
    plans,        \* FeePlanCache_: plan -> who gets fees, and has it a referral id
    plansDb,      \* UserFeePlanDb_
    referred,     \* ReferralIdMap_: the plans that can be reached by it
    assigned,     \* what the backends are told: login -> fee plan
    mails,        \* the coroutines waiting in sendMail
    lastAction, lastSession, \* ids given so far; ids are random in the code
    thread,       \* "running", "stuck" (waits for its own lock), "down" (exit(1))
    restarts      \* bound: restarts so far

users    == <<cache, db, emails>>
requests == <<actions, actionOf, lastAction>>
logged   == <<sessions, sessionOf, lastSession>>
fees     == <<plans, plansDb, referred, assigned>>
vars     == <<smtp, users, requests, logged, fees, mails, thread, restarts>>

ActionTypes == {"UserActivate", "UserChangePassword", "UserTwoFactorActivate", "UserTwoFactorDeactivate"}
Plans == PlanIds \cup {"default"}

UsersRecord == [email : Emails \cup {NoEmail}, active : BOOLEAN, twofa : BOOLEAN,
                plan : Plans, monitor : BOOLEAN]
UserActionRecord == [login : Logins, type : ActionTypes]
UserSessionRecord == [login : Logins, permanent : BOOLEAN]
FeePlan == [receivers : SUBSET Logins, referral : BOOLEAN]

ASSUME NoRecordAssumption == NoRecord \notin UsersRecord

\* Writing rows and one row, and deleting some.
Over(f, g) == [x \in DOMAIN f \cup DOMAIN g |-> IF x \in DOMAIN f THEN f[x] ELSE g[x]]
With(f, k, v) == Over([x \in {k} |-> v], f)
Without(f, S) == Restrict(f, DOMAIN f \ S)
Empty == [x \in {} |-> x]
EmptyPlan == [receivers |-> {}, referral |-> FALSE]

Init ==
    /\ smtp \in SmtpModes
    /\ cache = Empty /\ db = Empty /\ emails = {}
    /\ actions = Empty /\ actionOf = Empty /\ lastAction = 0
    /\ sessions = Empty /\ sessionOf = Empty /\ lastSession = 0
    /\ plans = With(Empty, "default", EmptyPlan) /\ plansDb = Empty /\ referred = {} /\ assigned = Empty
    /\ mails = {} /\ thread = "running" /\ restarts = 0

----------------------------------------------------------------------------
(* Locks, and the two maps that point to the newest action and session.    *)

Locked(l) == \E m \in mails : m.action.type = "UserChangePassword" /\ m.action.login = l

\* The thread waits for a lock that only it could release.
Stuck(S) ==
    /\ thread = "running"
    /\ \E l \in S : Locked(l)
    /\ thread' = "stuck"
    /\ UNCHANGED <<smtp, users, requests, logged, fees, mails, restarts>>

\* A handler runs and gets the entries S for writing.
Runs(S) == thread = "running" /\ \A l \in S : ~Locked(l)

ActionAdd(id, a) ==
    /\ actionOf' = With(actionOf, a.login, id)
    /\ actions' = With(actions, id, a)

\* Mutant of ActionRemove: the login keeps pointing to the action.
ActionRemoveKeepsLogin(id, l) ==
    /\ actionOf' = actionOf
    /\ actions' = Without(actions, {id})

ActionRemove(id, l) ==
    /\ actionOf' = Without(actionOf, {l})
    /\ actions' = Without(actions, {id})

\* Put the record of login l into the cache and into the database.
Save(l, rec) ==
    /\ cache' = With(cache, l, rec)
    /\ db' = With(db, l, rec)

----------------------------------------------------------------------------
(* Registration, and actions that are confirmed by mail.                   *)

NewRecord(e, active, plan) ==
    [email |-> e, active |-> active, twofa |-> FALSE, plan |-> plan, monitor |-> FALSE]

\* What follows the mail, or all that is left to do without one: actionAdd,
\* and for a registration the record that was prepared before the mail.
Confirm(m) ==
    /\ ActionAdd(m.id, m.action)
    /\ IF m.rec = NoRecord THEN UNCHANGED <<db, emails, assigned>>
       ELSE /\ emails' = emails \cup {m.rec.email}
            /\ db' = With(db, m.action.login, m.rec)
            /\ assigned' = With(assigned, m.action.login, m.rec.plan)

\* Prepare an action and mail its id.  `rec' is the record of a registration.
Request(l, type, rec) ==
    LET m == [id |-> lastAction + 1, action |-> [login |-> l, type |-> type], rec |-> rec]
    IN  /\ lastAction < MaxActions /\ lastAction + lastSession < MaxIds[smtp] /\ lastAction' = lastAction + 1
        /\ IF smtp
           THEN /\ Cardinality(mails) < MaxMails /\ mails' = mails \cup {m}
                /\ UNCHANGED <<db, emails, actions, actionOf, assigned>>
           ELSE Confirm(m) /\ UNCHANGED mails

MailSent(m) ==
    /\ Runs({})
    /\ mails' = mails \ {m}
    /\ Confirm(m)
    /\ UNCHANGED <<smtp, cache, lastAction, logged, plans, plansDb, referred, thread, restarts>>

\* No answer within 16 seconds, or an error: the handler returns.
MailFailed(m) ==
    /\ Runs({})
    /\ mails' = mails \ {m}
    /\ UNCHANGED <<smtp, users, requests, logged, fees, thread, restarts>>

\* userCreateImpl; `plan' comes from a referral id.
UserCreate(l, e, plan) ==
    LET rec == NewRecord(e, FALSE, plan)
    IN  /\ Runs({})
        /\ e \notin emails /\ plan \in referred \cup {"default"}
        /\ l \notin DOMAIN cache
        /\ cache' = With(cache, l, rec)
        /\ Request(l, "UserActivate", rec)
        /\ UNCHANGED <<smtp, logged, plans, plansDb, referred, thread, restarts>>

UserCreateForce(l, e, plan) ==
    /\ Runs({})
    /\ e \notin emails /\ plan \in DOMAIN plans
    /\ l \notin DOMAIN cache
    /\ Save(l, NewRecord(e, TRUE, plan))
    /\ emails' = emails \cup ({e} \ {NoEmail})
    /\ assigned' = With(assigned, l, plan)
    /\ UNCHANGED <<smtp, requests, logged, plans, plansDb, referred, mails, thread, restarts>>

\* resendEmailImpl: drop the action the login points to, whatever its type, and
\* mail a new activation.
ResendEmail(l) ==
    LET old == {actionOf[k] : k \in {l} \cap DOMAIN actionOf}
        m   == [id |-> lastAction + 1, action |-> [login |-> l, type |-> "UserActivate"], rec |-> NoRecord]
    IN  /\ Runs({})
        /\ l \in DOMAIN cache /\ ~cache[l].active
        /\ lastAction < MaxActions /\ lastAction + lastSession < MaxIds[smtp] /\ lastAction' = lastAction + 1
        /\ IF smtp
           THEN /\ Cardinality(mails) < MaxMails /\ mails' = mails \cup {m}
                /\ actions' = Without(actions, old) /\ actionOf' = Without(actionOf, {l})
           ELSE /\ actions' = With(Without(actions, old), m.id, m.action)
                /\ actionOf' = With(actionOf, l, m.id)
                /\ UNCHANGED mails
        /\ UNCHANGED <<smtp, users, logged, fees, thread, restarts>>

\* changePasswordInitiateImpl, activate2faInitiateImpl, deactivate2faInitiateImpl.
Initiate(l, type) ==
    /\ Runs(IF type = "UserChangePassword" THEN {} ELSE {l})
    /\ l \in DOMAIN cache
    /\ type = "UserTwoFactorActivate" => ~cache[l].twofa
    /\ type = "UserTwoFactorDeactivate" => cache[l].twofa
    /\ Request(l, type, NoRecord)
    /\ UNCHANGED <<smtp, cache, logged, plans, plansDb, referred, thread, restarts>>

\* What an action changes in the record; a right code is given for 2FA.
Acted(rec, type) ==
    CASE type = "UserActivate" -> [rec EXCEPT !.active = TRUE]
      [] type = "UserChangePassword" -> rec
      [] type = "UserTwoFactorActivate" -> [rec EXCEPT !.twofa = TRUE]
      [] type = "UserTwoFactorDeactivate" -> [rec EXCEPT !.twofa = FALSE]

\* actionImpl; the record is saved when it was changed, which a new password of
\* the wrong length does not do.
UserAction(id) ==
    LET a == actions[id]
        known == a.login \in DOMAIN cache
        changes == Acted(cache[a.login], a.type) # cache[a.login]
    IN  /\ ActionRemove(id, a.login)
        /\ \/ /\ Runs({a.login}) /\ known
              /\ changes \/ a.type = "UserChangePassword"
              /\ Save(a.login, Acted(cache[a.login], a.type))
           \/ /\ Runs({}) /\ (known => ~changes)
              /\ UNCHANGED <<cache, db>>
        /\ UNCHANGED <<smtp, emails, lastAction, logged, fees, mails, thread, restarts>>

\* userChangePasswordForceImpl and updateCredentialsImpl: password and name are
\* not told apart here, but the cached record is saved.
SaveRecord(l) ==
    /\ Runs({l}) /\ l \in DOMAIN cache
    /\ Save(l, cache[l])
    /\ UNCHANGED <<smtp, emails, requests, logged, fees, mails, thread, restarts>>

----------------------------------------------------------------------------
(* Sessions.                                                               *)

SessionAdd(s) ==
    /\ lastSession < MaxSessions /\ lastAction + lastSession < MaxIds[smtp] /\ lastSession' = lastSession + 1
    /\ sessionOf' = IF s.permanent THEN sessionOf ELSE With(sessionOf, s.login, lastSession')
    /\ sessions' = With(sessions, lastSession', s)

\* Mutant of Login: each login makes a session.
LoginAgain(l) ==
    /\ Runs({})
    /\ l \in DOMAIN cache /\ cache[l].active
    /\ SessionAdd([login |-> l, permanent |-> FALSE])
    /\ UNCHANGED <<smtp, users, requests, fees, mails, thread, restarts>>

\* loginImpl, when there is no session to return.
Login(l) ==
    /\ Runs({})
    /\ l \in DOMAIN cache /\ cache[l].active
    /\ l \notin DOMAIN sessionOf
    /\ SessionAdd([login |-> l, permanent |-> FALSE])
    /\ UNCHANGED <<smtp, users, requests, fees, mails, thread, restarts>>

\* sessionRemove of the sessions S.
SessionRemove(S) ==
    /\ sessionOf' = Without(sessionOf, {sessions[s].login : s \in S})
    /\ sessions' = Without(sessions, S)

Logout(s) ==
    /\ Runs({}) /\ ~sessions[s].permanent
    /\ SessionRemove({s})
    /\ UNCHANGED <<smtp, users, requests, lastSession, fees, mails, thread, restarts>>

\* queryMonitoringSessionImpl; a session the record knows is returned.
QueryMonitoringSession(l) ==
    /\ Runs({l}) /\ l \in DOMAIN cache /\ ~cache[l].monitor
    /\ SessionAdd([login |-> l, permanent |-> TRUE])
    /\ Save(l, [cache[l] EXCEPT !.monitor = TRUE])
    /\ UNCHANGED <<smtp, emails, requests, fees, mails, thread, restarts>>

----------------------------------------------------------------------------
(* Fee plans.                                                              *)

PutPlan(p, plan) ==
    /\ plans' = With(plans, p, plan)
    /\ plansDb' = With(plansDb, p, plan)
    /\ referred' = IF plan.referral THEN referred \cup {p} ELSE referred

CreateFeePlan(p) ==
    /\ Runs({}) /\ p \notin DOMAIN plans
    /\ PutPlan(p, EmptyPlan)
    /\ UNCHANGED <<smtp, users, requests, logged, assigned, mails, thread, restarts>>

\* updateFeePlanImpl, for percentages that are accepted.
UpdateFeePlan(p, receivers) ==
    /\ Runs({}) /\ p \in DOMAIN plans
    /\ receivers \subseteq DOMAIN cache
    /\ PutPlan(p, [plans[p] EXCEPT !.receivers = receivers])
    /\ UNCHANGED <<smtp, users, requests, logged, assigned, mails, thread, restarts>>

RenewFeePlanReferralId(p) ==
    /\ Runs({}) /\ p \in DOMAIN plans
    /\ PutPlan(p, [plans[p] EXCEPT !.referral = TRUE])
    /\ UNCHANGED <<smtp, users, requests, logged, assigned, mails, thread, restarts>>

OnPlan(p) == {l \in DOMAIN cache : cache[l].plan = p}

\* The records of `who', moved to plan p.
Moved(f, who, p) == [l \in DOMAIN f \cup who |-> IF l \in who THEN [cache[l] EXCEPT !.plan = p] ELSE f[l]]

\* Mutant of DeleteFeePlan: its users keep the plan.
DeleteFeePlanKeepsUsers(p) ==
    /\ Runs(OnPlan(p)) /\ p \in DOMAIN plans \ {"default"}
    /\ plans' = Without(plans, {p}) /\ plansDb' = Without(plansDb, {p})
    /\ referred' = referred \ {p}
    /\ UNCHANGED <<smtp, users, requests, logged, assigned, mails, thread, restarts>>

DeleteFeePlan(p) ==
    /\ Runs(OnPlan(p)) /\ p \in DOMAIN plans \ {"default"}
    /\ cache' = Moved(cache, OnPlan(p), "default") /\ db' = Moved(db, OnPlan(p), "default")
    /\ plans' = Without(plans, {p}) /\ plansDb' = Without(plansDb, {p})
    /\ referred' = referred \ {p}
    /\ assigned' = Over([l \in OnPlan(p) |-> "default"], assigned)
    /\ UNCHANGED <<smtp, emails, requests, logged, mails, thread, restarts>>

\* Mutant of ChangeFeePlan: the record is not saved.
ChangeFeePlanUnsaved(l, p) ==
    /\ Runs({l}) /\ p \in DOMAIN plans /\ l \in DOMAIN cache
    /\ cache' = [cache EXCEPT ![l].plan = p]
    /\ assigned' = With(assigned, l, p)
    /\ UNCHANGED <<smtp, db, emails, requests, logged, plans, plansDb, referred, mails, thread, restarts>>

ChangeFeePlan(l, p) ==
    /\ Runs({l}) /\ p \in DOMAIN plans /\ l \in DOMAIN cache
    /\ Save(l, [cache[l] EXCEPT !.plan = p])
    /\ assigned' = With(assigned, l, p)
    /\ UNCHANGED <<smtp, emails, requests, logged, plans, plansDb, referred, mails, thread, restarts>>

----------------------------------------------------------------------------
(* The clean-up coroutine.                                                 *)

\* Actions live for hours and a mail takes seconds: no action expires that is
\* not older than every one being mailed.
Expired(n) == {id \in DOMAIN actions : id <= n /\ \A m \in mails : id < m.id}

\* The logins whose activation is among the actions S.
NotActivated(S) == {actions[id].login : id \in {i \in S : actions[i].type = "UserActivate"}} \cap DOMAIN cache

\* Mutant of ForgetEmails: the addresses of deleted users stay known.
ForgetEmailsNot(gone) == emails

ForgetEmails(gone) == emails \ {cache[l].email : l \in gone}

\* Actions up to n and the sessions in `idle' are too old.
Cleanup(n, idle) ==
    LET old  == Expired(n)
        gone == NotActivated(old)
    IN  /\ Runs(gone)
        /\ \A s \in idle : ~sessions[s].permanent
        /\ SessionRemove(idle)
        /\ actions' = Without(actions, old)
        /\ actionOf' = Without(actionOf, {actions[id].login : id \in old})
        /\ cache' = Without(cache, gone) /\ db' = Without(db, gone)
        /\ emails' = ForgetEmails(gone)
        /\ UNCHANGED <<smtp, lastAction, lastSession, fees, mails, thread, restarts>>

----------------------------------------------------------------------------
(* Handlers that find the entry they want to write locked.                 *)

Blocks ==
    \/ \E l \in DOMAIN cache : Stuck({l})      \* SaveRecord, 2FA, ChangeFeePlan, updateSettings...
    \/ \E p \in DOMAIN plans \ {"default"} : Stuck(OnPlan(p))
    \/ \E n \in 1 .. lastAction : Stuck(NotActivated(Expired(n)))

----------------------------------------------------------------------------
(* Restart: the constructor of UserManager, then those of the backends.    *)

\* For each login the entry of f that was loaded last; keys are random.
Pointers(f, ids) ==
    LET owners == {f[id].login : id \in ids}
    IN  {p \in [owners -> ids] : \A l \in owners : f[p[l]].login = l}

UniqueEmails(d) ==
    \A l, k \in DOMAIN d : d[l].email = d[k].email /\ d[l].email # NoEmail => l = k

\* acceptFeePlanRecord: a plan whose receivers are not all known is skipped.
Accepted(d, ps) == {p \in DOMAIN ps : ps[p].receivers \subseteq DOMAIN d}

\* Load users d, actions a, sessions s and plans ps.
Reload(d, a, s, ps) ==
    /\ restarts < MaxRestarts /\ restarts' = restarts + 1
    /\ db' = d /\ cache' = d /\ emails' = {d[l].email : l \in DOMAIN d} \ {NoEmail}
    /\ actions' = a /\ actionOf' \in Pointers(a, DOMAIN a)
    /\ sessions' = s /\ sessionOf' \in Pointers(s, {i \in DOMAIN s : ~s[i].permanent})
    /\ plansDb' = ps /\ plans' = Over(Restrict(ps, Accepted(d, ps)), With(Empty, "default", EmptyPlan))
    /\ referred' = {p \in Accepted(d, ps) : ps[p].referral}
    /\ assigned' = [l \in DOMAIN d |-> d[l].plan]
    /\ mails' = {}
    /\ thread' = IF UniqueEmails(d) THEN "running" ELSE "down"
    /\ UNCHANGED smtp

Restart ==
    /\ thread # "down"
    /\ Reload(db, actions, sessions, plansDb)
    /\ UNCHANGED <<lastAction, lastSession>>

\* The process dies between two writes of a handler: in Confirm of a
\* registration, in ResendEmail without mail, in QueryMonitoringSession, ...
RestartInUserCreate(id, l) ==
    /\ Runs({}) /\ id <= MaxActions /\ id + lastSession <= MaxIds[smtp]
    /\ Reload(db, With(actions, id, [login |-> l, type |-> "UserActivate"]), sessions, plansDb)
    /\ lastAction' = Max({lastAction, id})
    /\ UNCHANGED lastSession

RestartInResendEmail(l) ==
    /\ Runs({}) /\ l \in DOMAIN cache \cap DOMAIN actionOf /\ ~cache[l].active
    /\ Reload(db, Without(actions, {actionOf[l]}), sessions, plansDb)
    /\ UNCHANGED <<lastAction, lastSession>>

RestartInQueryMonitoringSession(l) ==
    /\ Runs({l}) /\ l \in DOMAIN cache /\ ~cache[l].monitor
    /\ lastSession < MaxSessions /\ lastAction + lastSession < MaxIds[smtp] /\ lastSession' = lastSession + 1
    /\ Reload(db, actions, With(sessions, lastSession', [login |-> l, permanent |-> TRUE]), plansDb)
    /\ UNCHANGED lastAction

\* ... in DeleteFeePlan, when some of its users have been moved, and in
\* Cleanup, when some users have been deleted and nothing else.
RestartInDeleteFeePlan(some) ==
    /\ Runs(some)
    /\ Reload(Moved(db, some, "default"), actions, sessions, plansDb)
    /\ UNCHANGED <<lastAction, lastSession>>

RestartInCleanup(some) ==
    /\ Runs(some)
    /\ Reload(Without(db, some), actions, sessions, plansDb)
    /\ UNCHANGED <<lastAction, lastSession>>

----------------------------------------------------------------------------

Next ==
    \/ \E l \in Logins :
          \/ \E e \in Emails, p \in Plans : UserCreate(l, e, p)
          \/ \E e \in Emails \cup {NoEmail}, p \in Plans : UserCreateForce(l, e, p)
          \/ ResendEmail(l)
          \/ \E t \in ActionTypes \ {"UserActivate"} : Initiate(l, t)
          \/ SaveRecord(l)
          \/ Login(l) \/ QueryMonitoringSession(l)
          \/ \E p \in Plans : ChangeFeePlan(l, p)
          \/ RestartInResendEmail(l) \/ RestartInQueryMonitoringSession(l)
    \/ \E m \in mails : MailSent(m) \/ MailFailed(m)
    \/ \E m \in mails : m.rec # NoRecord /\ RestartInUserCreate(m.id, m.action.login)
    \/ \E l \in Logins \ DOMAIN cache : ~smtp /\ RestartInUserCreate(lastAction + 1, l)
    \/ \E id \in DOMAIN actions : UserAction(id)
    \/ \E s \in DOMAIN sessions : Logout(s)
    \/ \E p \in PlanIds : CreateFeePlan(p) \/ DeleteFeePlan(p)
    \/ \E p \in Plans : RenewFeePlanReferralId(p) \/ \E r \in Receivers : UpdateFeePlan(p, r)
    \/ \E n \in 0 .. lastAction, idle \in SUBSET DOMAIN sessions : Cleanup(n, idle)
    \/ Blocks
    \/ Restart
    \/ \E p \in PlanIds : \E some \in SUBSET OnPlan(p) : RestartInDeleteFeePlan(some)
    \/ \E n \in 1 .. lastAction : \E some \in SUBSET NotActivated(Expired(n)) : RestartInCleanup(some)

Spec == Init /\ [][Next]_vars

----------------------------------------------------------------------------
(* Properties.                                                             *)

IsMap(f, D, R) == DOMAIN f \subseteq D /\ \A x \in DOMAIN f : f[x] \in R

\* Type invariant of the caches and databases; LoginActionMap_ points to an
\* action of the login that still exists (usermgr.h, actionAdd and actionRemove).
TypeOK ==
    /\ smtp \in SmtpModes
    /\ IsMap(cache, Logins, UsersRecord) /\ IsMap(db, Logins, UsersRecord)
    /\ emails \subseteq Emails
    /\ IsMap(actions, 1 .. lastAction, UserActionRecord)
    /\ IsMap(actionOf, Logins, DOMAIN actions)
    /\ \A l \in DOMAIN actionOf : actions[actionOf[l]].login = l
    /\ IsMap(sessions, 1 .. lastSession, UserSessionRecord)
    /\ IsMap(sessionOf, Logins, 1 .. lastSession)
    /\ IsMap(plans, Plans, FeePlan) /\ "default" \in DOMAIN plans
    /\ IsMap(plansDb, Plans, FeePlan) /\ referred \subseteq DOMAIN plans
    /\ IsMap(assigned, Logins, Plans)
    /\ \A m \in mails : m.id \in 1 .. lastAction /\ m.action \in UserActionRecord
    /\ lastAction \in 0 .. MaxActions /\ lastSession \in 0 .. MaxSessions
    /\ thread \in {"running", "stuck", "down"} /\ restarts \in 0 .. MaxRestarts

\* A login has at most one ordinary session, and LoginSessionMap_ knows it: the
\* login call never hands out a session that was removed, and no session is
\* forgotten by logout or clean-up, also across a restart.
OneSession ==
    \A l \in Logins :
        {s \in DOMAIN sessions : sessions[s].login = l /\ ~sessions[s].permanent}
            = {sessionOf[k] : k \in {l} \cap DOMAIN sessionOf}

\* Without mail no handler yields, and AllEmails_ is exactly the addresses of
\* the users, each of one user: the check of the constructor ("Non-unique email
\* detected") never keeps the pool from starting.
EmailsMatch ==
    ~smtp => /\ UniqueEmails(db) /\ thread # "down"
             /\ emails = {cache[l].email : l \in DOMAIN cache} \ {NoEmail}

\* Without mail the database has exactly the users the cache has: nothing that
\* was answered with "ok" is undone by a restart.
SavedIsCurrent == ~smtp => db = cache

\* Without mail no user is on a fee plan that was deleted, and the backends use
\* the plan the record of the user names.
PlansInSync ==
    ~smtp => \A l \in DOMAIN cache : /\ cache[l].plan \in DOMAIN plans \cup DOMAIN plansDb
                                      /\ l \in DOMAIN assigned /\ assigned[l] = cache[l].plan

\* "Delete not activated user record": clean-up does not delete a user who has
\* been activated.
ActiveUserStays ==
    [][\A l \in DOMAIN cache :
          cache[l].active /\ restarts' = restarts => l \in DOMAIN cache']_vars

\* "User action life time (default 12 hours)": every action is confirmed or
\* removed in the end.
ActionsExpire == \A id \in 1 .. MaxActions : id \in DOMAIN actions ~> id \notin DOMAIN actions

\* The mail server's answer is waited for 16 seconds at most, and the clean-up
\* coroutine runs every ten minutes while its thread does.
Fairness ==
    /\ WF_vars(\E m \in mails : MailSent(m) \/ MailFailed(m))
    /\ WF_vars(Cleanup(lastAction, {}))

FairSpec == Spec /\ Fairness
=============================================================================
