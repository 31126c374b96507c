---------------------------- MODULE UsersProofs ----------------------------
(***************************************************************************)
(* Proofs about Users, for all sets of logins, addresses and fee plans,    *)
(* with and without mail, and any number of restarts.  The state falls     *)
(* into four parts; each is an invariant of its own that needs the ones    *)
(* before it:                                                              *)
(*   RequestsOK   actions and the coroutines that mail them                *)
(*   SessionsOK   sessions                                                 *)
(*   UsersOK      the records and their addresses                          *)
(*   PlansOK      fee plans, and what the backends are told about them     *)
(***************************************************************************)
EXTENDS Users, FiniteSetLemmas

\* The actions and LoginActionMap_, for n ids given so far.
ActionsOK(as, of, n) ==
    /\ IsMap(as, 1 .. n, UserActionRecord)
    /\ IsMap(of, Logins, DOMAIN as)
    /\ \A l \in DOMAIN of : as[of[l]].login = l

\* An id belongs to one request, which is waiting for its mail or is an action.
MailsOK(ms, ids, n) ==
    /\ \A m \in ms :
          /\ m.id \in 1 .. n /\ m.id \notin ids
          /\ m.action \in UserActionRecord
          /\ m.rec = NoRecord \/ (m.rec \in UsersRecord /\ m.rec.email \in Emails)
    /\ \A m, k \in ms : m.id = k.id => m = k

\* Nothing waits when mail is off.
RequestsOK ==
    /\ smtp \in BOOLEAN /\ lastAction \in 0 .. MaxActions
    /\ ActionsOK(actions, actionOf, lastAction)
    /\ MailsOK(mails, DOMAIN actions, lastAction)
    /\ ~smtp => mails = {}

SessionsOK ==
    /\ lastSession \in 0 .. MaxSessions
    /\ IsMap(sessions, 1 .. lastSession, UserSessionRecord)
    /\ IsMap(sessionOf, Logins, 1 .. lastSession)
    /\ OneSession

UsersOK ==
    /\ smtp \in SmtpModes
    /\ IsMap(cache, Logins, UsersRecord) /\ IsMap(db, Logins, UsersRecord)
    /\ emails \subseteq Emails
    /\ EmailsMatch /\ SavedIsCurrent

\* A plan that is in memory is in the database, but for the default one.
RowsOK ==
    /\ IsMap(plans, Plans, FeePlan) /\ "default" \in DOMAIN plans
    /\ IsMap(plansDb, Plans, FeePlan) /\ DOMAIN plans \subseteq DOMAIN plansDb \cup {"default"}
    /\ referred \subseteq DOMAIN plans

PlansOK == RowsOK /\ IsMap(assigned, Logins, Plans) /\ PlansInSync

Bounded == thread \in {"running", "stuck", "down"} /\ restarts \in 0 .. MaxRestarts

UsersInv == RequestsOK /\ SessionsOK /\ UsersOK /\ PlansOK /\ Bounded

----------------------------------------------------------------------------
(* Writing and deleting rows.                                              *)

LEMMA WithIsMap ==
    ASSUME NEW f, NEW D, NEW R, IsMap(f, D, R), NEW k \in D, NEW v \in R
    PROVE  IsMap(With(f, k, v), D, R)
  BY DEF IsMap, With, Over

LEMMA WithoutIsMap ==
    ASSUME NEW f, NEW D, NEW R, IsMap(f, D, R), NEW S
    PROVE  IsMap(Without(f, S), D, R)
  BY DEF IsMap, Without, Restrict

LEMMA WiderMap ==
    ASSUME NEW f, NEW D, NEW E, NEW R, IsMap(f, D, R), D \subseteq E
    PROVE  IsMap(f, E, R)
  BY DEF IsMap

----------------------------------------------------------------------------
(* Actions and mails.                                                      *)

\* An action is added under an id that no action has.
LEMMA ActionAdded ==
    ASSUME NEW as, NEW of, NEW n \in Nat, ActionsOK(as, of, n), NEW k \in Nat, n <= k,
           NEW id \in 1 .. k, id \notin DOMAIN as, NEW a \in UserActionRecord
    PROVE  ActionsOK(With(as, id, a), With(of, a.login, id), k)
<1> DEFINE bs == With(as, id, a)
           to == With(of, a.login, id)
<1>1. /\ DOMAIN bs = DOMAIN as \cup {id} /\ bs[id] = a
      /\ \A x \in DOMAIN as : bs[x] = as[x]
  BY DEF With, Over
<1>2. /\ DOMAIN to = DOMAIN of \cup {a.login} /\ to[a.login] = id
      /\ \A l \in DOMAIN of : l # a.login => to[l] = of[l]
  BY DEF With, Over
<1>3. a.login \in Logins
  BY DEF UserActionRecord
<1> HIDE DEF bs, to
<1>4. IsMap(bs, 1 .. k, UserActionRecord)
  <2>1. 1 .. n \subseteq 1 .. k
    OBVIOUS
  <2> QED
    BY <1>1, <2>1 DEF ActionsOK, IsMap
<1>5. IsMap(to, Logins, DOMAIN bs)
  BY <1>1, <1>2, <1>3 DEF ActionsOK, IsMap
<1>6. \A l \in DOMAIN to : bs[to[l]].login = l
  BY <1>1, <1>2 DEF ActionsOK, IsMap
<1>7. ActionsOK(bs, to, k)
  BY <1>4, <1>5, <1>6 DEF ActionsOK
<1> QED
  BY <1>7 DEF bs, to

\* Actions are removed together with what points to them.
LEMMA ActionsGone ==
    ASSUME NEW as, NEW of, NEW n \in Nat, ActionsOK(as, of, n), NEW S, NEW L,
           \A l \in DOMAIN of : of[l] \in S => l \in L
    PROVE  ActionsOK(Without(as, S), Without(of, L), n)
<1> DEFINE bs == Without(as, S)
           to == Without(of, L)
<1>1. /\ DOMAIN bs = DOMAIN as \ S /\ \A x \in DOMAIN bs : bs[x] = as[x]
      /\ DOMAIN to = DOMAIN of \ L /\ \A l \in DOMAIN to : to[l] = of[l]
  BY DEF Without, Restrict
<1> HIDE DEF bs, to
<1>2. \A l \in DOMAIN to : of[l] \in DOMAIN bs
  BY <1>1 DEF ActionsOK, IsMap
<1>3. ActionsOK(bs, to, n)
  BY <1>1, <1>2 DEF ActionsOK, IsMap
<1> QED
  BY <1>3 DEF bs, to

\* After a restart LoginActionMap_ points to some action of each login.
LEMMA ActionsLoaded ==
    ASSUME NEW as, NEW n \in Nat, IsMap(as, 1 .. n, UserActionRecord),
           NEW of \in Pointers(as, DOMAIN as)
    PROVE  ActionsOK(as, of, n)
<1> DEFINE owners == {as[id].login : id \in DOMAIN as}
<1>1. of \in [owners -> DOMAIN as] /\ \A l \in owners : as[of[l]].login = l
  BY DEF Pointers
<1>2. owners \subseteq Logins
  BY DEF IsMap, UserActionRecord
<1> QED
  BY <1>1, <1>2 DEF ActionsOK, IsMap

\* Ids only grow.
LEMMA ActionsKept ==
    ASSUME NEW as, NEW of, NEW n \in Nat, ActionsOK(as, of, n), NEW k \in Nat, n <= k
    PROVE  ActionsOK(as, of, k)
<1>1. 1 .. n \subseteq 1 .. k
  OBVIOUS
<1> QED
  BY <1>1 DEF ActionsOK, IsMap

\* What a handler that waits for its mail relies on while it waits.
LEMMA MailsKept ==
    ASSUME NEW ms, NEW ids, NEW n \in Nat, MailsOK(ms, ids, n),
           NEW new, new \subseteq ms, NEW more, NEW k \in Nat, n <= k,
           \A m \in new : m.id \in more => m.id \in ids
    PROVE  MailsOK(new, more, k)
<1>1. 1 .. n \subseteq 1 .. k
  OBVIOUS
<1> QED
  BY <1>1 DEF MailsOK

LEMMA MailAdded ==
    ASSUME NEW ms, NEW ids, NEW n \in Nat, MailsOK(ms, ids, n), NEW fewer, fewer \subseteq ids,
           ids \subseteq 1 .. n, NEW m, m.id = n + 1, m.action \in UserActionRecord,
           m.rec = NoRecord \/ (m.rec \in UsersRecord /\ m.rec.email \in Emails)
    PROVE  MailsOK(ms \cup {m}, fewer, n + 1)
<1>1. \A x \in ms : x.id \in 1 .. n /\ x.id \in 1 .. n + 1 /\ x.id # n + 1
  BY DEF MailsOK
<1>2. n + 1 \notin fewer /\ n + 1 \in 1 .. n + 1
  OBVIOUS
<1>3. \A x, y \in ms \cup {m} : x.id = y.id => x = y
  BY <1>1 DEF MailsOK
<1>4. ASSUME NEW x \in ms \cup {m}
      PROVE  /\ x.id \in 1 .. n + 1 /\ x.id \notin fewer
             /\ x.action \in UserActionRecord
             /\ x.rec = NoRecord \/ (x.rec \in UsersRecord /\ x.rec.email \in Emails)
  <2>1. CASE x = m
    BY <1>2, <2>1
  <2>2. CASE x \in ms
    BY <1>1, <2>2 DEF MailsOK
  <2> QED
    BY <2>1, <2>2
<1> QED
  BY <1>3, <1>4 DEF MailsOK

\* The new action of Confirm, with mail or without.
LEMMA ConfirmKeepsRequests ==
    ASSUME RequestsOK, UsersAssumptions, NEW m, m.id \notin DOMAIN actions,
           m.action \in UserActionRecord, m.id \in 1 .. lastAction', Confirm(m),
           lastAction' \in 0 .. MaxActions, lastAction <= lastAction',
           mails' \subseteq mails, \A k \in mails' : k.id # m.id, UNCHANGED smtp
    PROVE  RequestsOK'
<1>1. lastAction \in Nat /\ lastAction' \in Nat
  BY DEF RequestsOK
<1>2. actions' = With(actions, m.id, m.action) /\ actionOf' = With(actionOf, m.action.login, m.id)
  BY DEF Confirm, ActionAdd
<1>3. ActionsOK(actions, actionOf, lastAction)
  BY DEF RequestsOK
<1>4. ActionsOK(actions', actionOf', lastAction')
  BY <1>1, <1>2, <1>3, ActionAdded
<1>5. DOMAIN actions' = DOMAIN actions \cup {m.id}
  BY <1>2 DEF With, Over
<1>6. \A k \in mails' : k.id \in DOMAIN actions' => k.id \in DOMAIN actions
  BY <1>5
<1>7. MailsOK(mails', DOMAIN actions', lastAction')
  BY <1>1, <1>6, MailsKept DEF RequestsOK
<1> QED
  BY <1>4, <1>7 DEF RequestsOK

LEMMA MailSentKeepsRequests ==
    ASSUME RequestsOK, NEW m \in mails, MailSent(m) PROVE RequestsOK'
<1>1. /\ m.id \in 1 .. lastAction /\ m.id \notin DOMAIN actions /\ m.action \in UserActionRecord
      /\ \A k \in mails : k.id = m.id => k = m
  BY DEF RequestsOK, MailsOK
<1>2. /\ Confirm(m) /\ mails' = mails \ {m} /\ lastAction' = lastAction /\ smtp' = smtp
  BY DEF MailSent
<1>3. lastAction' \in 0 .. MaxActions /\ lastAction <= lastAction'
  BY <1>2 DEF RequestsOK
<1> QED
  BY <1>1, <1>2, <1>3, UsersAssumptions, ConfirmKeepsRequests

\* A handler that prepares an action and mails it, or confirms it at once.
LEMMA RequestKeepsRequests ==
    ASSUME RequestsOK, NEW l \in Logins, NEW type \in ActionTypes, NEW rec,
           rec = NoRecord \/ (rec \in UsersRecord /\ rec.email \in Emails),
           Request(l, type, rec), UNCHANGED smtp
    PROVE  RequestsOK'
<1> DEFINE m == [id |-> lastAction + 1, action |-> [login |-> l, type |-> type], rec |-> rec]
<1>1. /\ lastAction \in Nat /\ MaxActions \in Nat /\ lastAction' = lastAction + 1 /\ lastAction < MaxActions
      /\ lastAction' \in 0 .. MaxActions /\ lastAction <= lastAction' /\ lastAction + 1 \in 1 .. lastAction'
  BY UsersAssumptions DEF RequestsOK, Request
<1>2. /\ m.id = lastAction + 1 /\ m.action \in UserActionRecord
      /\ m.rec = NoRecord \/ (m.rec \in UsersRecord /\ m.rec.email \in Emails)
  BY DEF UserActionRecord
<1>3. DOMAIN actions \subseteq 1 .. lastAction /\ lastAction + 1 \notin DOMAIN actions
  BY <1>1 DEF RequestsOK, ActionsOK, IsMap
<1>4. CASE smtp
  <2>1. mails' = mails \cup {m} /\ actions' = actions /\ actionOf' = actionOf
    BY <1>4 DEF Request
  <2> HIDE DEF m
  <2>2. MailsOK(mails', DOMAIN actions', lastAction')
    BY <1>1, <1>2, <1>3, <2>1, MailAdded DEF RequestsOK
  <2>3. ActionsOK(actions', actionOf', lastAction')
    BY <1>1, <2>1, ActionsKept DEF RequestsOK
  <2> QED
    BY <1>1, <1>4, <2>2, <2>3 DEF RequestsOK
<1>5. CASE ~smtp
  <2>1. Confirm(m) /\ mails' = mails /\ mails = {}
    BY <1>5 DEF Request, RequestsOK
  <2> HIDE DEF m
  <2> QED
    BY <1>1, <1>2, <1>3, <2>1, UsersAssumptions, ConfirmKeepsRequests
<1> QED
  BY <1>4, <1>5

\* The resent activation replaces the newest action of the login.
LEMMA ResendKeepsRequests ==
    ASSUME RequestsOK, NEW l \in Logins, ResendEmail(l) PROVE RequestsOK'
<1> DEFINE old == {actionOf[k] : k \in {l} \cap DOMAIN actionOf}
           m == [id |-> lastAction + 1, action |-> [login |-> l, type |-> "UserActivate"], rec |-> NoRecord]
           as == Without(actions, old)
           of == Without(actionOf, {l})
<1>1. /\ lastAction \in Nat /\ MaxActions \in Nat /\ lastAction' = lastAction + 1 /\ lastAction < MaxActions
      /\ lastAction' \in 0 .. MaxActions /\ lastAction <= lastAction' /\ lastAction + 1 \in 1 .. lastAction'
      /\ lastAction' \in Nat /\ smtp' = smtp
  BY UsersAssumptions DEF RequestsOK, ResendEmail
<1>2. m.id = lastAction + 1 /\ m.action \in UserActionRecord /\ m.rec = NoRecord /\ m.action.login = l
  BY DEF UserActionRecord, ActionTypes
<1>3. DOMAIN actions \subseteq 1 .. lastAction /\ lastAction + 1 \notin DOMAIN actions
  BY <1>1 DEF RequestsOK, ActionsOK, IsMap
<1>4. \A k \in DOMAIN actionOf : actionOf[k] \in old => k \in {l}
  BY DEF RequestsOK, ActionsOK
<1>5. ActionsOK(as, of, lastAction)
  <2> HIDE DEF old
  <2> QED
    BY <1>1, <1>4, ActionsGone DEF RequestsOK
<1>6. DOMAIN as = DOMAIN actions \ old
  BY DEF Without, Restrict
<1>7. CASE smtp
  <2>1. mails' = mails \cup {m} /\ actions' = as /\ actionOf' = of
    BY <1>7 DEF ResendEmail
  <2> HIDE DEF m, as, of, old
  <2>2. MailsOK(mails', DOMAIN actions', lastAction')
    BY <1>1, <1>2, <1>3, <1>6, <2>1, MailAdded DEF RequestsOK
  <2>3. ActionsOK(actions', actionOf', lastAction')
    BY <1>1, <1>5, <2>1, ActionsKept
  <2> QED
    BY <1>1, <1>7, <2>2, <2>3 DEF RequestsOK
<1>8. CASE ~smtp
  <2>1. actions' = With(as, m.id, m.action) /\ actionOf' = With(actionOf, l, m.id) /\ mails' = {}
    BY <1>8 DEF ResendEmail, RequestsOK
  <2>2. With(actionOf, l, m.id) = With(of, l, m.id)
    BY DEF With, Over, Without, Restrict
  <2> HIDE DEF m, as, of, old
  <2>3. ActionsOK(With(as, m.id, m.action), With(of, m.action.login, m.id), lastAction')
    BY <1>1, <1>2, <1>3, <1>5, <1>6, ActionAdded
  <2>4. ActionsOK(actions', actionOf', lastAction')
    BY <1>2, <2>1, <2>2, <2>3
  <2>5. MailsOK(mails', DOMAIN actions', lastAction')
    BY <2>1 DEF MailsOK
  <2> QED
    BY <1>1, <2>1, <2>4, <2>5 DEF RequestsOK
<1> QED
  BY <1>7, <1>8

\* The actions in S are removed, with what points to them.
LEMMA RemovalKeepsRequests ==
    ASSUME RequestsOK, NEW S, NEW L, \A l \in DOMAIN actionOf : actionOf[l] \in S => l \in L,
           actions' = Without(actions, S), actionOf' = Without(actionOf, L),
           UNCHANGED smtp, UNCHANGED lastAction, mails' \subseteq mails
    PROVE  RequestsOK'
<1>1. lastAction \in Nat
  BY DEF RequestsOK
<1>2. ActionsOK(actions', actionOf', lastAction')
  BY <1>1, ActionsGone DEF RequestsOK
<1>3. DOMAIN actions' \subseteq DOMAIN actions
  BY DEF Without, Restrict
<1>4. MailsOK(mails', DOMAIN actions', lastAction')
  BY <1>1, <1>3, MailsKept DEF RequestsOK
<1> QED
  BY <1>2, <1>4 DEF RequestsOK

\* A restart: no handler waits, and the actions are loaded.
LEMMA ReloadKeepsRequests ==
    ASSUME RequestsOK, NEW d, NEW a, NEW s, NEW ps, Reload(d, a, s, ps),
           lastAction' \in 0 .. MaxActions, IsMap(a, 1 .. lastAction', UserActionRecord)
    PROVE  RequestsOK'
<1>1. actions' = a /\ actionOf' \in Pointers(a, DOMAIN a) /\ mails' = {} /\ smtp' = smtp
  BY DEF Reload
<1>2. lastAction' \in Nat
  OBVIOUS
<1>3. ActionsOK(actions', actionOf', lastAction')
  BY <1>1, <1>2, ActionsLoaded
<1>4. MailsOK(mails', DOMAIN actions', lastAction')
  BY <1>1 DEF MailsOK
<1> QED
  BY <1>1, <1>3, <1>4 DEF RequestsOK

----------------------------------------------------------------------------
(* Sessions.                                                               *)

\* OneSession from the side of the sessions and from the side of the map.
Pointed(ss, of) ==
    /\ \A s \in DOMAIN ss : ~ss[s].permanent =>
          ss[s].login \in DOMAIN of /\ of[ss[s].login] = s
    /\ \A l \in DOMAIN of : of[l] \in DOMAIN ss /\ ss[of[l]].login = l /\ ~ss[of[l]].permanent

Once(ss, of) ==
    \A l \in Logins :
        {s \in DOMAIN ss : ss[s].login = l /\ ~ss[s].permanent} = {of[k] : k \in {l} \cap DOMAIN of}

LEMMA OneSessionIs ==
    ASSUME NEW ss, NEW of, NEW n, IsMap(ss, 1 .. n, UserSessionRecord), DOMAIN of \subseteq Logins
    PROVE  Once(ss, of) <=> Pointed(ss, of)
<1>1. \A s \in DOMAIN ss : ss[s].login \in Logins
  BY DEF IsMap, UserSessionRecord
<1>2. ASSUME Once(ss, of) PROVE Pointed(ss, of)
  <2>1. ASSUME NEW s \in DOMAIN ss, ~ss[s].permanent
        PROVE  ss[s].login \in DOMAIN of /\ of[ss[s].login] = s
    <3> DEFINE l == ss[s].login
    <3>1. l \in Logins /\ s \in {i \in DOMAIN ss : ss[i].login = l /\ ~ss[i].permanent}
      BY <1>1, <2>1
    <3>2. s \in {of[k] : k \in {l} \cap DOMAIN of}
      BY <1>2, <3>1 DEF Once
    <3> QED
      BY <3>2
  <2>2. ASSUME NEW l \in DOMAIN of
        PROVE  /\ of[l] \in DOMAIN ss
               /\ ss[of[l]].login = l /\ ~ss[of[l]].permanent
    <3>1. of[l] \in {of[k] : k \in {l} \cap DOMAIN of}
      OBVIOUS
    <3>2. of[l] \in {i \in DOMAIN ss : ss[i].login = l /\ ~ss[i].permanent}
      BY <1>2, <3>1 DEF Once
    <3> QED
      BY <3>2
  <2> QED
    BY <2>1, <2>2 DEF Pointed
<1>3. ASSUME Pointed(ss, of) PROVE Once(ss, of)
  <2> SUFFICES ASSUME NEW l \in Logins
               PROVE  {s \in DOMAIN ss : ss[s].login = l /\ ~ss[s].permanent}
                         = {of[k] : k \in {l} \cap DOMAIN of}
    BY DEF Once
  <2>1. ASSUME NEW s \in DOMAIN ss, ss[s].login = l, ~ss[s].permanent
        PROVE  s \in {of[k] : k \in {l} \cap DOMAIN of}
    BY <1>3, <2>1 DEF Pointed
  <2>2. ASSUME NEW k \in {l} \cap DOMAIN of
        PROVE  of[k] \in {s \in DOMAIN ss : ss[s].login = l /\ ~ss[s].permanent}
    BY <1>3, <2>2 DEF Pointed
  <2> QED
    BY <2>1, <2>2
<1> QED
  BY <1>2, <1>3

\* A login gets an ordinary session when it has none.
LEMMA SessionAddKeeps ==
    ASSUME SessionsOK, UsersAssumptions, NEW s \in UserSessionRecord, SessionAdd(s),
           s.permanent \/ s.login \notin DOMAIN sessionOf
    PROVE  SessionsOK'
<1>1. /\ lastSession \in Nat /\ MaxSessions \in Nat /\ lastSession' = lastSession + 1
      /\ lastSession' \in 0 .. MaxSessions /\ lastSession' \in 1 .. lastSession'
      /\ s.login \in Logins
  BY DEF SessionsOK, SessionAdd, UsersAssumptions, UserSessionRecord
<1>2. /\ DOMAIN sessions \subseteq 1 .. lastSession
      /\ lastSession' \notin DOMAIN sessions /\ 1 .. lastSession \subseteq 1 .. lastSession'
  BY <1>1 DEF SessionsOK, IsMap
<1>3. /\ DOMAIN sessions' = DOMAIN sessions \cup {lastSession'} /\ sessions'[lastSession'] = s
      /\ \A x \in DOMAIN sessions : sessions'[x] = sessions[x]
  BY <1>2 DEF SessionAdd, With, Over
<1>4. IsMap(sessions', 1 .. lastSession', UserSessionRecord)
  BY <1>1, <1>2, <1>3 DEF SessionsOK, IsMap
<1>5. Pointed(sessions, sessionOf)
  BY OneSessionIs DEF SessionsOK, OneSession, Once, IsMap
<1>6. CASE s.permanent
  <2>1. sessionOf' = sessionOf
    BY <1>6 DEF SessionAdd
  <2>2. IsMap(sessionOf', Logins, 1 .. lastSession')
    BY <1>2, <2>1 DEF SessionsOK, IsMap
  <2>3. Pointed(sessions', sessionOf')
    BY <1>3, <1>5, <1>6, <2>1 DEF Pointed
  <2>4. OneSession'
    <3>1. Once(sessions', sessionOf')
      BY <1>4, <2>2, <2>3, OneSessionIs DEF IsMap
    <3> QED
      BY <3>1 DEF OneSession, Once
  <2> QED
    BY <1>1, <1>4, <2>2, <2>4 DEF SessionsOK
<1>7. CASE ~s.permanent
  <2>1. /\ DOMAIN sessionOf' = DOMAIN sessionOf \cup {s.login} /\ sessionOf'[s.login] = lastSession'
        /\ \A l \in DOMAIN sessionOf : sessionOf'[l] = sessionOf[l]
    BY <1>7 DEF SessionAdd, With, Over
  <2>2. IsMap(sessionOf', Logins, 1 .. lastSession')
    BY <1>1, <1>2, <2>1 DEF SessionsOK, IsMap
  <2>3. Pointed(sessions', sessionOf')
    BY <1>2, <1>3, <1>5, <1>7, <2>1 DEF Pointed
  <2>4. OneSession'
    <3>1. Once(sessions', sessionOf')
      BY <1>4, <2>2, <2>3, OneSessionIs DEF IsMap
    <3> QED
      BY <3>1 DEF OneSession, Once
  <2> QED
    BY <1>1, <1>4, <2>2, <2>4 DEF SessionsOK
<1> QED
  BY <1>6, <1>7

\* A session that is removed was the one of its login.
LEMMA SessionRemoveKeeps ==
    ASSUME SessionsOK, NEW S \in SUBSET DOMAIN sessions, \A s \in S : ~sessions[s].permanent,
           SessionRemove(S), UNCHANGED lastSession
    PROVE  SessionsOK'
<1> DEFINE L == {sessions[s].login : s \in S}
<1>1. /\ DOMAIN sessions' = DOMAIN sessions \ S /\ \A x \in DOMAIN sessions' : sessions'[x] = sessions[x]
      /\ DOMAIN sessionOf' = DOMAIN sessionOf \ L /\ \A l \in DOMAIN sessionOf' : sessionOf'[l] = sessionOf[l]
  BY DEF SessionRemove, Without, Restrict
<1>2. Pointed(sessions, sessionOf)
  BY OneSessionIs DEF SessionsOK, OneSession, Once, IsMap
<1>3. \A l \in DOMAIN sessionOf : sessionOf[l] \in S <=> l \in L
  BY <1>2 DEF Pointed
<1> HIDE DEF L
<1>4. IsMap(sessions', 1 .. lastSession', UserSessionRecord) /\ IsMap(sessionOf', Logins, 1 .. lastSession')
  BY <1>1 DEF SessionsOK, IsMap
<1>5. Pointed(sessions', sessionOf')
  BY <1>1, <1>2, <1>3 DEF Pointed
<1>6. OneSession'
  <2>1. Once(sessions', sessionOf')
    BY <1>4, <1>5, OneSessionIs DEF IsMap
  <2> QED
    BY <2>1 DEF OneSession, Once
<1> QED
  BY <1>4, <1>6 DEF SessionsOK

\* A restart finds one ordinary session of a login at most.
LEMMA ReloadKeepsSessions ==
    ASSUME SessionsOK, NEW d, NEW a, NEW ss, NEW ps, Reload(d, a, ss, ps),
           lastSession' \in 0 .. MaxSessions, IsMap(ss, 1 .. lastSession', UserSessionRecord),
           \A i, j \in DOMAIN ss :
              ~ss[i].permanent /\ ~ss[j].permanent /\ ss[i].login = ss[j].login => i = j
    PROVE  SessionsOK'
<1> DEFINE ids == {i \in DOMAIN ss : ~ss[i].permanent}
           owners == {ss[id].login : id \in ids}
<1>1. sessions' = ss /\ sessionOf' \in [owners -> ids] /\ \A l \in owners : ss[sessionOf'[l]].login = l
  BY DEF Reload, Pointers
<1>2. owners \subseteq Logins /\ ids \subseteq 1 .. lastSession'
  BY DEF IsMap, UserSessionRecord
<1>3. Pointed(ss, sessionOf')
  BY <1>1 DEF Pointed
<1>4. IsMap(sessions', 1 .. lastSession', UserSessionRecord) /\ IsMap(sessionOf', Logins, 1 .. lastSession')
  BY <1>1, <1>2 DEF IsMap
<1>5. OneSession'
  <2>1. Once(sessions', sessionOf')
    BY <1>1, <1>3, <1>4, OneSessionIs DEF IsMap
  <2> QED
    BY <2>1 DEF OneSession, Once
<1> QED
  BY <1>4, <1>5 DEF SessionsOK

LEMMA OrdinaryOnce ==
    ASSUME SessionsOK
    PROVE  \A i, j \in DOMAIN sessions :
              ~sessions[i].permanent /\ ~sessions[j].permanent /\ sessions[i].login = sessions[j].login => i = j
<1>1. Pointed(sessions, sessionOf)
  BY OneSessionIs DEF SessionsOK, OneSession, Once, IsMap
<1> QED
  BY <1>1 DEF Pointed

----------------------------------------------------------------------------
(* Users.                                                                  *)

\* Fewer users, or other records with the same addresses.
LEMMA UniqueStays ==
    ASSUME NEW d, UniqueEmails(d), NEW e, DOMAIN e \subseteq DOMAIN d,
           \A l \in DOMAIN e : e[l].email = d[l].email
    PROVE  UniqueEmails(e)
  BY DEF UniqueEmails

\* Handlers that leave the logins and the addresses alone.
LEMMA RecordsKeep ==
    ASSUME UsersOK, UNCHANGED <<smtp, emails>>, thread' = thread \/ thread' # "down",
           IsMap(cache', Logins, UsersRecord), IsMap(db', Logins, UsersRecord),
           DOMAIN cache' = DOMAIN cache, \A l \in DOMAIN cache : cache'[l].email = cache[l].email,
           ~smtp => db' = cache'
    PROVE  UsersOK'
<1>1. ASSUME ~smtp
      PROVE  /\ UniqueEmails(db') /\ thread' # "down" /\ db' = cache'
             /\ emails' = {cache'[l].email : l \in DOMAIN cache'} \ {NoEmail}
  <2>1. /\ UniqueEmails(cache) /\ thread # "down" /\ db' = cache'
        /\ emails = {cache[l].email : l \in DOMAIN cache} \ {NoEmail}
    BY <1>1 DEF UsersOK, EmailsMatch, SavedIsCurrent
  <2>2. UniqueEmails(db')
    BY <2>1, UniqueStays
  <2>3. {cache'[l].email : l \in DOMAIN cache'} = {cache[l].email : l \in DOMAIN cache}
    OBVIOUS
  <2> QED
    BY <2>1, <2>2, <2>3
<1>2. EmailsMatch' /\ SavedIsCurrent'
  BY <1>1 DEF EmailsMatch, SavedIsCurrent, UniqueEmails
<1> QED
  BY <1>2 DEF UsersOK

LEMMA SaveKeepsUsers ==
    ASSUME UsersOK, NEW l \in DOMAIN cache, NEW rec \in UsersRecord, rec.email = cache[l].email,
           Save(l, rec), UNCHANGED <<smtp, emails>>, thread' = thread
    PROVE  UsersOK'
<1>1. l \in Logins
  BY DEF UsersOK, IsMap
<1>2. IsMap(cache', Logins, UsersRecord) /\ IsMap(db', Logins, UsersRecord)
  BY <1>1, WithIsMap DEF UsersOK, Save
<1>3. DOMAIN cache' = DOMAIN cache /\ \A k \in DOMAIN cache : cache'[k].email = cache[k].email
  BY DEF Save, With, Over
<1>4. ~smtp => db' = cache'
  BY DEF Save, UsersOK, SavedIsCurrent
<1> QED
  BY <1>2, <1>3, <1>4, RecordsKeep

Addresses(d) == {d[k].email : k \in DOMAIN d} \ {NoEmail}

\* A user who was not known, with an address that was not known or with none.
LEMMA NewUser ==
    ASSUME NEW d, UniqueEmails(d), NEW l, l \notin DOMAIN d, NEW rec,
           rec.email \notin Addresses(d)
    PROVE  /\ UniqueEmails(With(d, l, rec))
           /\ Addresses(With(d, l, rec)) = Addresses(d) \cup ({rec.email} \ {NoEmail})
<1> DEFINE e == With(d, l, rec)
<1>1. /\ DOMAIN e = DOMAIN d \cup {l} /\ e[l] = rec
      /\ \A k \in DOMAIN d : e[k] = d[k]
  BY DEF With, Over
<1> HIDE DEF e
<1>2. UniqueEmails(e)
  <2> SUFFICES ASSUME NEW i \in DOMAIN e, NEW j \in DOMAIN e, e[i].email = e[j].email, e[i].email # NoEmail
               PROVE  i = j
    BY DEF UniqueEmails
  <2>1. CASE i = l /\ j # l
    BY <1>1, <2>1 DEF Addresses
  <2>2. CASE i # l /\ j = l
    BY <1>1, <2>2 DEF Addresses
  <2>3. CASE i # l /\ j # l
    BY <1>1, <2>3 DEF UniqueEmails
  <2> QED
    BY <2>1, <2>2, <2>3
<1>3. {e[k].email : k \in DOMAIN e} = {d[k].email : k \in DOMAIN d} \cup {rec.email}
  BY <1>1
<1>4. Addresses(e) = Addresses(d) \cup ({rec.email} \ {NoEmail})
  BY <1>3 DEF Addresses
<1> QED
  BY <1>2, <1>4 DEF e

LEMMA NewUserKeeps ==
    ASSUME UsersOK, UsersAssumptions, NEW l \in Logins, l \notin DOMAIN cache,
           NEW rec \in UsersRecord, rec.email \notin emails, Save(l, rec),
           emails' = emails \cup ({rec.email} \ {NoEmail}), UNCHANGED <<smtp, thread>>
    PROVE  UsersOK'
<1>1. IsMap(cache', Logins, UsersRecord) /\ IsMap(db', Logins, UsersRecord)
  BY WithIsMap DEF UsersOK, Save
<1>2. emails' \subseteq Emails
  BY DEF UsersOK, UsersRecord
<1>3. ASSUME ~smtp
      PROVE  /\ UniqueEmails(db') /\ thread' # "down" /\ db' = cache'
             /\ emails' = Addresses(cache')
  <2>1. /\ UniqueEmails(cache) /\ thread # "down" /\ db = cache
        /\ emails = Addresses(cache)
    BY <1>3 DEF UsersOK, EmailsMatch, SavedIsCurrent, Addresses
  <2>2. cache' = With(cache, l, rec) /\ db' = With(cache, l, rec)
    BY <2>1 DEF Save
  <2>3. /\ UniqueEmails(With(cache, l, rec))
        /\ Addresses(With(cache, l, rec)) = emails \cup ({rec.email} \ {NoEmail})
    BY <2>1, NewUser
  <2> QED
    BY <2>1, <2>2, <2>3
<1>4. EmailsMatch' /\ SavedIsCurrent'
  BY <1>3 DEF EmailsMatch, SavedIsCurrent, UniqueEmails, Addresses
<1> QED
  BY <1>1, <1>2, <1>4 DEF UsersOK

\* With mail: only the ranges matter.
LEMMA MailedKeepsUsers ==
    ASSUME UsersOK, smtp, UNCHANGED smtp, emails' \subseteq Emails,
           IsMap(cache', Logins, UsersRecord), IsMap(db', Logins, UsersRecord)
    PROVE  UsersOK'
  BY DEF UsersOK, EmailsMatch, SavedIsCurrent

\* The users in gone are deleted with their addresses.
LEMMA DeletionKeepsUsers ==
    ASSUME UsersOK, NEW gone \in SUBSET DOMAIN cache,
           cache' = Without(cache, gone), db' = Without(db, gone),
           emails' = ForgetEmails(gone), UNCHANGED <<smtp, thread>>
    PROVE  UsersOK'
<1>1. IsMap(cache', Logins, UsersRecord) /\ IsMap(db', Logins, UsersRecord) /\ emails' \subseteq Emails
  BY WithoutIsMap DEF UsersOK, ForgetEmails
<1>2. ASSUME ~smtp
      PROVE  /\ UniqueEmails(db') /\ thread' # "down" /\ db' = cache'
             /\ emails' = {cache'[k].email : k \in DOMAIN cache'} \ {NoEmail}
  <2>1. /\ UniqueEmails(cache) /\ thread # "down" /\ db = cache
        /\ emails = {cache[k].email : k \in DOMAIN cache} \ {NoEmail}
    BY <1>2 DEF UsersOK, EmailsMatch, SavedIsCurrent
  <2>2. /\ db' = cache' /\ DOMAIN cache' = DOMAIN cache \ gone
        /\ \A k \in DOMAIN cache' : cache'[k] = cache[k]
    BY <2>1 DEF Without, Restrict
  <2>3. UniqueEmails(db')
    BY <2>1, <2>2, UniqueStays
  <2>4. \A k \in DOMAIN cache \ gone : \A g \in gone :
           cache[k].email # NoEmail => cache[k].email # cache[g].email
    BY <2>1 DEF UniqueEmails
  <2>5. emails' = {cache'[k].email : k \in DOMAIN cache'} \ {NoEmail}
    BY <2>1, <2>2, <2>4 DEF ForgetEmails
  <2> QED
    BY <2>1, <2>2, <2>3, <2>5
<1>3. EmailsMatch' /\ SavedIsCurrent'
  BY <1>2 DEF EmailsMatch, SavedIsCurrent, UniqueEmails
<1> QED
  BY <1>1, <1>3 DEF UsersOK

\* The constructor loads what is in the database.
LEMMA ReloadKeepsUsers ==
    ASSUME UsersOK, NEW d, NEW a, NEW s, NEW ps, Reload(d, a, s, ps),
           IsMap(d, Logins, UsersRecord), ~smtp => UniqueEmails(d)
    PROVE  UsersOK'
<1>1. /\ db' = d /\ cache' = d /\ emails' = {d[l].email : l \in DOMAIN d} \ {NoEmail} /\ smtp' = smtp
      /\ thread' = IF UniqueEmails(d) THEN "running" ELSE "down"
  BY DEF Reload
<1>2. emails' \subseteq Emails
  BY <1>1 DEF IsMap, UsersRecord
<1>3. ~smtp => UniqueEmails(db') /\ thread' # "down"
  BY <1>1
<1>4. EmailsMatch'
  BY <1>1, <1>3 DEF EmailsMatch, UniqueEmails
<1> QED
  BY <1>1, <1>2, <1>4 DEF UsersOK, SavedIsCurrent

----------------------------------------------------------------------------
(* Fee plans.                                                              *)

\* Handlers that leave the plans alone, whatever they do to the users.
LEMMA AssignmentKeeps ==
    ASSUME PlansOK, UNCHANGED <<smtp, plans, plansDb, referred>>, IsMap(assigned', Logins, Plans),
           ~smtp => \A l \in DOMAIN cache' :
              /\ cache'[l].plan \in DOMAIN plans \cup DOMAIN plansDb
              /\ l \in DOMAIN assigned' /\ assigned'[l] = cache'[l].plan
    PROVE  PlansOK'
  BY DEF PlansOK, RowsOK, PlansInSync

\* The users who remain keep their plans.
LEMMA SamePlansKeep ==
    ASSUME PlansOK, UNCHANGED <<smtp, plans, plansDb, referred, assigned>>,
           ~smtp => \A l \in DOMAIN cache' : l \in DOMAIN cache /\ cache'[l].plan = cache[l].plan
    PROVE  PlansOK'
  BY DEF PlansOK, RowsOK, PlansInSync

\* A user gets a plan that exists, and the backends are told.
LEMMA AssignedKeeps ==
    ASSUME PlansOK, NEW l \in Logins, NEW rec, rec.plan \in Plans, rec.plan \in DOMAIN plans,
           UNCHANGED <<smtp, plans, plansDb, referred>>,
           cache' = With(cache, l, rec), assigned' = With(assigned, l, rec.plan)
    PROVE  PlansOK'
<1>1. IsMap(assigned', Logins, Plans)
  BY WithIsMap DEF PlansOK
<1>2. /\ DOMAIN cache' = DOMAIN cache \cup {l} /\ cache'[l] = rec
      /\ \A k \in DOMAIN cache : k # l => cache'[k] = cache[k]
  BY DEF With, Over
<1>3. /\ DOMAIN assigned' = DOMAIN assigned \cup {l} /\ assigned'[l] = rec.plan
      /\ \A k \in DOMAIN assigned : k # l => assigned'[k] = assigned[k]
  BY DEF With, Over
<1>4. ~smtp => \A k \in DOMAIN cache' :
         /\ cache'[k].plan \in DOMAIN plans \cup DOMAIN plansDb
         /\ k \in DOMAIN assigned' /\ assigned'[k] = cache'[k].plan
  BY <1>2, <1>3 DEF PlansOK, PlansInSync
<1> QED
  BY <1>1, <1>4, AssignmentKeeps

LEMMA PutPlanKeeps ==
    ASSUME PlansOK, NEW p \in Plans, NEW plan \in FeePlan, PutPlan(p, plan),
           UNCHANGED <<smtp, cache, assigned>>
    PROVE  PlansOK'
<1>1. IsMap(plans', Plans, FeePlan) /\ IsMap(plansDb', Plans, FeePlan)
  BY WithIsMap DEF PlansOK, RowsOK, PutPlan
<1>2. DOMAIN plans' = DOMAIN plans \cup {p} /\ DOMAIN plansDb' = DOMAIN plansDb \cup {p}
  BY DEF PutPlan, With, Over
<1>3. referred' \subseteq DOMAIN plans'
  BY <1>2 DEF PlansOK, RowsOK, PutPlan
<1>4. RowsOK'
  BY <1>1, <1>2, <1>3 DEF PlansOK, RowsOK
<1>5. PlansInSync'
  BY <1>2 DEF PlansOK, PlansInSync
<1> QED
  BY <1>4, <1>5 DEF PlansOK

\* Nobody is left on a plan that is deleted.
LEMMA DeletePlanKeeps ==
    ASSUME PlansOK, UsersAssumptions, NEW p \in PlanIds, DeleteFeePlan(p), IsMap(cache, Logins, UsersRecord)
    PROVE  PlansOK'
<1>1. /\ DOMAIN plans' = DOMAIN plans \ {p} /\ DOMAIN plansDb' = DOMAIN plansDb \ {p}
      /\ p # "default"
  BY DEF DeleteFeePlan, Without, Restrict, UsersAssumptions
<1>2. IsMap(plans', Plans, FeePlan) /\ IsMap(plansDb', Plans, FeePlan)
  BY WithoutIsMap DEF PlansOK, RowsOK, DeleteFeePlan
<1>3. referred' \subseteq DOMAIN plans'
  BY <1>1 DEF PlansOK, RowsOK, DeleteFeePlan
<1>4. RowsOK'
  BY <1>1, <1>2, <1>3 DEF PlansOK, RowsOK
<1>5. /\ OnPlan(p) \subseteq DOMAIN cache /\ OnPlan(p) \subseteq Logins
      /\ \A l \in DOMAIN cache \ OnPlan(p) : cache[l].plan # p
  BY DEF OnPlan, IsMap
<1>6. /\ DOMAIN cache' = DOMAIN cache
      /\ \A l \in OnPlan(p) : cache'[l] = [cache[l] EXCEPT !.plan = "default"]
      /\ \A l \in DOMAIN cache \ OnPlan(p) : cache'[l] = cache[l]
  BY <1>5 DEF DeleteFeePlan, Moved
<1>7. \A l \in OnPlan(p) : cache'[l].plan = "default"
  BY <1>5, <1>6 DEF IsMap, UsersRecord
<1>8. /\ DOMAIN assigned' = OnPlan(p) \cup DOMAIN assigned
      /\ \A l \in OnPlan(p) : assigned'[l] = "default"
      /\ \A l \in DOMAIN assigned \ OnPlan(p) : assigned'[l] = assigned[l]
  BY DEF DeleteFeePlan, Over
<1>9. IsMap(assigned', Logins, Plans)
  BY <1>5, <1>8 DEF PlansOK, IsMap, Plans
<1>10. PlansInSync'
  <2> SUFFICES ASSUME ~smtp, NEW l \in DOMAIN cache'
               PROVE  /\ cache'[l].plan \in DOMAIN plans' \cup DOMAIN plansDb'
                      /\ l \in DOMAIN assigned' /\ assigned'[l] = cache'[l].plan
    BY DEF PlansInSync, DeleteFeePlan
  <2>1. CASE l \in OnPlan(p)
    BY <1>4, <1>7, <1>8, <2>1 DEF RowsOK
  <2>2. CASE l \notin OnPlan(p)
    BY <1>1, <1>5, <1>6, <1>8, <2>2 DEF PlansOK, PlansInSync
  <2> QED
    BY <2>1, <2>2
<1> QED
  BY <1>4, <1>9, <1>10 DEF PlansOK

\* The plans and the assignments are loaded from the database.
LEMMA ReloadKeepsPlans ==
    ASSUME PlansOK, NEW d, NEW a, NEW s, Reload(d, a, s, plansDb), IsMap(d, Logins, UsersRecord),
           ~smtp => \A l \in DOMAIN d : d[l].plan \in DOMAIN plansDb \cup {"default"}
    PROVE  PlansOK'
<1>1. /\ plansDb' = plansDb /\ cache' = d /\ smtp' = smtp
      /\ referred' = {p \in Accepted(d, plansDb) : plansDb[p].referral}
      /\ assigned' = [l \in DOMAIN d |-> d[l].plan]
  BY DEF Reload
<1>2. Accepted(d, plansDb) \subseteq DOMAIN plansDb
  BY DEF Accepted
<1>3. /\ DOMAIN plans' = Accepted(d, plansDb) \cup {"default"}
      /\ \A p \in Accepted(d, plansDb) : plans'[p] = plansDb[p]
      /\ "default" \notin Accepted(d, plansDb) => plans'["default"] = EmptyPlan
  BY DEF Reload, Over, With, Restrict, Empty
<1>4. EmptyPlan \in FeePlan
  BY DEF EmptyPlan, FeePlan
<1>5. IsMap(plans', Plans, FeePlan)
  BY <1>2, <1>3, <1>4 DEF PlansOK, RowsOK, IsMap, Plans
<1>6. RowsOK'
  BY <1>1, <1>2, <1>3, <1>5 DEF PlansOK, RowsOK
<1>7. IsMap(assigned', Logins, Plans)
  BY <1>1 DEF IsMap, UsersRecord
<1>8. PlansInSync'
  BY <1>1, <1>3 DEF PlansInSync
<1> QED
  BY <1>6, <1>7, <1>8 DEF PlansOK

----------------------------------------------------------------------------
(* The handlers, one by one.                                               *)

\* The parts a handler leaves alone.
LEMMA Untouched ==
    /\ RequestsOK /\ UNCHANGED <<smtp, requests, mails>> => RequestsOK'
    /\ SessionsOK /\ UNCHANGED logged => SessionsOK'
    /\ UsersOK /\ UNCHANGED <<smtp, users>> /\ (thread' = thread \/ thread' # "down") => UsersOK'
    /\ PlansOK /\ UNCHANGED <<smtp, cache, fees>> => PlansOK'
    /\ Bounded /\ UNCHANGED <<thread, restarts>> => Bounded'
<1>1. RequestsOK /\ UNCHANGED <<smtp, requests, mails>> => RequestsOK'
  BY DEF RequestsOK, requests
<1>2. SessionsOK /\ UNCHANGED logged => SessionsOK'
  BY DEF SessionsOK, OneSession, logged
<1>3. UsersOK /\ UNCHANGED <<smtp, users>> /\ (thread' = thread \/ thread' # "down") => UsersOK'
  BY DEF UsersOK, EmailsMatch, SavedIsCurrent, UniqueEmails, users
<1>4. PlansOK /\ UNCHANGED <<smtp, cache, fees>> => PlansOK'
  BY DEF PlansOK, RowsOK, PlansInSync, fees
<1>5. Bounded /\ UNCHANGED <<thread, restarts>> => Bounded'
  BY DEF Bounded
<1> QED
  BY <1>1, <1>2, <1>3, <1>4, <1>5

LEMMA NewRecordIs ==
    ASSUME NEW e \in Emails \cup {NoEmail}, NEW active \in BOOLEAN, NEW p \in Plans
    PROVE  /\ NewRecord(e, active, p) \in UsersRecord
           /\ NewRecord(e, active, p).email = e /\ NewRecord(e, active, p).plan = p
  BY DEF NewRecord, UsersRecord

LEMMA UserCreateKeeps ==
    ASSUME UsersInv, NEW l \in Logins, NEW e \in Emails, NEW p \in Plans, UserCreate(l, e, p)
    PROVE  UsersInv'
<1> DEFINE rec == NewRecord(e, FALSE, p)
           m == [id |-> lastAction + 1, action |-> [login |-> l, type |-> "UserActivate"], rec |-> rec]
<1>1. /\ e \notin emails /\ p \in referred \cup {"default"} /\ l \notin DOMAIN cache
      /\ cache' = With(cache, l, rec) /\ Request(l, "UserActivate", rec)
      /\ UNCHANGED <<smtp, logged, plans, plansDb, referred, thread, restarts>>
  BY DEF UserCreate
<1>2. rec \in UsersRecord /\ rec.email = e /\ rec.plan = p /\ rec # NoRecord
  <2>1. rec \in UsersRecord /\ rec.email = e /\ rec.plan = p
    BY NewRecordIs
  <2> QED
    BY <2>1, NoRecordAssumption
<1>3. m.rec = rec /\ m.action.login = l
  OBVIOUS
<1>4. smtp => db' = db /\ emails' = emails /\ assigned' = assigned
  BY <1>1 DEF Request
<1>5. ~smtp => Confirm(m)
  BY <1>1 DEF Request
<1> HIDE DEF m, rec
<1>6. ~smtp => db' = With(db, l, rec) /\ emails' = emails \cup {e} /\ assigned' = With(assigned, l, p)
  BY <1>2, <1>3, <1>5 DEF Confirm
<1>7. RequestsOK'
  <2>1. "UserActivate" \in ActionTypes /\ rec.email \in Emails
    BY <1>2 DEF ActionTypes
  <2> QED
    BY <1>1, <1>2, <2>1, RequestKeepsRequests DEF UsersInv
<1>8. IsMap(cache', Logins, UsersRecord)
  BY <1>1, <1>2, WithIsMap DEF UsersInv, UsersOK
<1>9. p \in DOMAIN plans
  BY <1>1 DEF UsersInv, PlansOK, RowsOK
<1>10. CASE smtp
  <2>1. UsersOK'
    BY <1>1, <1>4, <1>8, <1>10, MailedKeepsUsers DEF UsersInv, UsersOK
  <2>2. PlansOK'
    BY <1>1, <1>4, <1>10, AssignmentKeeps DEF UsersInv, PlansOK
  <2> QED
    BY <1>1, <1>7, <2>1, <2>2, Untouched DEF UsersInv
<1>11. CASE ~smtp
  <2>1. emails' = emails \cup ({rec.email} \ {NoEmail}) /\ rec.email \notin emails /\ Save(l, rec)
    BY <1>1, <1>2, <1>6, <1>11, UsersAssumptions DEF UsersAssumptions, Save
  <2>2. UsersOK'
    BY <1>1, <1>2, <2>1, UsersAssumptions, NewUserKeeps DEF UsersInv
  <2>3. PlansOK'
    BY <1>1, <1>2, <1>6, <1>9, <1>11, AssignedKeeps DEF UsersInv
  <2> QED
    BY <1>1, <1>7, <2>2, <2>3, Untouched DEF UsersInv
<1> QED
  BY <1>10, <1>11

LEMMA UserCreateForceKeeps ==
    ASSUME UsersInv, NEW l \in Logins, NEW e \in Emails \cup {NoEmail}, NEW p \in Plans,
           UserCreateForce(l, e, p)
    PROVE  UsersInv'
<1> DEFINE rec == NewRecord(e, TRUE, p)
<1>1. /\ e \notin emails /\ p \in DOMAIN plans /\ l \notin DOMAIN cache /\ Save(l, rec)
      /\ emails' = emails \cup ({e} \ {NoEmail}) /\ assigned' = With(assigned, l, p)
      /\ UNCHANGED <<smtp, requests, logged, plans, plansDb, referred, mails, thread, restarts>>
  BY DEF UserCreateForce
<1>2. rec \in UsersRecord /\ rec.email = e /\ rec.plan = p
  BY NewRecordIs
<1> HIDE DEF rec
<1>3. UsersOK'
  BY <1>1, <1>2, UsersAssumptions, NewUserKeeps DEF UsersInv
<1>4. cache' = With(cache, l, rec)
  BY <1>1 DEF Save
<1>5. PlansOK'
  BY <1>1, <1>2, <1>4, AssignedKeeps DEF UsersInv
<1> QED
  BY <1>1, <1>3, <1>5, Untouched DEF UsersInv

LEMMA ResendEmailKeeps == ASSUME UsersInv, NEW l \in Logins, ResendEmail(l) PROVE UsersInv'
<1>1. UNCHANGED <<smtp, users, logged, fees, thread, restarts>>
  BY DEF ResendEmail
<1>2. cache' = cache
  BY <1>1 DEF users
<1>3. RequestsOK'
  BY ResendKeepsRequests DEF UsersInv
<1> QED
  BY <1>1, <1>2, <1>3, Untouched DEF UsersInv

LEMMA InitiateKeeps ==
    ASSUME UsersInv, NEW l \in Logins, NEW type \in ActionTypes, Initiate(l, type)
    PROVE  UsersInv'
<1> DEFINE m == [id |-> lastAction + 1, action |-> [login |-> l, type |-> type], rec |-> NoRecord]
<1>1. /\ Request(l, type, NoRecord)
      /\ UNCHANGED <<smtp, cache, logged, plans, plansDb, referred, thread, restarts>>
  BY DEF Initiate
<1>2. RequestsOK'
  BY <1>1, RequestKeepsRequests DEF UsersInv
<1>3. smtp => UNCHANGED <<db, emails, assigned>>
  BY <1>1 DEF Request
<1>4. ~smtp => Confirm(m) /\ m.rec = NoRecord
  BY <1>1 DEF Request
<1> HIDE DEF m
<1>5. UNCHANGED <<db, emails, assigned>>
  BY <1>3, <1>4 DEF Confirm, UsersInv, RequestsOK
<1>6. UNCHANGED users /\ UNCHANGED fees
  BY <1>1, <1>5 DEF users, fees
<1> QED
  BY <1>1, <1>2, <1>6, Untouched DEF UsersInv

\* A registration is written after its mail only.
LEMMA MailSentKeeps == ASSUME UsersInv, NEW m \in mails, MailSent(m) PROVE UsersInv'
<1>1. /\ Confirm(m)
      /\ UNCHANGED <<smtp, cache, lastAction, logged, plans, plansDb, referred, thread, restarts>>
  BY DEF MailSent
<1>2. smtp
  BY DEF UsersInv, RequestsOK
<1>3. RequestsOK'
  BY MailSentKeepsRequests DEF UsersInv
<1>4. /\ m.action.login \in Logins
      /\ m.rec # NoRecord => m.rec \in UsersRecord /\ m.rec.email \in Emails /\ m.rec.plan \in Plans
  BY DEF UsersInv, RequestsOK, MailsOK, UserActionRecord, UsersRecord
<1>5. \/ UNCHANGED <<db, emails, assigned>>
      \/ /\ m.rec # NoRecord /\ emails' = emails \cup {m.rec.email}
         /\ db' = With(db, m.action.login, m.rec) /\ assigned' = With(assigned, m.action.login, m.rec.plan)
  BY <1>1 DEF Confirm
<1>6. IsMap(db', Logins, UsersRecord) /\ IsMap(assigned', Logins, Plans) /\ emails' \subseteq Emails
  BY <1>4, <1>5, WithIsMap DEF UsersInv, UsersOK, PlansOK
<1>7. UsersOK'
  BY <1>1, <1>2, <1>6, MailedKeepsUsers DEF UsersInv, UsersOK
<1>8. PlansOK'
  BY <1>1, <1>2, <1>6, AssignmentKeeps DEF UsersInv
<1> QED
  BY <1>1, <1>3, <1>7, <1>8, Untouched DEF UsersInv

LEMMA MailFailedKeeps == ASSUME UsersInv, NEW m \in mails, MailFailed(m) PROVE UsersInv'
<1>1. mails' \subseteq mails /\ UNCHANGED <<smtp, users, requests, logged, fees, thread, restarts>>
  BY DEF MailFailed
<1>2. lastAction \in Nat
  BY DEF UsersInv, RequestsOK
<1>3. MailsOK(mails', DOMAIN actions, lastAction)
  BY <1>1, <1>2, MailsKept DEF UsersInv, RequestsOK
<1>4. RequestsOK'
  BY <1>1, <1>3 DEF UsersInv, RequestsOK, requests
<1>5. cache' = cache
  BY <1>1 DEF users
<1> QED
  BY <1>1, <1>4, <1>5, Untouched DEF UsersInv

\* What an action changes in a record, and what no handler does.
LEMMA ActedIs ==
    ASSUME NEW rec \in UsersRecord, NEW type \in ActionTypes
    PROVE  /\ Acted(rec, type) \in UsersRecord /\ Acted(rec, type).email = rec.email
           /\ Acted(rec, type).plan = rec.plan
<1>1. CASE type = "UserActivate"
  BY <1>1 DEF Acted, UsersRecord
<1>2. CASE type = "UserChangePassword"
  BY <1>2 DEF Acted, UsersRecord
<1>3. CASE type = "UserTwoFactorActivate"
  BY <1>3 DEF Acted, UsersRecord
<1>4. CASE type = "UserTwoFactorDeactivate"
  BY <1>4 DEF Acted, UsersRecord
<1> QED
  BY <1>1, <1>2, <1>3, <1>4 DEF ActionTypes

\* A handler that saves a record with the old address and plan.
LEMMA SaveKeepsPlans ==
    ASSUME PlansOK, NEW l \in DOMAIN cache, NEW rec, rec.plan = cache[l].plan, Save(l, rec),
           UNCHANGED <<smtp, fees>>
    PROVE  PlansOK'
<1>1. DOMAIN cache' = DOMAIN cache /\ \A k \in DOMAIN cache : cache'[k].plan = cache[k].plan
  BY DEF Save, With, Over
<1> QED
  BY <1>1, SamePlansKeep DEF fees

LEMMA UserActionKeeps == ASSUME UsersInv, NEW id \in DOMAIN actions, UserAction(id) PROVE UsersInv'
<1> DEFINE l == actions[id].login
           rec == Acted(cache[l], actions[id].type)
<1>1. /\ ActionRemove(id, l)
      /\ UNCHANGED <<smtp, emails, lastAction, logged, fees, mails, thread, restarts>>
  BY DEF UserAction
<1>2. \/ l \in DOMAIN cache /\ Save(l, rec)
      \/ UNCHANGED <<cache, db>>
  BY DEF UserAction
<1>3. RequestsOK'
  <2>1. \A k \in DOMAIN actionOf : actionOf[k] \in {id} => k \in {l}
    BY DEF UsersInv, RequestsOK, ActionsOK
  <2>2. actions' = Without(actions, {id}) /\ actionOf' = Without(actionOf, {l})
    BY <1>1 DEF ActionRemove
  <2> HIDE DEF l
  <2> QED
    BY <1>1, <2>1, <2>2, RemovalKeepsRequests DEF UsersInv
<1>4. CASE UNCHANGED <<cache, db>>
  BY <1>1, <1>3, <1>4, Untouched DEF UsersInv, users
<1>5. CASE l \in DOMAIN cache /\ Save(l, rec)
  <2>1. rec \in UsersRecord /\ rec.email = cache[l].email /\ rec.plan = cache[l].plan
    <3>1. actions[id].type \in ActionTypes /\ cache[l] \in UsersRecord
      BY <1>5 DEF UsersInv, RequestsOK, ActionsOK, UsersOK, IsMap, UserActionRecord
    <3> QED
      BY <3>1, ActedIs
  <2> HIDE DEF l, rec
  <2>2. UsersOK'
    BY <1>1, <1>5, <2>1, SaveKeepsUsers DEF UsersInv
  <2>3. PlansOK'
    BY <1>1, <1>5, <2>1, SaveKeepsPlans DEF UsersInv
  <2> QED
    BY <1>1, <1>3, <2>2, <2>3, Untouched DEF UsersInv
<1> QED
  BY <1>2, <1>4, <1>5

LEMMA SaveRecordKeeps == ASSUME UsersInv, NEW l, SaveRecord(l) PROVE UsersInv'
<1>1. /\ l \in DOMAIN cache /\ Save(l, cache[l])
      /\ UNCHANGED <<smtp, emails, requests, logged, fees, mails, thread, restarts>>
  BY DEF SaveRecord
<1>2. cache[l] \in UsersRecord
  BY <1>1 DEF UsersInv, UsersOK, IsMap
<1>3. UsersOK'
  BY <1>1, <1>2, SaveKeepsUsers DEF UsersInv
<1>4. PlansOK'
  BY <1>1, SaveKeepsPlans DEF UsersInv
<1> QED
  BY <1>1, <1>3, <1>4, Untouched DEF UsersInv

LEMMA LoginKeeps == ASSUME UsersInv, NEW l \in Logins, Login(l) PROVE UsersInv'
<1> DEFINE s == [login |-> l, permanent |-> FALSE]
<1>1. /\ SessionAdd(s) /\ l \notin DOMAIN sessionOf
      /\ UNCHANGED <<smtp, users, requests, fees, mails, thread, restarts>>
  BY DEF Login
<1>2. s \in UserSessionRecord /\ s.login = l
  BY DEF UserSessionRecord
<1> HIDE DEF s
<1>3. SessionsOK'
  BY <1>1, <1>2, UsersAssumptions, SessionAddKeeps DEF UsersInv
<1>4. cache' = cache
  BY <1>1 DEF users
<1> QED
  BY <1>1, <1>3, <1>4, Untouched DEF UsersInv

LEMMA LogoutKeeps == ASSUME UsersInv, NEW s \in DOMAIN sessions, Logout(s) PROVE UsersInv'
<1>1. /\ ~sessions[s].permanent /\ SessionRemove({s})
      /\ UNCHANGED <<smtp, users, requests, lastSession, fees, mails, thread, restarts>>
  BY DEF Logout
<1>2. SessionsOK'
  BY <1>1, SessionRemoveKeeps DEF UsersInv
<1>3. cache' = cache
  BY <1>1 DEF users
<1> QED
  BY <1>1, <1>2, <1>3, Untouched DEF UsersInv

LEMMA QueryMonitoringSessionKeeps ==
    ASSUME UsersInv, NEW l \in Logins, QueryMonitoringSession(l) PROVE UsersInv'
<1> DEFINE s == [login |-> l, permanent |-> TRUE]
           rec == [cache[l] EXCEPT !.monitor = TRUE]
<1>1. /\ l \in DOMAIN cache /\ SessionAdd(s) /\ Save(l, rec)
      /\ UNCHANGED <<smtp, emails, requests, fees, mails, thread, restarts>>
  BY DEF QueryMonitoringSession
<1>2. s \in UserSessionRecord /\ s.permanent
  BY DEF UserSessionRecord
<1>3. rec \in UsersRecord /\ rec.email = cache[l].email /\ rec.plan = cache[l].plan
  BY <1>1 DEF UsersInv, UsersOK, IsMap, UsersRecord
<1> HIDE DEF s, rec
<1>4. SessionsOK'
  BY <1>1, <1>2, UsersAssumptions, SessionAddKeeps DEF UsersInv
<1>5. UsersOK'
  BY <1>1, <1>3, SaveKeepsUsers DEF UsersInv
<1>6. PlansOK'
  BY <1>1, <1>3, SaveKeepsPlans DEF UsersInv
<1> QED
  BY <1>1, <1>4, <1>5, <1>6, Untouched DEF UsersInv

LEMMA CreateFeePlanKeeps == ASSUME UsersInv, NEW p \in Plans, CreateFeePlan(p) PROVE UsersInv'
<1>1. /\ PutPlan(p, EmptyPlan)
      /\ UNCHANGED <<smtp, users, requests, logged, assigned, mails, thread, restarts>>
  BY DEF CreateFeePlan
<1>2. EmptyPlan \in FeePlan /\ cache' = cache
  BY <1>1 DEF EmptyPlan, FeePlan, users
<1>3. PlansOK'
  BY <1>1, <1>2, PutPlanKeeps DEF UsersInv
<1> QED
  BY <1>1, <1>3, Untouched DEF UsersInv

LEMMA UpdateFeePlanKeeps ==
    ASSUME UsersInv, NEW p \in Plans, NEW r \in Receivers, UpdateFeePlan(p, r) PROVE UsersInv'
<1> DEFINE plan == [plans[p] EXCEPT !.receivers = r]
<1>1. /\ p \in DOMAIN plans /\ PutPlan(p, plan)
      /\ UNCHANGED <<smtp, users, requests, logged, assigned, mails, thread, restarts>>
  BY DEF UpdateFeePlan
<1>2. plans[p] \in FeePlan /\ r \in SUBSET Logins /\ cache' = cache
  BY <1>1, UsersAssumptions DEF UsersAssumptions, UsersInv, PlansOK, RowsOK, IsMap, users
<1>3. plan \in FeePlan
  BY <1>2 DEF FeePlan
<1> HIDE DEF plan
<1>4. PlansOK'
  BY <1>1, <1>2, <1>3, PutPlanKeeps DEF UsersInv
<1> QED
  BY <1>1, <1>4, Untouched DEF UsersInv

LEMMA RenewFeePlanReferralIdKeeps ==
    ASSUME UsersInv, NEW p \in Plans, RenewFeePlanReferralId(p) PROVE UsersInv'
<1> DEFINE plan == [plans[p] EXCEPT !.referral = TRUE]
<1>1. /\ p \in DOMAIN plans /\ PutPlan(p, plan)
      /\ UNCHANGED <<smtp, users, requests, logged, assigned, mails, thread, restarts>>
  BY DEF RenewFeePlanReferralId
<1>2. plans[p] \in FeePlan /\ cache' = cache
  BY <1>1 DEF UsersInv, PlansOK, RowsOK, IsMap, users
<1>3. plan \in FeePlan
  BY <1>2 DEF FeePlan
<1> HIDE DEF plan
<1>4. PlansOK'
  BY <1>1, <1>2, <1>3, PutPlanKeeps DEF UsersInv
<1> QED
  BY <1>1, <1>4, Untouched DEF UsersInv

LEMMA ChangeFeePlanKeeps ==
    ASSUME UsersInv, NEW l \in Logins, NEW p \in Plans, ChangeFeePlan(l, p) PROVE UsersInv'
<1> DEFINE rec == [cache[l] EXCEPT !.plan = p]
<1>1. /\ p \in DOMAIN plans /\ l \in DOMAIN cache /\ Save(l, rec) /\ assigned' = With(assigned, l, p)
      /\ UNCHANGED <<smtp, emails, requests, logged, plans, plansDb, referred, mails, thread, restarts>>
  BY DEF ChangeFeePlan
<1>2. rec \in UsersRecord /\ rec.email = cache[l].email /\ rec.plan = p
  BY <1>1 DEF UsersInv, UsersOK, IsMap, UsersRecord
<1> HIDE DEF rec
<1>3. UsersOK'
  BY <1>1, <1>2, SaveKeepsUsers DEF UsersInv
<1>4. cache' = With(cache, l, rec)
  BY <1>1 DEF Save
<1>5. PlansOK'
  BY <1>1, <1>2, <1>4, AssignedKeeps DEF UsersInv
<1> QED
  BY <1>1, <1>3, <1>5, Untouched DEF UsersInv

\* Users who are moved to another plan keep the rest of their record.
LEMMA MovedIs ==
    ASSUME IsMap(cache, Logins, UsersRecord), NEW f, IsMap(f, Logins, UsersRecord),
           NEW who \in SUBSET DOMAIN cache, NEW p \in Plans
    PROVE  /\ IsMap(Moved(f, who, p), Logins, UsersRecord)
           /\ DOMAIN Moved(f, who, p) = DOMAIN f \cup who
           /\ \A k \in who : /\ Moved(f, who, p)[k].email = cache[k].email
                             /\ Moved(f, who, p)[k].plan = p
           /\ \A k \in DOMAIN f \ who : Moved(f, who, p)[k] = f[k]
<1> DEFINE g == Moved(f, who, p)
<1>1. /\ DOMAIN g = DOMAIN f \cup who
      /\ \A k \in who : g[k] = [cache[k] EXCEPT !.plan = p]
      /\ \A k \in DOMAIN f \ who : g[k] = f[k]
  BY DEF Moved
<1>2. \A k \in who : k \in Logins /\ cache[k] \in UsersRecord
  BY DEF IsMap
<1>3. \A k \in who : g[k] \in UsersRecord /\ g[k].email = cache[k].email /\ g[k].plan = p
  BY <1>1, <1>2 DEF UsersRecord
<1> HIDE DEF g
<1>4. IsMap(g, Logins, UsersRecord)
  BY <1>1, <1>2, <1>3 DEF IsMap
<1> QED
  BY <1>1, <1>3, <1>4 DEF g

LEMMA DeleteFeePlanKeeps == ASSUME UsersInv, NEW p \in PlanIds, DeleteFeePlan(p) PROVE UsersInv'
<1>1. /\ cache' = Moved(cache, OnPlan(p), "default") /\ db' = Moved(db, OnPlan(p), "default")
      /\ UNCHANGED <<smtp, emails, requests, logged, mails, thread, restarts>>
  BY DEF DeleteFeePlan
<1>2. OnPlan(p) \in SUBSET DOMAIN cache /\ "default" \in Plans
  BY DEF OnPlan, Plans
<1>3. IsMap(cache, Logins, UsersRecord) /\ IsMap(db, Logins, UsersRecord)
  BY DEF UsersInv, UsersOK
<1>4. /\ IsMap(cache', Logins, UsersRecord) /\ DOMAIN cache' = DOMAIN cache \cup OnPlan(p)
      /\ \A k \in OnPlan(p) : cache'[k].email = cache[k].email
      /\ \A k \in DOMAIN cache \ OnPlan(p) : cache'[k] = cache[k]
  BY <1>1, <1>2, <1>3, MovedIs, SMTT(30)
<1>5. IsMap(db', Logins, UsersRecord)
  BY <1>1, <1>2, <1>3, MovedIs
<1>6. DOMAIN cache' = DOMAIN cache /\ \A k \in DOMAIN cache : cache'[k].email = cache[k].email
  BY <1>2, <1>4
<1>7. ~smtp => db' = cache'
  BY <1>1 DEF UsersInv, UsersOK, SavedIsCurrent
<1>8. UsersOK'
  BY <1>1, <1>4, <1>5, <1>6, <1>7, RecordsKeep DEF UsersInv
<1>9. PlansOK'
  BY <1>3, UsersAssumptions, DeletePlanKeeps DEF UsersInv
<1> QED
  BY <1>1, <1>8, <1>9, Untouched DEF UsersInv

LEMMA CleanupKeeps ==
    ASSUME UsersInv, NEW n, NEW idle \in SUBSET DOMAIN sessions, Cleanup(n, idle)
    PROVE  UsersInv'
<1> DEFINE old == Expired(n)
           gone == NotActivated(old)
           L == {actions[id].login : id \in old}
<1>1. /\ \A s \in idle : ~sessions[s].permanent
      /\ SessionRemove(idle)
      /\ actions' = Without(actions, old) /\ actionOf' = Without(actionOf, L)
      /\ cache' = Without(cache, gone) /\ db' = Without(db, gone)
      /\ emails' = ForgetEmails(gone)
      /\ UNCHANGED <<smtp, lastAction, lastSession, fees, mails, thread, restarts>>
  BY DEF Cleanup
<1>2. \A l \in DOMAIN actionOf : actionOf[l] \in old => l \in L
  BY DEF UsersInv, RequestsOK, ActionsOK
<1>3. gone \in SUBSET DOMAIN cache
  BY DEF NotActivated
<1> HIDE DEF old, gone, L
<1>4. RequestsOK'
  BY <1>1, <1>2, RemovalKeepsRequests DEF UsersInv
<1>5. SessionsOK'
  BY <1>1, SessionRemoveKeeps DEF UsersInv
<1>6. UsersOK'
  BY <1>1, <1>3, DeletionKeepsUsers DEF UsersInv
<1>7. \A l \in DOMAIN cache' : l \in DOMAIN cache /\ cache'[l].plan = cache[l].plan
  BY <1>1 DEF Without, Restrict
<1>8. PlansOK'
  BY <1>1, <1>7, SamePlansKeep DEF UsersInv, fees
<1> QED
  BY <1>1, <1>4, <1>5, <1>6, <1>8, Untouched DEF UsersInv

\* A thread that waits for its own lock changes nothing any more.
LEMMA BlocksKeeps == ASSUME UsersInv, Blocks PROVE UsersInv'
<1>1. /\ thread' = "stuck" /\ thread' # "down"
      /\ UNCHANGED <<smtp, users, requests, logged, fees, mails, restarts>>
  BY DEF Blocks, Stuck
<1>2. Bounded'
  BY <1>1 DEF UsersInv, Bounded
<1>3. cache' = cache
  BY <1>1 DEF users
<1> QED
  BY <1>1, <1>2, <1>3, Untouched DEF UsersInv

----------------------------------------------------------------------------
(* Restarts, also of a process that dies between two writes.               *)

LEMMA ReloadKeeps ==
    ASSUME UsersInv, NEW d, NEW a, NEW ss, Reload(d, a, ss, plansDb),
           lastAction' \in 0 .. MaxActions, IsMap(a, 1 .. lastAction', UserActionRecord),
           lastSession' \in 0 .. MaxSessions, IsMap(ss, 1 .. lastSession', UserSessionRecord),
           \A i, j \in DOMAIN ss :
              ~ss[i].permanent /\ ~ss[j].permanent /\ ss[i].login = ss[j].login => i = j,
           IsMap(d, Logins, UsersRecord), ~smtp => UniqueEmails(d),
           ~smtp => \A l \in DOMAIN d : d[l].plan \in DOMAIN plansDb \cup {"default"}
    PROVE  UsersInv'
<1>1. RequestsOK'
  BY ReloadKeepsRequests DEF UsersInv
<1>2. SessionsOK'
  BY ReloadKeepsSessions DEF UsersInv
<1>3. UsersOK'
  BY ReloadKeepsUsers DEF UsersInv
<1>4. PlansOK'
  BY ReloadKeepsPlans DEF UsersInv
<1>5. Bounded'
  <2>1. restarts < MaxRestarts /\ restarts' = restarts + 1 /\ thread' \in {"running", "down"}
    BY DEF Reload
  <2> QED
    BY <2>1, UsersAssumptions DEF UsersAssumptions, UsersInv, Bounded
<1> QED
  BY <1>1, <1>2, <1>3, <1>4, <1>5 DEF UsersInv

\* What is in the databases between two handlers.
LEMMA DatabasesAre ==
    ASSUME UsersInv
    PROVE  /\ IsMap(actions, 1 .. lastAction, UserActionRecord) /\ lastAction \in 0 .. MaxActions
           /\ IsMap(sessions, 1 .. lastSession, UserSessionRecord) /\ lastSession \in 0 .. MaxSessions
           /\ \A i, j \in DOMAIN sessions :
                 ~sessions[i].permanent /\ ~sessions[j].permanent /\ sessions[i].login = sessions[j].login => i = j
           /\ IsMap(db, Logins, UsersRecord)
           /\ ~smtp => UniqueEmails(db) /\ db = cache
           /\ ~smtp => \A l \in DOMAIN db : db[l].plan \in DOMAIN plansDb \cup {"default"}
<1>1. /\ IsMap(actions, 1 .. lastAction, UserActionRecord) /\ lastAction \in 0 .. MaxActions
      /\ IsMap(sessions, 1 .. lastSession, UserSessionRecord) /\ lastSession \in 0 .. MaxSessions
  BY DEF UsersInv, RequestsOK, ActionsOK, SessionsOK
<1>2. IsMap(db, Logins, UsersRecord) /\ (~smtp => UniqueEmails(db) /\ db = cache)
  BY DEF UsersInv, UsersOK, EmailsMatch, SavedIsCurrent
<1>3. ~smtp => \A l \in DOMAIN db : db[l].plan \in DOMAIN plansDb \cup {"default"}
  BY <1>2 DEF UsersInv, PlansOK, RowsOK, PlansInSync
<1>4. \A i, j \in DOMAIN sessions :
         ~sessions[i].permanent /\ ~sessions[j].permanent /\ sessions[i].login = sessions[j].login => i = j
  BY OrdinaryOnce DEF UsersInv
<1> QED
  BY <1>1, <1>2, <1>3, <1>4

LEMMA RestartKeeps == UsersInv /\ Restart => UsersInv'
<1> SUFFICES ASSUME UsersInv, Restart PROVE UsersInv'
  OBVIOUS
<1>1. Reload(db, actions, sessions, plansDb) /\ UNCHANGED <<lastAction, lastSession>>
  BY DEF Restart
<1> QED
  BY <1>1, DatabasesAre, ReloadKeeps

LEMMA RestartInUserCreateKeeps ==
    ASSUME UsersInv, NEW id \in Nat \ {0}, NEW l \in Logins, RestartInUserCreate(id, l)
    PROVE  UsersInv'
<1> DEFINE a == [login |-> l, type |-> "UserActivate"]
<1>1. /\ id <= MaxActions /\ Reload(db, With(actions, id, a), sessions, plansDb)
      /\ lastAction' = Max({lastAction, id}) /\ UNCHANGED lastSession
  BY DEF RestartInUserCreate
<1>2. a \in UserActionRecord
  BY DEF UserActionRecord, ActionTypes
<1> HIDE DEF a
<1>3. lastAction \in Nat /\ lastAction <= MaxActions /\ MaxActions \in Nat
  BY DatabasesAre, UsersAssumptions DEF UsersAssumptions
<1>4. lastAction' \in Nat /\ lastAction' <= MaxActions /\ lastAction' >= lastAction /\ lastAction' >= id
  BY <1>1, <1>3, MaxOfTwo
<1>5. lastAction' \in 0 .. MaxActions /\ id \in 1 .. lastAction' /\ 1 .. lastAction \subseteq 1 .. lastAction'
  BY <1>3, <1>4
<1>6. IsMap(actions, 1 .. lastAction', UserActionRecord)
  BY <1>5, DatabasesAre, WiderMap
<1>7. IsMap(With(actions, id, a), 1 .. lastAction', UserActionRecord)
  BY <1>2, <1>5, <1>6, WithIsMap
<1> QED
  BY <1>1, <1>5, <1>7, DatabasesAre, ReloadKeeps

LEMMA RestartInResendEmailKeeps ==
    ASSUME UsersInv, NEW l \in Logins, RestartInResendEmail(l) PROVE UsersInv'
<1>1. /\ Reload(db, Without(actions, {actionOf[l]}), sessions, plansDb)
      /\ UNCHANGED <<lastAction, lastSession>>
  BY DEF RestartInResendEmail
<1>2. IsMap(Without(actions, {actionOf[l]}), 1 .. lastAction, UserActionRecord)
  BY DatabasesAre, WithoutIsMap
<1> QED
  BY <1>1, <1>2, DatabasesAre, ReloadKeeps

LEMMA RestartInQueryMonitoringSessionKeeps ==
    ASSUME UsersInv, NEW l \in Logins, RestartInQueryMonitoringSession(l) PROVE UsersInv'
<1> DEFINE s == [login |-> l, permanent |-> TRUE]
           ss == With(sessions, lastSession', s)
<1>1. /\ lastSession < MaxSessions /\ lastSession' = lastSession + 1
      /\ Reload(db, actions, ss, plansDb) /\ UNCHANGED lastAction
  BY DEF RestartInQueryMonitoringSession
<1>2. s \in UserSessionRecord /\ s.permanent
  BY DEF UserSessionRecord
<1>3. /\ DOMAIN ss = DOMAIN sessions \cup {lastSession'} /\ ss[lastSession'] = s
      /\ \A x \in DOMAIN sessions : x # lastSession' => ss[x] = sessions[x]
  BY DEF With, Over
<1> HIDE DEF s, ss
<1>4. /\ lastSession' \in 0 .. MaxSessions /\ lastSession' \in 1 .. lastSession'
      /\ 1 .. lastSession \subseteq 1 .. lastSession'
  BY <1>1, DatabasesAre, UsersAssumptions DEF UsersAssumptions
<1>5. IsMap(ss, 1 .. lastSession', UserSessionRecord)
  BY <1>2, <1>3, <1>4, DatabasesAre DEF IsMap
<1>6. \A i, j \in DOMAIN ss :
         ~ss[i].permanent /\ ~ss[j].permanent /\ ss[i].login = ss[j].login => i = j
  BY <1>2, <1>3, DatabasesAre
<1> QED
  BY <1>1, <1>4, <1>5, <1>6, DatabasesAre, ReloadKeeps

LEMMA RestartInDeleteFeePlanKeeps ==
    ASSUME UsersInv, NEW some \in SUBSET DOMAIN cache, RestartInDeleteFeePlan(some) PROVE UsersInv'
<1> DEFINE d == Moved(db, some, "default")
<1>1. Reload(d, actions, sessions, plansDb) /\ UNCHANGED <<lastAction, lastSession>>
  BY DEF RestartInDeleteFeePlan
<1>2. "default" \in Plans /\ IsMap(cache, Logins, UsersRecord) /\ IsMap(db, Logins, UsersRecord)
  BY DEF Plans, UsersInv, UsersOK
<1>3. /\ IsMap(d, Logins, UsersRecord) /\ DOMAIN d = DOMAIN db \cup some
      /\ \A k \in some : d[k].email = cache[k].email /\ d[k].plan = "default"
      /\ \A k \in DOMAIN db \ some : d[k] = db[k]
  <2>1. IsMap(d, Logins, UsersRecord)
    BY <1>2, MovedIs
  <2>2. /\ DOMAIN d = DOMAIN db \cup some
        /\ \A k \in some : d[k] = [cache[k] EXCEPT !.plan = "default"]
        /\ \A k \in DOMAIN db \ some : d[k] = db[k]
    BY DEF Moved
  <2>3. \A k \in some : cache[k] \in UsersRecord
    BY <1>2 DEF IsMap
  <2> HIDE DEF d
  <2>4. \A k \in some : d[k].email = cache[k].email /\ d[k].plan = "default"
    BY <2>2, <2>3 DEF UsersRecord
  <2> QED
    BY <2>1, <2>2, <2>4
<1> HIDE DEF d
<1>4. ASSUME ~smtp PROVE UniqueEmails(d) /\ \A l \in DOMAIN d : d[l].plan \in DOMAIN plansDb \cup {"default"}
  <2>1. /\ db = cache /\ UniqueEmails(db)
        /\ \A l \in DOMAIN db : db[l].plan \in DOMAIN plansDb \cup {"default"}
    BY <1>4, DatabasesAre
  <2>2. DOMAIN d \subseteq DOMAIN db /\ \A l \in DOMAIN d : d[l].email = db[l].email
    BY <1>3, <2>1
  <2>3. UniqueEmails(d)
    BY <2>1, <2>2, UniqueStays
  <2> QED
    BY <1>3, <2>1, <2>2, <2>3
<1> QED
  BY <1>1, <1>3, <1>4, DatabasesAre, ReloadKeeps

LEMMA RestartInCleanupKeeps ==
    ASSUME UsersInv, NEW some, RestartInCleanup(some) PROVE UsersInv'
<1> DEFINE d == Without(db, some)
<1>1. Reload(d, actions, sessions, plansDb) /\ UNCHANGED <<lastAction, lastSession>>
  BY DEF RestartInCleanup
<1>2. DOMAIN d \subseteq DOMAIN db /\ \A l \in DOMAIN d : d[l] = db[l]
  BY DEF Without, Restrict
<1> HIDE DEF d
<1>3. IsMap(d, Logins, UsersRecord)
  BY <1>2, DatabasesAre DEF IsMap
<1>4. ASSUME ~smtp PROVE UniqueEmails(d) /\ \A l \in DOMAIN d : d[l].plan \in DOMAIN plansDb \cup {"default"}
  <2>1. UniqueEmails(db) /\ \A l \in DOMAIN db : db[l].plan \in DOMAIN plansDb \cup {"default"}
    BY <1>4, DatabasesAre
  <2>2. UniqueEmails(d)
    BY <1>2, <2>1, UniqueStays
  <2> QED
    BY <1>2, <2>1, <2>2
<1> QED
  BY <1>1, <1>3, <1>4, DatabasesAre, ReloadKeeps

----------------------------------------------------------------------------
(* What is proved.                                                         *)

LEMMA UsersInit == Init => UsersInv
<1> SUFFICES ASSUME Init PROVE UsersInv
  OBVIOUS
<1>1. \A D, R : IsMap(Empty, D, R)
  BY DEF IsMap, Empty
<1>2. DOMAIN Empty = {}
  BY DEF Empty
<1>3. RequestsOK
  <2>1. ActionsOK(actions, actionOf, lastAction)
    BY <1>1, <1>2 DEF Init, ActionsOK
  <2>2. MailsOK(mails, DOMAIN actions, lastAction)
    BY DEF Init, MailsOK
  <2> QED
    BY <2>1, <2>2, UsersAssumptions DEF UsersAssumptions, Init, RequestsOK
<1>4. SessionsOK
  <2>1. OneSession
    BY <1>2 DEF Init, OneSession
  <2> QED
    BY <1>1, <2>1, UsersAssumptions DEF UsersAssumptions, Init, SessionsOK
<1>5. UsersOK
  <2>1. EmailsMatch
    BY <1>2 DEF Init, EmailsMatch, UniqueEmails
  <2> QED
    BY <1>1, <2>1 DEF Init, UsersOK, SavedIsCurrent
<1>6. PlansOK
  <2>1. EmptyPlan \in FeePlan /\ "default" \in Plans
    BY DEF EmptyPlan, FeePlan, Plans
  <2>2. DOMAIN plans = {"default"} /\ plans["default"] = EmptyPlan
    BY <1>2 DEF Init, With, Over
  <2>3. RowsOK
    BY <1>1, <2>1, <2>2 DEF Init, RowsOK, IsMap
  <2>4. PlansInSync
    BY <1>2 DEF Init, PlansInSync
  <2> QED
    BY <1>1, <2>3, <2>4 DEF Init, PlansOK
<1>7. Bounded
  BY UsersAssumptions DEF UsersAssumptions, Init, Bounded
<1> QED
  BY <1>3, <1>4, <1>5, <1>6, <1>7 DEF UsersInv

\* A restart of a process that dies while it writes a registration.
LEMMA DyingRegistration ==
    ASSUME UsersInv,
           \/ \E m \in mails : m.rec # NoRecord /\ RestartInUserCreate(m.id, m.action.login)
           \/ \E l \in Logins \ DOMAIN cache : ~smtp /\ RestartInUserCreate(lastAction + 1, l)
    PROVE  UsersInv'
<1>1. lastAction \in Nat
  BY DEF UsersInv, RequestsOK
<1>2. CASE \E m \in mails : m.rec # NoRecord /\ RestartInUserCreate(m.id, m.action.login)
  <2>1. PICK m \in mails : RestartInUserCreate(m.id, m.action.login)
    BY <1>2
  <2>2. m.id \in Nat \ {0} /\ m.action.login \in Logins
    BY <1>1 DEF UsersInv, RequestsOK, MailsOK, UserActionRecord
  <2> QED
    BY <2>1, <2>2, RestartInUserCreateKeeps
<1>3. CASE \E l \in Logins \ DOMAIN cache : ~smtp /\ RestartInUserCreate(lastAction + 1, l)
  <2>1. PICK l \in Logins : RestartInUserCreate(lastAction + 1, l)
    BY <1>3
  <2>2. lastAction + 1 \in Nat \ {0}
    BY <1>1
  <2> QED
    BY <2>1, <2>2, RestartInUserCreateKeeps
<1> QED
  BY <1>2, <1>3

LEMMA UsersNext == UsersInv /\ [Next]_vars => UsersInv'
<1> SUFFICES ASSUME UsersInv, [Next]_vars PROVE UsersInv'
  OBVIOUS
<1>1. CASE \E l \in Logins :
              \/ \E e \in Emails, p \in Plans : UserCreate(l, e, p)
              \/ \E e \in Emails \cup {NoEmail}, p \in Plans : UserCreateForce(l, e, p)
              \/ ResendEmail(l)
              \/ \E t \in ActionTypes \ {"UserActivate"} : Initiate(l, t)
              \/ SaveRecord(l)
  BY <1>1, UserCreateKeeps, UserCreateForceKeeps, ResendEmailKeeps, InitiateKeeps, SaveRecordKeeps
<1>2. CASE \E l \in Logins :
              \/ Login(l) \/ QueryMonitoringSession(l)
              \/ \E p \in Plans : ChangeFeePlan(l, p)
              \/ RestartInResendEmail(l) \/ RestartInQueryMonitoringSession(l)
  BY <1>2, LoginKeeps, QueryMonitoringSessionKeeps, ChangeFeePlanKeeps, RestartInResendEmailKeeps,
     RestartInQueryMonitoringSessionKeeps
<1>3. CASE \E m \in mails : MailSent(m) \/ MailFailed(m)
  BY <1>3, MailSentKeeps, MailFailedKeeps
<1>4. CASE \/ \E m \in mails : m.rec # NoRecord /\ RestartInUserCreate(m.id, m.action.login)
           \/ \E l \in Logins \ DOMAIN cache : ~smtp /\ RestartInUserCreate(lastAction + 1, l)
  BY <1>4, DyingRegistration
<1>5. CASE (\E id \in DOMAIN actions : UserAction(id)) \/ (\E s \in DOMAIN sessions : Logout(s))
  BY <1>5, UserActionKeeps, LogoutKeeps
<1>6. CASE \E p \in PlanIds : CreateFeePlan(p) \/ DeleteFeePlan(p)
  <2>1. PlanIds \subseteq Plans
    BY DEF Plans
  <2> QED
    BY <1>6, <2>1, CreateFeePlanKeeps, DeleteFeePlanKeeps
<1>7. CASE \E p \in Plans : RenewFeePlanReferralId(p) \/ \E r \in Receivers : UpdateFeePlan(p, r)
  BY <1>7, RenewFeePlanReferralIdKeeps, UpdateFeePlanKeeps
<1>8. CASE \E n \in 0 .. lastAction, idle \in SUBSET DOMAIN sessions : Cleanup(n, idle)
  BY <1>8, CleanupKeeps
<1>9. CASE Blocks \/ Restart
  BY <1>9, BlocksKeeps, RestartKeeps
<1>10. CASE \E p \in PlanIds : \E some \in SUBSET OnPlan(p) : RestartInDeleteFeePlan(some)
  <2>1. \A p \in PlanIds : \A some \in SUBSET OnPlan(p) : some \in SUBSET DOMAIN cache
    BY DEF OnPlan
  <2> QED
    BY <1>10, <2>1, RestartInDeleteFeePlanKeeps
<1>11. CASE \E n \in 1 .. lastAction : \E some \in SUBSET NotActivated(Expired(n)) : RestartInCleanup(some)
  BY <1>11, RestartInCleanupKeeps
<1>12. CASE UNCHANGED vars
  <2>1. UNCHANGED <<smtp, users, requests, logged, fees, mails, thread, restarts>> /\ cache' = cache
    BY <1>12 DEF vars, users
  <2> QED
    BY <2>1, Untouched DEF UsersInv
<1> QED
  BY <1>1, <1>2, <1>3, <1>4, <1>5, <1>6, <1>7, <1>8, <1>9, <1>10, <1>11, <1>12 DEF Next

\* The inductive invariant of the user manager's maps and databases.
THEOREM UsersInvHolds == Spec => []UsersInv
  BY UsersInit, UsersNext, PTL DEF Spec

\* Types, and LoginActionMap_ of actionAdd and actionRemove never points to an
\* action that is gone or belongs to somebody else, mail or not.
THEOREM TypeCorrect == Spec => []TypeOK
<1>1. ASSUME UsersInv PROVE TypeOK
  <2>1. /\ IsMap(actions, 1 .. lastAction, UserActionRecord) /\ IsMap(actionOf, Logins, DOMAIN actions)
        /\ \A l \in DOMAIN actionOf : actions[actionOf[l]].login = l
        /\ lastAction \in 0 .. MaxActions
    BY <1>1 DEF UsersInv, RequestsOK, ActionsOK
  <2>2. \A m \in mails : m.id \in 1 .. lastAction /\ m.action \in UserActionRecord
    BY <1>1 DEF UsersInv, RequestsOK, MailsOK
  <2> QED
    BY <1>1, <2>1, <2>2 DEF TypeOK, UsersInv, SessionsOK, UsersOK, PlansOK, RowsOK, Bounded
<1> QED
  BY <1>1, UsersInvHolds, PTL

\* A login has one ordinary session and LoginSessionMap_ knows it, for all
\* interleavings of login, logout, clean-up and restarts.
THEOREM OneSessionHolds == Spec => []OneSession
<1>1. UsersInv => OneSession
  BY DEF UsersInv, SessionsOK
<1> QED
  BY <1>1, UsersInvHolds, PTL

\* Without mail the constructor's check for unique addresses never fails, and
\* AllEmails_ is exactly the addresses in use.
THEOREM EmailsMatchHolds == Spec => []EmailsMatch
<1>1. UsersInv => EmailsMatch
  BY DEF UsersInv, UsersOK
<1> QED
  BY <1>1, UsersInvHolds, PTL

\* Without mail every handler has saved what it changed in UsersCache_.
THEOREM SavedIsCurrentHolds == Spec => []SavedIsCurrent
<1>1. UsersInv => SavedIsCurrent
  BY DEF UsersInv, UsersOK
<1> QED
  BY <1>1, UsersInvHolds, PTL

\* Without mail nobody is on a plan that deleteFeePlan removed, also when the
\* process died half-way, and the backends know the plan of every user.
THEOREM PlansInSyncHolds == Spec => []PlansInSync
<1>1. UsersInv => PlansInSync
  BY DEF UsersInv, PlansOK
<1> QED
  BY <1>1, UsersInvHolds, PTL
=============================================================================
