------------------------- MODULE TokenSessionsProofs -------------------------
(***************************************************************************)
(* Proofs, for any number of handlers and sessions, any time to live and   *)
(* any run of the clock, that TokenSessions keeps its types and inductive  *)
(* invariant, and with them that refresh tokens work once, that revocation *)
(* finds and ends every session, and that lifetimes are absolute.          *)
(***************************************************************************)
EXTENDS TokenSessions, TLAPS

\* A key whose expiry was cleared is gone, and a stored one is not cleared.
LEMMA NeverAlive ==
  ASSUME TypeOK
  PROVE  ~Alive(Never)
  BY DEF TypeOK, Time, Alive, Never

LEMMA LiveStored ==
  ASSUME TypeOK, NEW s \in Sessions, Live(s)
  PROVE  session[s] # NoSession
  BY NeverAlive DEF Live, NoSession

\* The handler's next job, by its fields.
LEMMA GoJob ==
  ASSUME TypeOK, NEW w \in Workers,
         NEW step \in {"idle", "info", "create", "identity", "rotate", "revoke_grant",
                       "verify", "revoke", "update"},
         Go(w, step)
  PROVE  /\ job' \in [Workers -> Job]
         /\ \A v \in Workers \ {w} : job'[v] = job[v]
         /\ job'[w].step = step
         /\ job'[w].sid = job[w].sid
         /\ job'[w].refresh_hash = job[w].refresh_hash
<1> DEFINE k == [job[w] EXCEPT !.step = step]
<1>1. job[w] \in Job
  BY DEF TypeOK
<1>2. /\ k \in Job /\ k.step = step
      /\ k.sid = job[w].sid /\ k.refresh_hash = job[w].refresh_hash
  BY <1>1 DEF Job
<1>3. job' = [job EXCEPT ![w] = k]
  BY DEF Go
<1> HIDE DEF k
<1> QED
  BY <1>2, <1>3 DEF TypeOK

LEMMA FinishJob ==
  ASSUME TypeOK, NEW w \in Workers, Finish(w)
  PROVE  /\ job' \in [Workers -> Job]
         /\ \A v \in Workers \ {w} : job'[v] = job[v]
         /\ job'[w].step = "idle"
<1>1. Idle \in Job /\ Idle.step = "idle"
  BY DEF Idle, Job
<1> QED
  BY <1>1 DEF TypeOK, Finish

\* The handler ends, or goes to a step without a grant.
JobFree(w) ==
  /\ job' \in [Workers -> Job]
  /\ \A v \in Workers \ {w} : job'[v] = job[v]
  /\ job'[w].step \notin {"identity", "rotate", "revoke_grant"}

LEMMA JobStep ==
  ASSUME JobInv, NEW w \in Workers, JobFree(w),
         \A s \in Sessions : login[s].drawn => login'[s].drawn
  PROVE  JobInv'
  BY DEF JobInv, JobFree

\* Steps that touch neither Redis nor the clock.
LEMMA QuietStep ==
  ASSUME TypeOK, InductiveInv, UNCHANGED <<now, redis, history>>,
         account' \in Account, job' \in [Workers -> Job], JobInv'
  PROVE  TypeOK' /\ InductiveInv'
<1> USE DEF redis, history
<1>1. TypeOK'
  BY DEF TypeOK
<1>2. SessionInv' /\ IndexInv'
  BY DEF InductiveInv, SessionInv, IndexInv, Before
<1>3. UsesInv' /\ RevokedInv'
  BY DEF InductiveInv, UsesInv, RevokedInv
<1> QED
  BY <1>1, <1>2, <1>3 DEF InductiveInv

LEMMA AccountStep ==
  ASSUME TypeOK, InductiveInv, SetEnabled \/ DeleteAccount
  PROVE  TypeOK' /\ InductiveInv'
<1>1. account' \in Account
  BY DEF TypeOK, Account, SetEnabled, DeleteAccount
<1>2. job' \in [Workers -> Job] /\ JobInv' /\ UNCHANGED <<now, redis, history>>
  BY DEF TypeOK, InductiveInv, JobInv, SetEnabled, DeleteAccount, history
<1> QED
  BY <1>1, <1>2, QuietStep

LEMMA LoginAccountStep ==
  ASSUME TypeOK, InductiveInv, NEW w \in Workers, LoginAccount(w)
  PROVE  TypeOK' /\ InductiveInv'
<1> DEFINE k == [job[w] EXCEPT !.step = "info", !.password = account.password]
<1>1. job[w] \in Job /\ account \in Account
  BY DEF TypeOK
<1>2. k \in Job /\ k.step = "info"
  BY <1>1 DEF Job, Account
<1>3. job' = [job EXCEPT ![w] = k] /\ UNCHANGED <<now, redis, account, history>>
  BY DEF LoginAccount
<1> HIDE DEF k
<1>4. job' \in [Workers -> Job] /\ JobInv'
  BY <1>2, <1>3 DEF TypeOK, InductiveInv, JobInv, history
<1> QED
  BY <1>1, <1>3, <1>4, QuietStep

LEMMA InspectRefreshStep ==
  ASSUME TypeOK, InductiveInv, NEW w \in Workers, InspectRefresh(w)
  PROVE  TypeOK' /\ InductiveInv'
<1>1. PICK s \in Sessions :
        /\ Live(s)
        /\ session[s].refresh_hash < MaxRefresh
        /\ job' = [job EXCEPT ![w].step = "identity", ![w].sid = s,
                              ![w].refresh_hash = session[s].refresh_hash]
  BY DEF InspectRefresh
<1> DEFINE h == session[s].refresh_hash
           k == [job[w] EXCEPT !.step = "identity", !.sid = s, !.refresh_hash = h]
<1>2. job[w] \in Job /\ h \in Nat
  BY DEF TypeOK, Session
<1>3. k \in Job /\ k.step = "identity" /\ k.sid = s /\ k.refresh_hash = h
  BY <1>2 DEF Job
<1>4. job' = [job EXCEPT ![w] = k]
  BY <1>1
<1>5. login[s].drawn
  BY <1>1, LiveStored DEF InductiveInv, SessionInv
<1> HIDE DEF k
<1>6. /\ job' \in [Workers -> Job] /\ job'[w] = k
      /\ \A v \in Workers \ {w} : job'[v] = job[v]
  BY <1>3, <1>4 DEF TypeOK
<1>7. UNCHANGED <<now, redis, account, history>> /\ login' = login
  BY DEF InspectRefresh, history
<1>8. JobInv'
  BY <1>1, <1>3, <1>5, <1>6, <1>7 DEF InductiveInv, JobInv
<1> QED
  BY <1>6, <1>7, <1>8, QuietStep DEF TypeOK

LEMMA RefreshIdentityStep ==
  ASSUME TypeOK, InductiveInv, NEW w \in Workers, RefreshIdentity(w)
  PROVE  TypeOK' /\ InductiveInv'
<1> DEFINE next == IF account.exists /\ account.enable THEN "rotate" ELSE "revoke_grant"
<1>1. Go(w, next) /\ next \in {"rotate", "revoke_grant"} /\ UNCHANGED <<now, redis, account, history>>
  BY DEF RefreshIdentity
<1> HIDE DEF next
<1>2. /\ job' \in [Workers -> Job]
      /\ \A v \in Workers \ {w} : job'[v] = job[v]
      /\ job'[w].sid = job[w].sid
      /\ job'[w].refresh_hash = job[w].refresh_hash
  BY <1>1, GoJob
<1>3. JobInv'
  BY <1>1, <1>2 DEF InductiveInv, JobInv, RefreshIdentity, history
<1> QED
  BY <1>1, <1>2, <1>3, QuietStep DEF TypeOK

\* The other steps of a handler that leave Redis alone.
LEMMA HandlerStep ==
  ASSUME TypeOK, InductiveInv, NEW w \in Workers,
         \/ LoginInfo(w) \/ AuthenticateChange(w) \/ VerifyCurrent(w) \/ ResetPassword(w)
         \/ UpdatePassword(w) \/ Cut(w)
  PROVE  TypeOK' /\ InductiveInv'
<1>1. \/ Finish(w)
      \/ \E step \in {"create", "verify", "revoke"} : Go(w, step)
  BY DEF LoginInfo, AuthenticateChange, VerifyCurrent, ResetPassword, UpdatePassword, Cut
<1>2. JobFree(w)
  <2>1. CASE Finish(w)
    BY <2>1, FinishJob DEF JobFree
  <2>2. ASSUME NEW step \in {"create", "verify", "revoke"}, Go(w, step)
        PROVE  JobFree(w)
    BY <2>2, GoJob DEF JobFree
  <2> QED
    BY <1>1, <2>1, <2>2
<1>3. UNCHANGED <<now, redis, history>>
  BY DEF LoginInfo, AuthenticateChange, VerifyCurrent, ResetPassword, UpdatePassword, Cut
<1>4. account' \in Account
  <2> DEFINE a == [account EXCEPT !.password = account.password + 1]
  <2>1. account \in Account /\ a \in Account
    <3>1. account \in Account
      BY DEF TypeOK
    <3>2. account.password + 1 \in Nat
      BY <3>1 DEF Account
    <3> QED
      BY <3>1, <3>2 DEF Account
  <2>2. CASE UpdatePassword(w)
    <3>1. account' = account \/ account' = a
      BY <2>2 DEF UpdatePassword
    <3> QED
      BY <2>1, <3>1
  <2>3. CASE LoginInfo(w) \/ AuthenticateChange(w) \/ VerifyCurrent(w) \/ ResetPassword(w) \/ Cut(w)
    BY <2>1, <2>3 DEF LoginInfo, AuthenticateChange, VerifyCurrent, ResetPassword, Cut
  <2> QED
    BY <2>2, <2>3
<1>5. JobInv'
  BY <1>2, <1>3, JobStep DEF InductiveInv, history
<1> QED
  BY <1>2, <1>3, <1>4, <1>5, QuietStep DEF JobFree

LEMMA TickStep ==
  ASSUME TypeOK, InductiveInv, Tick
  PROVE  TypeOK' /\ InductiveInv'
<1>1. now' \in Time /\ now'.second <= MaxSecond /\ Before(now, now')
  <2>1. now.second \in Nat /\ now.late \in BOOLEAN /\ now.second < MaxSecond
    BY DEF Tick, TypeOK, Time
  <2>2. CASE now.late
    <3>1. now' = [second |-> now.second + 1, late |-> FALSE]
      BY <2>2 DEF Tick
    <3>2. now'.second = now.second + 1 /\ now'.late = FALSE
      BY <3>1
    <3>3. now' \in Time
      BY <2>1, <3>1 DEF Time
    <3>4. now'.second <= MaxSecond /\ now.second < now'.second
      BY <2>1, <3>2, TokenSessionsAssumption
    <3> QED
      BY <3>3, <3>4 DEF Before
  <2>3. CASE ~now.late
    <3>1. now' = [second |-> now.second, late |-> TRUE]
      BY <2>3 DEF Tick, TypeOK, Time
    <3>2. now'.second = now.second /\ now'.late
      BY <3>1
    <3>3. now' \in Time
      BY <2>1, <3>1 DEF Time
    <3>4. now'.second <= MaxSecond
      BY <2>1, <3>2, TokenSessionsAssumption
    <3> QED
      BY <3>2, <3>3, <3>4 DEF Before
  <2> QED
    BY <2>2, <2>3
<1>2. UNCHANGED <<session, index, index_expires, account, job, login, uses, revoked>>
  BY DEF Tick, redis, history
<1>3. TypeOK'
  BY <1>1, <1>2 DEF TypeOK
<1>4. SessionInv'
  <2>1. now \in Time /\ \A s \in Sessions : login[s].at \in Time
    BY DEF TypeOK, Login
  <2>2. \A s \in Sessions : Before(login[s].at, now)
    BY DEF InductiveInv, SessionInv
  <2>3. \A s \in Sessions : Before(login[s].at, now')
    BY <1>1, <2>1, <2>2 DEF Before, Time
  <2> QED
    BY <1>2, <2>3 DEF InductiveInv, SessionInv, Before
<1>5. IndexInv'
  BY <1>1, <1>2 DEF TypeOK, Time, Session, InductiveInv, IndexInv, Before
<1>6. UsesInv' /\ JobInv'
  BY <1>2 DEF InductiveInv, UsesInv, JobInv
<1>7. RevokedInv'
  BY <1>1, <1>2 DEF TypeOK, Time, Session, InductiveInv, RevokedInv, Before
<1> QED
  BY <1>3, <1>4, <1>5, <1>6, <1>7 DEF InductiveInv

LEMMA CreateSessionStep ==
  ASSUME TypeOK, InductiveInv, NEW w \in Workers, CreateSession(w)
  PROVE  TypeOK' /\ InductiveInv'
<1> USE TokenSessionsAssumption
<1>1. PICK s \in Sessions :
        /\ ~login[s].drawn
        /\ session' = [session EXCEPT ![s] = [refresh_hash |-> 0, expires |-> Expiry]]
        /\ index' = [x \in Sessions |-> IF x = s THEN now.second + TTL
                                       ELSE IF Pruned(x) THEN 0 ELSE index[x]]
        /\ index_expires' = Expiry
        /\ login' = [login EXCEPT ![s] = [at |-> now, password |-> job[w].password,
                                         drawn |-> TRUE]]
  BY DEF CreateSession
<1>2. UNCHANGED <<now, account, uses, revoked>> /\ JobFree(w)
  BY FinishJob DEF CreateSession, JobFree
<1>3. /\ Expiry \in Time /\ Expiry.second = now.second + TTL /\ Expiry.late = now.late
      /\ now.second \in Nat /\ now.second <= MaxSecond
  <2>1. now.second \in Nat /\ now.late \in BOOLEAN /\ now.second <= MaxSecond
    BY DEF TypeOK, Time
  <2>2. Expiry = [second |-> now.second + TTL, late |-> now.late]
    BY DEF TypeOK, Time, Expiry
  <2> QED
    BY <2>1, <2>2 DEF Time
<1>4. /\ session'[s].refresh_hash = 0 /\ session'[s].expires = Expiry
      /\ \A x \in Sessions \ {s} : session'[x] = session[x]
      /\ session' \in [Sessions -> Session]
  BY <1>1, <1>3 DEF TypeOK, Session
<1>5. /\ login'[s].drawn /\ login'[s].at = now
      /\ \A x \in Sessions \ {s} : login'[x] = login[x]
      /\ login' \in [Sessions -> Login]
  BY <1>1 DEF TypeOK, Login, Job
<1>6. /\ index'[s] = now.second + TTL
      /\ \A x \in Sessions \ {s} : index'[x] = IF Pruned(x) THEN 0 ELSE index[x]
      /\ index' \in [Sessions -> Nat]
  BY <1>1, <1>3 DEF TypeOK
<1>7. TypeOK'
  BY <1>1, <1>2, <1>3, <1>4, <1>5, <1>6 DEF TypeOK, JobFree
<1>8. SessionInv'
  <2>1. login'[s].at = now' /\ session'[s].expires = [login'[s].at EXCEPT !.second = login'[s].at.second + TTL]
    BY <1>2, <1>4, <1>5 DEF Expiry
  <2>2. Before(now, now)
    BY DEF Before
  <2> QED
    BY <1>2, <1>4, <1>5, <2>1, <2>2 DEF InductiveInv, SessionInv, Before
<1>9. IndexInv'
  <2>1. ASSUME NEW x \in Sessions \ {s}, session[x] # NoSession, now.second < session[x].expires.second
        PROVE  /\ index'[x] = session[x].expires.second
               /\ Before(session[x].expires, Expiry)
    <3>1. index[x] = session[x].expires.second /\ Before(session[x].expires, index_expires)
      BY <2>1 DEF InductiveInv, IndexInv
    <3>2. Alive(index_expires)
      <4>1. /\ now.second \in Nat /\ index_expires.second \in Nat
            /\ session[x].expires.second \in Nat
        BY DEF TypeOK, Time, Session
      <4>2. session[x].expires.second <= index_expires.second
        BY <3>1, <4>1 DEF Before
      <4> QED
        BY <2>1, <4>1, <4>2 DEF Alive
    <3>3. ~Pruned(x)
      BY <2>1, <3>1, <3>2 DEF Pruned, TypeOK, Time, Session
    <3>4. /\ Before(login[x].at, now)
          /\ session[x].expires = [login[x].at EXCEPT !.second = login[x].at.second + TTL]
      BY <2>1 DEF InductiveInv, SessionInv
    <3>5. login[x].at \in Time
      BY DEF TypeOK, Login
    <3>6. /\ session[x].expires.second = login[x].at.second + TTL
          /\ session[x].expires.late = login[x].at.late
      BY <3>4, <3>5 DEF Time
    <3>7. Before(session[x].expires, Expiry)
      BY <1>3, <3>4, <3>5, <3>6 DEF Before, Time
    <3> QED
      BY <1>6, <3>1, <3>3, <3>7
  <2>2. Before(Expiry, Expiry)
    BY DEF Before
  <2> QED
    BY <1>1, <1>2, <1>3, <1>4, <1>6, <2>1, <2>2 DEF IndexInv, Before
<1>10. UsesInv'
  BY <1>1, <1>2, <1>4, <1>5 DEF InductiveInv, UsesInv
<1>11. JobInv'
  BY <1>2, <1>5, JobStep DEF InductiveInv
<1>12. RevokedInv'
  BY <1>1, <1>2, <1>4, <1>5 DEF InductiveInv, RevokedInv
<1> QED
  BY <1>7, <1>8, <1>9, <1>10, <1>11, <1>12 DEF InductiveInv

\* What Delete does to an id, whoever calls it.
LEMMA DeleteStep ==
  ASSUME TypeOK, InductiveInv, NEW s \in Sessions, login[s].drawn, Delete(s),
         UNCHANGED <<now, account, login, uses>>,
         job' \in [Workers -> Job], JobInv'
  PROVE  TypeOK' /\ InductiveInv'
<1>1. NoSession \in Session /\ NoSession.refresh_hash = 0 /\ NoSession.expires.second = 0
  BY DEF NoSession, Session, Never, Time
<1>2. /\ session' \in [Sessions -> Session] /\ session'[s] = NoSession
      /\ \A x \in Sessions \ {s} : session'[x] = session[x]
  BY <1>1 DEF TypeOK, Delete
<1>3. /\ index' \in [Sessions -> Nat]
      /\ \A x \in Sessions \ {s} : index'[x] = index[x]
  BY DEF TypeOK, Delete
<1>4. revoked' = revoked \cup {s} /\ UNCHANGED index_expires
  BY DEF Delete
<1>5. TypeOK'
  <2>1. \A x \in Sessions : /\ session'[x].refresh_hash <= MaxRefresh
                           /\ session'[x].expires.second <= MaxSecond + TTL
    <3>1. 0 <= MaxRefresh /\ 0 <= MaxSecond + TTL
      BY TokenSessionsAssumption
    <3> QED
      BY <1>1, <1>2, <3>1 DEF TypeOK
  <2> QED
    BY <1>2, <1>3, <1>4, <2>1 DEF TypeOK
<1>6. SessionInv'
  BY <1>2 DEF InductiveInv, SessionInv, Before
<1>7. RevokedInv'
  BY <1>2, <1>4 DEF TypeOK, InductiveInv, RevokedInv
<1>8. IndexInv' /\ UsesInv'
  BY <1>2, <1>3, <1>4 DEF InductiveInv, IndexInv, UsesInv, Before
<1>9. JobInv'
  OBVIOUS
<1> QED
  BY <1>5, <1>6, <1>7, <1>8, <1>9 DEF InductiveInv

LEMMA LogoutStep ==
  ASSUME TypeOK, InductiveInv, Logout
  PROVE  TypeOK' /\ InductiveInv'
<1>1. PICK s \in Sessions : login[s].drawn /\ Delete(s)
  BY DEF Logout
<1>2. job' \in [Workers -> Job] /\ JobInv' /\ UNCHANGED <<now, account, login, uses>>
  BY DEF Logout, TypeOK, InductiveInv, JobInv
<1> QED
  BY <1>1, <1>2, DeleteStep

LEMMA RevokeGrantStep ==
  ASSUME TypeOK, InductiveInv, NEW w \in Workers, RevokeGrant(w)
  PROVE  TypeOK' /\ InductiveInv'
<1>1. job[w].sid \in Sessions /\ login[job[w].sid].drawn
  BY DEF RevokeGrant, InductiveInv, JobInv
<1>2. JobFree(w) /\ UNCHANGED <<now, account, login, uses>>
  BY FinishJob DEF RevokeGrant, JobFree
<1>3. JobInv'
  BY <1>2, JobStep DEF InductiveInv
<1> QED
  BY <1>1, <1>2, <1>3, DeleteStep DEF RevokeGrant, JobFree

LEMMA RotateRefreshStep ==
  ASSUME TypeOK, InductiveInv, NEW w \in Workers, RotateRefresh(w)
  PROVE  TypeOK' /\ InductiveInv'
<1> DEFINE s == job[w].sid
           h == job[w].refresh_hash
<1>1. /\ s \in Sessions /\ h < MaxRefresh /\ h \in Nat
      /\ h \in 0 .. MaxRefresh /\ h + 1 \in Nat /\ h + 1 <= MaxRefresh
  <2>1. s \in Sessions /\ h < MaxRefresh
    BY DEF RotateRefresh, InductiveInv, JobInv
  <2>2. h \in Nat
    <3>1. job[w] \in Job
      BY DEF TypeOK
    <3> QED
      BY <3>1 DEF Job
  <2> HIDE DEF s, h
  <2> QED
    BY <2>1, <2>2, TokenSessionsAssumption
<1>2. JobFree(w) /\ UNCHANGED <<now, index, index_expires, account, login, revoked>>
  BY FinishJob DEF RotateRefresh, JobFree
<1>3. JobInv'
  BY <1>2, JobStep DEF InductiveInv
<1>4. CASE ~(Live(s) /\ session[s].refresh_hash = h)
  BY <1>2, <1>3, <1>4, QuietStep DEF RotateRefresh, TypeOK, JobFree, redis, history
<1>5. CASE Live(s) /\ session[s].refresh_hash = h
  <2>1. session' = [session EXCEPT ![s].refresh_hash = h + 1] /\ uses' = [uses EXCEPT ![s][h] = uses[s][h] + 1]
    BY <1>5 DEF RotateRefresh
  <2>2. session[s] # NoSession /\ uses[s][h] = 0
    BY <1>1, <1>5, LiveStored, TokenSessionsAssumption DEF InductiveInv, UsesInv
  <2> DEFINE r == [session[s] EXCEPT !.refresh_hash = h + 1]
  <2>3. r \in Session /\ r.refresh_hash = h + 1 /\ r.expires = session[s].expires
    <3>1. session[s] \in Session
      BY <1>1 DEF TypeOK
    <3> QED
      BY <1>1, <3>1 DEF Session
  <2>4. session' = [session EXCEPT ![s] = r]
    BY <2>1
  <2> HIDE DEF r
  <2>5. /\ session' \in [Sessions -> Session]
        /\ session'[s].refresh_hash = h + 1 /\ session'[s].expires = session[s].expires
        /\ \A x \in Sessions \ {s} : session'[x] = session[x]
    BY <1>1, <2>3, <2>4 DEF TypeOK
  <2>6. /\ uses' \in [Sessions -> [0 .. MaxRefresh -> Nat]]
        /\ uses'[s][h] = 1
        /\ \A x \in Sessions, g \in 0 .. MaxRefresh : (x # s \/ g # h) => uses'[x][g] = uses[x][g]
    <3>1. uses \in [Sessions -> [0 .. MaxRefresh -> Nat]] /\ uses[s] \in [0 .. MaxRefresh -> Nat]
      BY <1>1 DEF TypeOK
    <3> DEFINE f == [uses[s] EXCEPT ![h] = 1]
    <3>2. /\ f \in [0 .. MaxRefresh -> Nat] /\ f[h] = 1
          /\ \A g \in 0 .. MaxRefresh : g # h => f[g] = uses[s][g]
      BY <1>1, <3>1
    <3>3. uses' = [uses EXCEPT ![s] = f]
      BY <2>1, <2>2
    <3> HIDE DEF f, s, h
    <3> QED
      BY <1>1, <3>1, <3>2, <3>3
  <2>7. TypeOK'
    <3>1. \A x \in Sessions : /\ session'[x].refresh_hash <= MaxRefresh
                             /\ session'[x].expires.second <= MaxSecond + TTL
      BY <1>1, <2>5 DEF TypeOK
    <3> QED
      BY <1>2, <2>5, <2>6, <3>1 DEF TypeOK, JobFree
  <2>8. SessionInv'
    BY <1>2, <2>2, <2>5 DEF InductiveInv, SessionInv, Before
  <2>9. IndexInv'
    BY <1>2, <2>2, <2>5 DEF InductiveInv, IndexInv, Before
  <2>10. UsesInv'
    <3>1. login[s].drawn
      BY <1>1, <2>2 DEF InductiveInv, SessionInv
    <3> SUFFICES ASSUME NEW x \in Sessions, NEW g \in 0 .. MaxRefresh
                 PROVE  /\ uses'[x][g] <= 1
                        /\ ~login[x].drawn => uses'[x][g] = 0
                        /\ session'[x] # NoSession /\ session'[x].refresh_hash <= g => uses'[x][g] = 0
      BY <1>2 DEF UsesInv
    <3>2. CASE x # s
      BY <2>5, <2>6, <3>2 DEF InductiveInv, UsesInv
    <3>3. CASE x = s /\ g = h
      BY <1>1, <2>5, <2>6, <3>1, <3>3
    <3>4. CASE x = s /\ g # h
      <4>1. uses'[x][g] = uses[x][g]
        BY <2>6, <3>4
      <4>2. session'[x].refresh_hash <= g => session[s].refresh_hash <= g
        BY <1>1, <1>5, <2>5, <3>4
      <4> QED
        BY <2>2, <3>1, <3>4, <4>1, <4>2 DEF InductiveInv, UsesInv
    <3> QED
      BY <3>2, <3>3, <3>4
  <2>11. RevokedInv'
    BY <1>2, <2>2, <2>5 DEF InductiveInv, RevokedInv, TypeOK
  <2> QED
    BY <1>3, <2>7, <2>8, <2>9, <2>10, <2>11 DEF InductiveInv
<1> QED
  BY <1>4, <1>5

LEMMA RevokeUserSessionsStep ==
  ASSUME TypeOK, InductiveInv, NEW w \in Workers, RevokeUserSessions(w)
  PROVE  TypeOK' /\ InductiveInv'
<1>1. JobFree(w) /\ UNCHANGED <<now, account, login, uses>>
  BY GoJob DEF RevokeUserSessions, JobFree
<1>2. JobInv'
  BY <1>1, JobStep DEF InductiveInv
<1>3. NoSession \in Session /\ NoSession.refresh_hash = 0 /\ NoSession.expires.second = 0
  BY DEF NoSession, Session, Never, Time
<1>4. /\ session' \in [Sessions -> Session]
      /\ \A x \in Sessions : session'[x] = IF Indexed(x) THEN NoSession ELSE session[x]
  BY <1>3 DEF RevokeUserSessions, TypeOK
<1>5. TypeOK'
  BY <1>1, <1>3, <1>4, TokenSessionsAssumption
  DEF RevokeUserSessions, TypeOK, JobFree, Never, Time
<1>6. ASSUME NEW x \in Sessions, session[x] # NoSession, now.second < session[x].expires.second
      PROVE  Indexed(x)
  <2>1. index[x] = session[x].expires.second /\ Before(session[x].expires, index_expires)
    BY <1>6 DEF InductiveInv, IndexInv
  <2> QED
    BY <1>6, <2>1 DEF Indexed, Alive, Before, TypeOK, Time, Session
<1>7. ASSUME NEW x \in Sessions, session'[x] # NoSession
      PROVE  session'[x] = session[x] /\ session[x].expires.second <= now.second
  BY <1>4, <1>6, <1>7 DEF TypeOK, Time, Session
<1>8. SessionInv' /\ UsesInv'
  BY <1>1, <1>7 DEF InductiveInv, SessionInv, UsesInv, Before
<1>9. IndexInv'
  BY <1>1, <1>7 DEF IndexInv, TypeOK, Time, Session
<1>10. RevokedInv'
  <2>1. \A x \in Sessions : Live(x) => login[x].drawn
    BY LiveStored DEF InductiveInv, SessionInv
  <2> QED
    BY <1>1, <1>7, <2>1 DEF InductiveInv, RevokedInv, RevokeUserSessions, TypeOK
<1> QED
  BY <1>2, <1>5, <1>8, <1>9, <1>10 DEF InductiveInv

LEMMA InitInv ==
  ASSUME Init
  PROVE  TypeOK /\ InductiveInv
<1> USE TokenSessionsAssumption DEF Init
<1>1. Never \in Time /\ Never.second = 0 /\ ~Never.late
  BY DEF Never, Time
<1>2. NoSession \in Session /\ NoSession.refresh_hash = 0 /\ NoSession.expires = Never
  BY <1>1 DEF NoSession, Session
<1>3. NotDrawn \in Login /\ NotDrawn.at = Never /\ ~NotDrawn.drawn
  BY <1>1 DEF NotDrawn, Login
<1>4. Idle \in Job /\ Idle.step = "idle"
  BY DEF Idle, Job
<1>5. TypeOK
  BY <1>1, <1>2, <1>3, <1>4 DEF TypeOK, Account
<1> QED
  BY <1>1, <1>2, <1>3, <1>4, <1>5
  DEF InductiveInv, SessionInv, IndexInv, UsesInv, JobInv, RevokedInv, Before

LEMMA NextStep ==
  ASSUME TypeOK, InductiveInv, [Next]_vars
  PROVE  TypeOK' /\ InductiveInv'
<1>1. CASE UNCHANGED vars
  BY <1>1, QuietStep DEF vars, TypeOK, InductiveInv, JobInv, history
<1>2. CASE Tick \/ SetEnabled \/ DeleteAccount \/ Logout
  BY <1>2, TickStep, AccountStep, LogoutStep
<1>3. ASSUME NEW w \in Workers,
             LoginAccount(w) \/ LoginInfo(w) \/ CreateSession(w) \/ InspectRefresh(w)
             \/ RefreshIdentity(w) \/ RevokeGrant(w) \/ RotateRefresh(w)
      PROVE  TypeOK' /\ InductiveInv'
  BY <1>3, LoginAccountStep, HandlerStep, CreateSessionStep, InspectRefreshStep,
     RefreshIdentityStep, RevokeGrantStep, RotateRefreshStep
<1>4. ASSUME NEW w \in Workers,
             AuthenticateChange(w) \/ VerifyCurrent(w) \/ ResetPassword(w)
             \/ RevokeUserSessions(w) \/ UpdatePassword(w) \/ Cut(w)
      PROVE  TypeOK' /\ InductiveInv'
  BY <1>4, HandlerStep, RevokeUserSessionsStep
<1> QED
  BY <1>1, <1>2, <1>3, <1>4 DEF Next

\* The types and the inductive invariant hold for any number of handlers and
\* sessions and any interleaving of logins, refreshes, revocations and time.
THEOREM Invariance == Spec => [](TypeOK /\ InductiveInv)
<1>1. Init => TypeOK /\ InductiveInv
  BY InitInv
<1>2. TypeOK /\ InductiveInv /\ [Next]_vars => (TypeOK /\ InductiveInv)'
  BY NextStep
<1> QED
  BY <1>1, <1>2, PTL DEF Spec

\* Of any number of concurrent or repeated refreshes with one refresh token,
\* rotate_refresh accepts at most one.
THEOREM RefreshTokensWorkOnce == Spec => []RefreshTokenWorksOnce
<1>1. InductiveInv => RefreshTokenWorksOnce
  BY DEF InductiveInv, UsesInv, RefreshTokenWorksOnce
<1> QED
  BY <1>1, Invariance, PTL

\* The sorted set holds every session that has a full second to live, so
\* revoke_user_sessions finds it.
THEOREM SessionsStayIndexed == Spec => []EverySessionIndexed
<1>1. TypeOK /\ InductiveInv => EverySessionIndexed
  <2> SUFFICES ASSUME TypeOK, InductiveInv, NEW s \in Sessions, Live(s),
                      now.second < session[s].expires.second
               PROVE  Indexed(s)
    BY DEF EverySessionIndexed
  <2>1. index[s] = session[s].expires.second /\ Before(session[s].expires, index_expires)
    BY LiveStored DEF InductiveInv, IndexInv
  <2> QED
    BY <2>1 DEF Indexed, Alive, Before, TypeOK, Time, Session
<1> QED
  BY <1>1, Invariance, PTL

\* A revoked session is dead, or dies within the second, and no refresh that
\* was in flight brings it back.
THEOREM RevokedSessionsStayEnded == Spec => []RevokedSessionsEnd
<1>1. TypeOK /\ InductiveInv => RevokedSessionsEnd
  <2> SUFFICES ASSUME TypeOK, InductiveInv, NEW s \in revoked, Live(s)
               PROVE  now.second = session[s].expires.second
    BY DEF RevokedSessionsEnd
  <2>1. s \in Sessions
    BY DEF TypeOK
  <2>2. session[s].expires.second <= now.second
    BY <2>1, LiveStored DEF InductiveInv, RevokedInv
  <2> QED
    BY <2>1, <2>2 DEF Live, Alive, TypeOK, Time, Session
<1> QED
  BY <1>1, Invariance, PTL

\* No number of refreshes lets a session answer longer than TTL after its login.
THEOREM LifetimesAreAbsolute == Spec => []LifetimeIsAbsolute
<1>1. TypeOK /\ InductiveInv => LifetimeIsAbsolute
  BY LiveStored DEF InductiveInv, SessionInv, LifetimeIsAbsolute
<1> QED
  BY <1>1, Invariance, PTL
=============================================================================
