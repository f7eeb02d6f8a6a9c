---------------------------- MODULE TokenSessions ----------------------------
(***************************************************************************)
(* The login sessions of one user: the Redis hash of each session and the  *)
(* user's sorted set of sessions (crates/auth/src/token.rs), the account   *)
(* row, and the request handlers that read and write them: login, refresh, *)
(* logout, change and reset of the password (crates/api/src/routes).       *)
(* Keys carry the user or a random session id, so users share nothing.     *)
(*                                                                         *)
(* A Redis script or command and a database statement are one action each. *)
(* Redis expires keys to the millisecond, but the scores of the sorted set *)
(* are whole seconds: time here is a second and whether its later half has *)
(* begun.                                                                  *)
(***************************************************************************)
EXTENDS Naturals

CONSTANTS
  Workers,        \* concurrent request handlers
  Sessions,       \* the session ids that logins draw; bounds their number
  NoSid,
  TTL,            \* SESSION_TTL_SECONDS
  MaxSecond,      \* bound on time
  MaxRefresh,     \* bound on the rotations of a session
  MaxPassword     \* bound on the replacements of the password

ASSUME TokenSessionsAssumption ==
  /\ NoSid \notin Sessions
  /\ TTL \in Nat \ {0}
  /\ MaxSecond \in Nat
  /\ MaxRefresh \in Nat
  /\ MaxPassword \in Nat

VARIABLES
  now,            \* the time of the Redis server
  session,        \* auth:login-session:{sid}
  index,          \* scores in auth:user-sessions:{user}; 0 for no member
  index_expires,  \* when that key expires
  account,        \* the sys_users row
  job,            \* what each handler is doing
  login,          \* history: when, and with which password, each session began
  uses,           \* history: how often each refresh token was accepted
  revoked         \* history: the sessions that a revocation was to end

redis == <<session, index, index_expires>>
history == <<login, uses, revoked>>
vars == <<now, redis, account, job, history>>
-----------------------------------------------------------------------------
Time == [second : Nat, late : BOOLEAN]

Never == [second |-> 0, late |-> FALSE]

\* A key that expires at t is still there.
Alive(t) == \/ now.second < t.second
            \/ now.second = t.second /\ ~now.late /\ t.late

\* EXPIRE with the session's time to live.
Expiry == [now EXCEPT !.second = now.second + TTL]

\* A secret is named by the number of rotations before it, its hash likewise.
Session == [refresh_hash : Nat, expires : Time]

NoSession == [refresh_hash |-> 0, expires |-> Never]

Live(s) == Alive(session[s].expires)

Indexed(s) == Alive(index_expires) /\ index[s] # 0

\* Passwords are numbered in the order in which the account had them.
Account == [exists : BOOLEAN, enable : BOOLEAN, password : Nat]

Job == [step : {"idle", "info", "create", "identity", "rotate", "revoke_grant",
                "verify", "revoke", "update"},
        sid : Sessions \cup {NoSid},
        refresh_hash : Nat,
        password : Nat]

Idle == [step |-> "idle", sid |-> NoSid, refresh_hash |-> 0, password |-> 0]

Login == [at : Time, password : Nat, drawn : BOOLEAN]

NotDrawn == [at |-> Never, password |-> 0, drawn |-> FALSE]

Go(w, step) == job' = [job EXCEPT ![w].step = step]

Finish(w) == job' = [job EXCEPT ![w] = Idle]
-----------------------------------------------------------------------------
Init ==
  /\ now = Never
  /\ session = [s \in Sessions |-> NoSession]
  /\ index = [s \in Sessions |-> 0]
  /\ index_expires = Never
  /\ account = [exists |-> TRUE, enable |-> TRUE, password |-> 0]
  /\ job = [w \in Workers |-> Idle]
  /\ login = [s \in Sessions |-> NotDrawn]
  /\ uses = [s \in Sessions |-> [h \in 0 .. MaxRefresh |-> 0]]
  /\ revoked = {}

\* Half a second passes.
Tick ==
  /\ now.second < MaxSecond
  /\ now' = IF now.late THEN [second |-> now.second + 1, late |-> FALSE]
            ELSE [now EXCEPT !.late = TRUE]
  /\ UNCHANGED <<redis, account, job, history>>

\* update: an administrator enables or disables the account.
SetEnabled ==
  /\ account.exists
  /\ account' = [account EXCEPT !.enable = ~account.enable]
  /\ UNCHANGED <<now, redis, job, history>>

\* delete: the row goes, the sessions stay in Redis.
DeleteAccount ==
  /\ account.exists
  /\ account' = [account EXCEPT !.exists = FALSE]
  /\ UNCHANGED <<now, redis, job, history>>
-----------------------------------------------------------------------------
(* execute_login, from the account that it reads on: the captcha before it *)
(* only decides whether it goes on.  A wrong password ends it.             *)

LoginAccount(w) ==
  /\ job[w] = Idle
  /\ account.exists
  /\ account.enable
  /\ job' = [job EXCEPT ![w].step = "info", ![w].password = account.password]
  /\ UNCHANGED <<now, redis, account, history>>

LoginInfo(w) ==
  /\ job[w].step = "info"
  /\ IF account.exists THEN Go(w, "create") ELSE Finish(w)
  /\ UNCHANGED <<now, redis, account, history>>

\* Variant: the members that expire in the next second are removed too.
PrunedEarly(s) == ~Alive(index_expires) \/ index[s] <= now.second + 1

\* ZREMRANGEBYSCORE, on a key that may have expired.
Pruned(s) == ~Alive(index_expires) \/ index[s] <= now.second

CreateSession(w) ==
  /\ job[w].step = "create"
  /\ \E s \in Sessions :
       /\ ~login[s].drawn
       /\ session' = [session EXCEPT ![s] = [refresh_hash |-> 0, expires |-> Expiry]]
       /\ index' = [x \in Sessions |-> IF x = s THEN now.second + TTL
                                       ELSE IF Pruned(x) THEN 0 ELSE index[x]]
       /\ index_expires' = Expiry
       /\ login' = [login EXCEPT ![s] = [at |-> now, password |-> job[w].password,
                                         drawn |-> TRUE]]
  /\ Finish(w)
  /\ UNCHANGED <<now, account, uses, revoked>>
-----------------------------------------------------------------------------
\* The transaction of delete_session.
Delete(s) ==
  /\ session' = [session EXCEPT ![s] = NoSession]
  /\ index' = [index EXCEPT ![s] = 0]
  /\ revoked' = revoked \cup {s}
  /\ UNCHANGED index_expires

\* logout with any access token of a session: only its signature and its own
\* lifetime are looked at.
Logout ==
  /\ \E s \in Sessions : login[s].drawn /\ Delete(s)
  /\ UNCHANGED <<now, account, job, login, uses>>

(* refresh, with any refresh token ever issued; one that is not the        *)
(* current one of a live session is refused here.                          *)

InspectRefresh(w) ==
  /\ job[w] = Idle
  /\ \E s \in Sessions :
       /\ Live(s)
       /\ session[s].refresh_hash < MaxRefresh
       /\ job' = [job EXCEPT ![w].step = "identity", ![w].sid = s,
                             ![w].refresh_hash = session[s].refresh_hash]
  /\ UNCHANGED <<now, redis, account, history>>

RefreshIdentity(w) ==
  /\ job[w].step = "identity"
  /\ Go(w, IF account.exists /\ account.enable THEN "rotate" ELSE "revoke_grant")
  /\ UNCHANGED <<now, redis, account, history>>

RevokeGrant(w) ==
  /\ job[w].step = "revoke_grant"
  /\ Delete(job[w].sid)
  /\ Finish(w)
  /\ UNCHANGED <<now, account, login, uses>>

\* Variant: inspect_refresh alone compares the hash.
RotateUncompared(w) ==
  /\ job[w].step = "rotate"
  /\ LET s == job[w].sid
         h == job[w].refresh_hash
     IN IF Live(s)
        THEN /\ session' = [session EXCEPT ![s].refresh_hash = h + 1]
             /\ uses' = [uses EXCEPT ![s][h] = uses[s][h] + 1]
        ELSE UNCHANGED <<session, uses>>
  /\ Finish(w)
  /\ UNCHANGED <<now, index, index_expires, account, login, revoked>>

\* Variant: the hash is written again as a whole, and so made anew when gone.
RotateRewrites(w) ==
  /\ job[w].step = "rotate"
  /\ LET s == job[w].sid
         h == job[w].refresh_hash
     IN /\ session' = [session EXCEPT ![s] = [refresh_hash |-> h + 1, expires |-> Expiry]]
        /\ uses' = [uses EXCEPT ![s][h] = uses[s][h] + 1]
  /\ Finish(w)
  /\ UNCHANGED <<now, index, index_expires, account, login, revoked>>

\* Variant: a rotation renews the time to live.
RotateExtends(w) ==
  /\ job[w].step = "rotate"
  /\ LET s == job[w].sid
         h == job[w].refresh_hash
     IN IF Live(s) /\ session[s].refresh_hash = h
        THEN /\ session' = [session EXCEPT ![s] = [refresh_hash |-> h + 1, expires |-> Expiry]]
             /\ uses' = [uses EXCEPT ![s][h] = uses[s][h] + 1]
        ELSE UNCHANGED <<session, uses>>
  /\ Finish(w)
  /\ UNCHANGED <<now, index, index_expires, account, login, revoked>>

\* The script of rotate_refresh.
RotateRefresh(w) ==
  /\ job[w].step = "rotate"
  /\ LET s == job[w].sid
         h == job[w].refresh_hash
     IN IF Live(s) /\ session[s].refresh_hash = h
        THEN /\ session' = [session EXCEPT ![s].refresh_hash = h + 1]
             /\ uses' = [uses EXCEPT ![s][h] = uses[s][h] + 1]
        ELSE UNCHANGED <<session, uses>>
  /\ Finish(w)
  /\ UNCHANGED <<now, index, index_expires, account, login, revoked>>
-----------------------------------------------------------------------------
(* change_password and reset_user_password; both end in replace_password.  *)

\* require_auth: the session of the access token answers.
AuthenticateChange(w) ==
  /\ job[w] = Idle
  /\ account.password < MaxPassword
  /\ \E s \in Sessions : Live(s)
  /\ Go(w, "verify")
  /\ UNCHANGED <<now, redis, account, history>>

\* The client proves that it knows the current password.
VerifyCurrent(w) ==
  /\ job[w].step = "verify"
  /\ IF account.exists THEN Go(w, "revoke") ELSE Finish(w)
  /\ UNCHANGED <<now, redis, account, history>>

\* require_visible_user of an administrator who sees the user.
ResetPassword(w) ==
  /\ job[w] = Idle
  /\ account.password < MaxPassword
  /\ account.exists
  /\ Go(w, "revoke")
  /\ UNCHANGED <<now, redis, account, history>>

RevokeUserSessions(w) ==
  /\ job[w].step = "revoke"
  /\ session' = [s \in Sessions |-> IF Indexed(s) THEN NoSession ELSE session[s]]
  /\ index' = [s \in Sessions |-> 0]
  /\ index_expires' = Never
  /\ revoked' = revoked \cup {s \in Sessions : Live(s)}
  /\ Go(w, "update")
  /\ UNCHANGED <<now, account, login, uses>>

UpdatePassword(w) ==
  /\ job[w].step = "update"
  /\ account' = IF account.exists
                THEN [account EXCEPT !.password = account.password + 1]
                ELSE account
  /\ Finish(w)
  /\ UNCHANGED <<now, redis, history>>

\* A refused request, a failed call to Redis or the database, a dropped
\* request: the handler ends where it is.
Cut(w) ==
  /\ job[w] # Idle
  /\ Finish(w)
  /\ UNCHANGED <<now, redis, account, history>>

Next ==
  \/ Tick \/ SetEnabled \/ DeleteAccount \/ Logout
  \/ \E w \in Workers :
       \/ LoginAccount(w) \/ LoginInfo(w) \/ CreateSession(w)
       \/ InspectRefresh(w) \/ RefreshIdentity(w) \/ RevokeGrant(w) \/ RotateRefresh(w)
       \/ AuthenticateChange(w) \/ VerifyCurrent(w) \/ ResetPassword(w)
       \/ RevokeUserSessions(w) \/ UpdatePassword(w) \/ Cut(w)

Spec == Init /\ [][Next]_vars
-----------------------------------------------------------------------------
(* Properties.                                                             *)

TypeOK ==
  /\ now \in Time /\ now.second <= MaxSecond
  /\ session \in [Sessions -> Session]
  /\ \A s \in Sessions : /\ session[s].refresh_hash <= MaxRefresh
                         /\ session[s].expires.second <= MaxSecond + TTL
  /\ index \in [Sessions -> Nat]
  /\ index_expires \in Time
  /\ account \in Account
  /\ job \in [Workers -> Job]
  /\ login \in [Sessions -> Login]
  /\ uses \in [Sessions -> [0 .. MaxRefresh -> Nat]]
  /\ revoked \subseteq Sessions

\* A refresh token is accepted once: of concurrent refreshes with the same
\* token, and of retries whose first answer was lost, one rotates.
RefreshTokenWorksOnce ==
  \A s \in Sessions, h \in 0 .. MaxRefresh : uses[s][h] <= 1

\* revoke_user_sessions finds every session of the user: pruning and expiry of
\* the sorted set lose one only in the very second in which it expires.
EverySessionIndexed ==
  \A s \in Sessions :
    Live(s) /\ now.second < session[s].expires.second => Indexed(s)

\* A session ended by logout, by a refused refresh or by a replaced password
\* does not answer again, whatever refresh was in flight; one that escaped the
\* sorted set is over within the second.
RevokedSessionsEnd ==
  \A s \in revoked : Live(s) => now.second = session[s].expires.second

\* A session ends TTL after its login, however often it is refreshed.
LifetimeIsAbsolute ==
  \A s \in Sessions : Live(s) =>
    /\ login[s].drawn
    /\ session[s].expires = [login[s].at EXCEPT !.second = login[s].at.second + TTL]

\* When no replacement is under way, the sessions that answer began with the
\* password of today: replace_password revokes before it stores the new hash,
\* so that stolen sessions cannot go on.
SessionsKnowPassword ==
  (\A w \in Workers : job[w].step # "update") =>
    \A s \in Sessions : Live(s) => login[s].password = account.password
-----------------------------------------------------------------------------
(* The inductive invariant behind them.                                    *)

Before(t, u) == \/ t.second < u.second
                \/ t.second = u.second /\ (t.late => u.late)

\* A stored session was drawn, and expires TTL after its login.
SessionInv ==
  \A s \in Sessions :
    /\ Before(login[s].at, now)
    /\ session[s] # NoSession =>
         /\ login[s].drawn
         /\ session[s].expires = [login[s].at EXCEPT !.second = login[s].at.second + TTL]

\* A session with a full second to live is a member, and the key outlives it.
IndexInv ==
  \A s \in Sessions :
    session[s] # NoSession /\ now.second < session[s].expires.second =>
      /\ index[s] = session[s].expires.second
      /\ Before(session[s].expires, index_expires)

\* Only the hashes before the current one have been used.
UsesInv ==
  \A s \in Sessions, h \in 0 .. MaxRefresh :
    /\ uses[s][h] <= 1
    /\ ~login[s].drawn => uses[s][h] = 0
    /\ session[s] # NoSession /\ session[s].refresh_hash <= h => uses[s][h] = 0

JobInv ==
  \A w \in Workers :
    job[w].step \in {"identity", "rotate", "revoke_grant"} =>
      /\ job[w].sid \in Sessions
      /\ job[w].refresh_hash < MaxRefresh
      /\ login[job[w].sid].drawn

RevokedInv ==
  \A s \in revoked :
    /\ login[s].drawn
    /\ session[s] # NoSession => session[s].expires.second <= now.second

InductiveInv == SessionInv /\ IndexInv /\ UsesInv /\ JobInv /\ RevokedInv
=============================================================================
