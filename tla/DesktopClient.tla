----------------------------- MODULE DesktopClient -----------------------------
(* One window of the desktop client and the sessions of its user: tokens   *)
(* that expire, the refresh that concurrent requests share, and the codes  *)
(* (crates/api/src/mappings.rs) that make the client end its session       *)
(* (apps/desktop/src/api/http.ts, stores/auth.ts, pages/LoginPage.tsx,     *)
(* layouts/AppLayout.tsx).                                                 *)
EXTENDS Naturals, FiniteSets

CONSTANTS
    Jobs,           \* requests in progress at a time
    MaxLogins,      \* bound on the sessions in a behaviour
    MaxRotations    \* bound on the refreshes of a session

ASSUME ClientAssumption == MaxLogins \in Nat /\ MaxRotations \in Nat

VARIABLES
    store,          \* useAuthStore: the pair of tokens, and whether the user is known
    jobs,           \* requests of the client, on their way or waiting for a refresh
    flights,        \* refreshes on their way, by the job that began them
    rotations,      \* the server's sessions: how often each was refreshed ...
    live,           \* ... and which are not over
    enabled,        \* the account
    expired,        \* access tokens that are
    logins,
    lost,           \* history: sessions of which a refresh was not answered, ...
    suspended       \* ... sessions whose account was disabled meanwhile

clientVars == <<store, jobs, flights, rotations, live, enabled, expired, logins, lost, suspended>>

\* The n-th pair of a session: its access token and its refresh token.
Pair(s, n) == [session |-> s, number |-> n]
NoPair == Pair(0, 0)
Signed == store.pair # NoPair /\ store.user

NoJob == [op |-> "none", pc |-> "idle", pair |-> NoPair, retried |-> FALSE,
          flight |-> "none", answer |-> "none"]
NoFlight == [pc |-> "idle", pair |-> NoPair, answer |-> "none"]

Cleared == [pair |-> NoPair, user |-> FALSE]

-----------------------------------------------------------------------------
(* Codes.                                                                  *)

Unauthorized == {"LOGIN_REQUIRED", "TOKEN_INVALID", "ACCESS_TOKEN_EXPIRED", "REFRESH_TOKEN_INVALID",
                 "SESSION_INVALID", "INVALID_CREDENTIALS"}

LoginRequiredCodes == {"ACCESS_TOKEN_EXPIRED", "LOGIN_REQUIRED", "TOKEN_INVALID", "SESSION_INVALID",
                       "REFRESH_TOKEN_INVALID", "USER_DISABLED"}

\* TokenSessionError, RefreshError, RefreshIdentityError, AccessEvaluationError.
SessionCode == [Expired |-> "ACCESS_TOKEN_EXPIRED", Invalid |-> "TOKEN_INVALID",
                SessionInvalid |-> "SESSION_INVALID", Store |-> "AUTHORIZATION_UNAVAILABLE"]
RefreshCode == [Invalid |-> "REFRESH_TOKEN_INVALID", SessionInvalid |-> "SESSION_INVALID",
                Signing |-> "INTERNAL_SERVER_ERROR", Store |-> "AUTHORIZATION_UNAVAILABLE"]
IdentityCode == [NotFound |-> "SESSION_INVALID", Disabled |-> "USER_DISABLED",
                 Database |-> "INTERNAL_SERVER_ERROR"]
AccessCode == [UserNotFound |-> "SESSION_INVALID", UserDisabled |-> "USER_DISABLED",
               PermissionDenied |-> "PERMISSION_DENIED"]

\* What the handlers behind require_auth fail with.
AuthorizationCodes == {"AUTHORIZATION_CONFIG_INVALID", "AUTHORIZATION_UNAVAILABLE"}
AccountCodes == {"USER_NOT_FOUND", "USER_ALREADY_EXISTS", "INVALID_ROLES", "PERMISSION_DENIED",
                 "INTERNAL_SERVER_ERROR"} \cup AuthorizationCodes
MenuCodes == {"INTERNAL_SERVER_ERROR"} \cup AuthorizationCodes
RoleCodes == {"ROLE_NOT_FOUND", "ROLE_IMMUTABLE", "ROLE_HAS_MEMBERS", "PERMISSION_DENIED",
              "INVALID_ROLE_ACCESS", "INTERNAL_SERVER_ERROR"} \cup MenuCodes
DeptCodes == {"DEPT_INVALID_PARENT", "DEPT_HAS_DESCENDANTS", "INTERNAL_SERVER_ERROR"}
StorageCodes == {"STORAGE_NOT_FOUND", "STORAGE_CODE_CONFLICT", "STORAGE_IDENTITY_IMMUTABLE",
                 "DEFAULT_STORAGE_PROTECTED", "STORAGE_DISABLED", "STORAGE_IN_USE", "INVALID_STORAGE",
                 "INTERNAL_SERVER_ERROR"}
FileCodes == {"FILE_TOO_LARGE", "UPLOAD_NOT_FOUND", "UPLOAD_OFFSET_MISMATCH", "UPLOAD_INCOMPLETE",
              "UPLOAD_IN_PROGRESS", "INTERNAL_SERVER_ERROR"} \cup StorageCodes
DictionaryCodes == {"DICTIONARY_NOT_FOUND", "DICTIONARY_DETAIL_NOT_FOUND", "INVALID_DICTIONARY_PARENT",
                    "INTERNAL_SERVER_ERROR"}
AuditCodes == {"INVALID_AUDIT_TIME_RANGE", "INTERNAL_SERVER_ERROR"}
AnalysisCodes == {"AI_PROVIDER_UNAVAILABLE", "AI_RESPONSE_INVALID"}
HandlerCodes == AccountCodes \cup RoleCodes \cup DeptCodes \cup FileCodes \cup DictionaryCodes
                \cup AuditCodes \cup AnalysisCodes \cup {"INVALID_PASSWORD", "BAD_REQUEST"}

\* What the client makes of a code: the ones that mean a login, or just an error.
Told(code) == IF code \in LoginRequiredCodes THEN code ELSE "error"
HandlerAnswers == {"OK"} \cup {Told(code) : code \in HandlerCodes}

-----------------------------------------------------------------------------
(* The server.                                                             *)

\* require_auth: the token, the session in Redis, the account.
AuthCodes(pair) ==
    IF pair \in expired THEN {SessionCode["Expired"]}
    ELSE {SessionCode["Store"]}
         \cup (IF pair.session \notin live THEN {SessionCode["SessionInvalid"]}
               ELSE IF ~enabled THEN {AccessCode["UserDisabled"]} ELSE {"OK"})

\* Any request behind require_auth; a logout ends its session, or fails.
Serve(r) ==
    LET job == jobs[r]
    IN  /\ job.pc = "sent" /\ job.op # "login"
        /\ \E code \in AuthCodes(job.pair) :
               IF code # "OK"
               THEN /\ jobs' = [jobs EXCEPT ![r].pc = "answered", ![r].answer = Told(code)]
                    /\ live' = live
               ELSE IF job.op = "logout"
               THEN \/ /\ jobs' = [jobs EXCEPT ![r].pc = "answered", ![r].answer = "OK"]
                       /\ live' = live \ {job.pair.session}
                    \/ /\ jobs' = [jobs EXCEPT ![r].pc = "answered", ![r].answer = Told(SessionCode["Store"])]
                       /\ live' \in {live, live \ {job.pair.session}}
               ELSE /\ \E c \in HandlerAnswers :
                           jobs' = [jobs EXCEPT ![r].pc = "answered", ![r].answer = c]
                    /\ live' = live
        /\ UNCHANGED <<store, flights, rotations, enabled, expired, logins, lost, suspended>>

\* A login that succeeds.
ServeLogin(r) ==
    /\ jobs[r].pc = "sent" /\ jobs[r].op = "login"
    /\ enabled /\ logins < MaxLogins
    /\ logins' = logins + 1 /\ live' = live \cup {logins + 1}
    /\ jobs' = [jobs EXCEPT ![r].pc = "answered", ![r].answer = "OK", ![r].pair = Pair(logins + 1, 0)]
    /\ UNCHANGED <<store, flights, rotations, enabled, expired, lost, suspended>>

\* refresh: inspect_refresh, refresh_identity, rotate_refresh.
ServeRefresh(o) ==
    LET pair == flights[o].pair
        s == pair.session
        Answered(a) == flights' = [flights EXCEPT ![o].pc = "answered", ![o].answer = a]
        rotated == [rotations EXCEPT ![s] = @ + 1]
    IN  /\ flights[o].pc = "sent"
        /\ CASE s # 0 /\ s \notin live ->
                  Answered(Told(RefreshCode["SessionInvalid"])) /\ UNCHANGED <<live, rotations, lost>>
             [] s = 0 \/ (s \in live /\ rotations[s] # pair.number) ->
                  Answered(Told(RefreshCode["Invalid"])) /\ UNCHANGED <<live, rotations, lost>>
             [] s \in live /\ rotations[s] = pair.number /\ ~enabled ->
                  /\ Answered(Told(IdentityCode["Disabled"]))
                  /\ live' \in {live, live \ {s}} /\ UNCHANGED <<rotations, lost>>
             [] OTHER ->
                  /\ live' = live
                  /\ \/ /\ rotations[s] < MaxRotations
                        /\ Answered("OK") /\ rotations' = rotated /\ lost' = lost
                     \/ Answered(Told(IdentityCode["Database"])) /\ UNCHANGED <<rotations, lost>>
                     \/ /\ rotations[s] < MaxRotations     \* rotated, but Redis' answer is lost
                        /\ Answered(Told(RefreshCode["Store"])) /\ rotations' = rotated
                        /\ lost' = lost \cup {s}
        /\ UNCHANGED <<store, jobs, enabled, expired, logins, suspended>>

\* Sessions end and accounts are disabled behind the client's back.
EndSession(s) ==
    /\ s \in live /\ live' = live \ {s}
    /\ UNCHANGED <<store, jobs, flights, rotations, enabled, expired, logins, lost, suspended>>

SetAccount ==
    /\ enabled' = ~enabled
    /\ suspended' = IF enabled THEN suspended \cup live ELSE suspended
    /\ UNCHANGED <<store, jobs, flights, rotations, live, expired, logins, lost>>

\* An access token outlives the answer that brings it and the request that is
\* sent again with it (15 minutes against time-outs of 15 seconds).
ExpireAccess(pair) ==
    /\ pair \notin expired
    /\ \A r \in Jobs :
           /\ jobs[r].pair = pair => ~jobs[r].retried
           /\ flights[r].pc = "answered" => flights[r].pair.session # pair.session
    /\ expired' = expired \cup {pair}
    /\ UNCHANGED <<store, jobs, flights, rotations, live, enabled, logins, lost, suspended>>

-----------------------------------------------------------------------------
(* The client.                                                             *)

Send(r) ==
    /\ jobs[r].pc = "idle"
    /\ \E op \in {"work", "logout", "login"} :
           /\ IF op = "login"
              THEN ~Signed /\ \A q \in Jobs : jobs[q].op \notin {"login", "profile"}
              ELSE Signed
           /\ jobs' = [jobs EXCEPT ![r] = [NoJob EXCEPT !.op = op, !.pc = "sent",
                  !.pair = IF op = "login" THEN NoPair ELSE store.pair]]
    /\ UNCHANGED <<store, flights, rotations, live, enabled, expired, logins, lost, suspended>>

\* Variant: every request refreshes for itself.
FlightOwn(r) == r

\* refreshInFlight, or a new one.
FlightFor(r) ==
    IF \E o \in Jobs : flights[o].pc # "idle" THEN CHOOSE o \in Jobs : flights[o].pc # "idle" ELSE r

\* endLocalSession, if the code says so.
AfterCode(st, code) == IF code \in LoginRequiredCodes THEN Cleared ELSE st

\* How the caller goes on after the interceptor: signOut clears the store
\* whatever was answered; LoginPage knows the user now, or clears the store.
AfterJob(st, op, code) ==
    CASE op = "logout" -> Cleared
      [] op \in {"login", "profile"} /\ code # "OK" -> Cleared
      [] op = "profile" /\ code = "OK" -> [st EXCEPT !.user = st.pair # NoPair]
      [] OTHER -> st

\* An expired access token: the request waits for the refresh in progress.
ReceiveExpired(r) ==
    LET o == FlightFor(r)
    IN  /\ jobs[r].pc = "answered" /\ ~jobs[r].retried
        /\ jobs[r].answer \in Unauthorized /\ jobs[r].answer = "ACCESS_TOKEN_EXPIRED"
        /\ jobs' = [jobs EXCEPT ![r].pc = "waiting", ![r].flight = o]
        /\ flights' = IF flights[o].pc # "idle" THEN flights
                      ELSE [flights EXCEPT ![o] = [pc |-> "sent", pair |-> store.pair, answer |-> "none"]]
        /\ UNCHANGED <<store, rotations, live, enabled, expired, logins, lost, suspended>>

\* Any other answer.
Receive(r) ==
    LET job == jobs[r]
        code == job.answer
    IN  /\ job.pc = "answered" /\ job.op # "login"
        /\ code # "ACCESS_TOKEN_EXPIRED" \/ job.retried
        /\ store' = AfterJob(AfterCode(store, code), job.op, code)
        /\ jobs' = [jobs EXCEPT ![r] = NoJob]
        /\ UNCHANGED <<flights, rotations, live, enabled, expired, logins, lost, suspended>>

\* setTokenPair, and with the new token the requests for user and menus.
ReceiveLogin(r) ==
    /\ jobs[r].pc = "answered" /\ jobs[r].op = "login"
    /\ store' = [store EXCEPT !.pair = jobs[r].pair]
    /\ jobs' = [jobs EXCEPT ![r].op = "profile", ![r].pc = "sent", ![r].answer = "none"]
    /\ UNCHANGED <<flights, rotations, live, enabled, expired, logins, lost, suspended>>

\* A request gets no answer, or one that is none of the API.
Fail(r) ==
    /\ jobs[r].pc \in {"sent", "answered"}
    /\ store' = AfterJob(store, jobs[r].op, "error")
    /\ jobs' = [jobs EXCEPT ![r] = NoJob]
    /\ UNCHANGED <<flights, rotations, live, enabled, expired, logins, lost, suspended>>

Waiting(o) == {r \in Jobs : jobs[r].pc = "waiting" /\ jobs[r].flight = o}
Leave(o, st, code) ==
    store' = IF \E r \in Waiting(o) : jobs[r].op \in {"logout", "profile"} THEN Cleared
             ELSE AfterCode(st, code)

\* The refresh is answered: its requests go out again with the new token, or
\* all end with its error.
ReceiveRefresh(o) ==
    LET s == flights[o].pair.session
        new == Pair(s, flights[o].pair.number + 1)
    IN  /\ flights[o].pc = "answered"
        /\ flights' = [flights EXCEPT ![o] = NoFlight]
        /\ IF flights[o].answer = "OK"
           THEN /\ store' = [store EXCEPT !.pair = new]
                /\ jobs' = [r \in Jobs |-> IF r \in Waiting(o)
                       THEN [jobs[r] EXCEPT !.pc = "sent", !.pair = new, !.retried = TRUE,
                                            !.flight = "none", !.answer = "none"]
                       ELSE jobs[r]]
           ELSE /\ Leave(o, store, flights[o].answer)
                /\ jobs' = [r \in Jobs |-> IF r \in Waiting(o) THEN NoJob ELSE jobs[r]]
        /\ UNCHANGED <<rotations, live, enabled, expired, logins, lost, suspended>>

Lost(o) == IF flights[o].pc = "answered" /\ flights[o].answer = "OK"
           THEN {flights[o].pair.session} ELSE {}

\* Neither the refresh nor a request that shares it gets an answer.
FailRefresh(o) ==
    /\ flights[o].pc \in {"sent", "answered"}
    /\ flights' = [flights EXCEPT ![o] = NoFlight]
    /\ Leave(o, store, "error")
    /\ jobs' = [r \in Jobs |-> IF r \in Waiting(o) THEN NoJob ELSE jobs[r]]
    /\ lost' = lost \cup Lost(o)
    /\ UNCHANGED <<rotations, live, enabled, expired, logins, suspended>>

\* The window is loaded again: a pair without a known user was not persisted,
\* and nobody waits for what is on its way.
Reload ==
    /\ store' = IF store.user THEN store ELSE Cleared
    /\ jobs' = [r \in Jobs |-> NoJob] /\ flights' = [o \in Jobs |-> NoFlight]
    /\ lost' = lost \cup UNION {Lost(o) : o \in Jobs}
    /\ UNCHANGED <<rotations, live, enabled, expired, logins, suspended>>

ClientInit ==
    /\ store = Cleared
    /\ jobs = [r \in Jobs |-> NoJob] /\ flights = [o \in Jobs |-> NoFlight]
    /\ rotations = [s \in 1..MaxLogins |-> 0] /\ live = {} /\ enabled = TRUE
    /\ expired = {} /\ logins = 0 /\ lost = {} /\ suspended = {}

ClientNext ==
    \/ \E r \in Jobs :
           \/ Send(r)
           \/ Serve(r)
           \/ ServeLogin(r)
           \/ ServeRefresh(r)
           \/ ReceiveExpired(r)
           \/ Receive(r)
           \/ ReceiveLogin(r)
           \/ Fail(r)
           \/ ReceiveRefresh(r)
           \/ FailRefresh(r)
    \/ \E s \in 1..MaxLogins : EndSession(s)
    \/ \E s \in live : ExpireAccess(Pair(s, rotations[s]))
    \/ SetAccount
    \/ Reload

ClientSpec == ClientInit /\ [][ClientNext]_clientVars

-----------------------------------------------------------------------------
(* Properties.                                                             *)

\* The user ends the session: signOut, or a login that does not come to its end.
OwnEnd ==
    \E r \in Jobs : jobs[r].op \in {"logout", "login", "profile"} /\ jobs'[r] = NoJob

\* An answer, or its failure, meets a session later than its request.
LateAnswer ==
    \/ \E r \in Jobs : jobs[r].pc # "idle" /\ jobs'[r] = NoJob /\ jobs[r].pair.session # store.pair.session
    \/ \E o \in Jobs : flights[o].pc # "idle" /\ flights'[o] = NoFlight
                       /\ flights[o].pair.session # store.pair.session

\* The client gives up a session that goes on only at its user's wish, or if its
\* account was disabled or a refresh of it never answered, or if what comes is
\* an answer for an earlier session: no number of requests that find their token
\* expired together, no failure of the stores and no refusal by a handler ends it.
SignedOutOnlyWhenOver ==
    [][LET s == store.pair.session
       IN  store.user /\ store'.pair.session # s =>
               s \notin live \/ s \in suspended \/ s \in lost \/ OwnEnd \/ LateAnswer]_clientVars

=============================================================================
