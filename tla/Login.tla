-------------------------------- MODULE Login ---------------------------------
(* The captcha and the login (crates/auth/src/captcha.rs and               *)
(* crates/api/src/routes/auth/login.rs): how an attempt ends and what the  *)
(* audit log says of it, while other attempts use the same captcha and an  *)
(* administrator changes the account.  One username.                       *)
EXTENDS Naturals, FiniteSets

CONSTANTS
    Captchas,
    Attempts,       \* login requests in a behaviour
    Passwords,
    NoCaptcha,      \* a blank captcha or captcha id in the payload
    MaxAdmin        \* bound on the administrator's changes

ASSUME LoginAssumption == NoCaptcha \notin Captchas /\ MaxAdmin \in Nat

VARIABLES
    captchas,       \* the keys in Redis: "unused", "live" or "gone"
    account,        \* the row of the username: its status and its password
    attempts,
    sessions,       \* attempts whose session was created
    log,            \* events auth.login: their number, and the last, by attempt
    admitted,       \* history: attempts whose captcha was accepted
    logFailed,      \* history: attempts whose event failed
    adminChanges

loginVars == <<captchas, account, attempts, sessions, log, admitted, logFailed, adminChanges>>

Reasons == {"none", "captcha_required", "captcha_invalid", "captcha_failed",
            "invalid_credentials", "user_disabled", "internal_error", "token_issue_failed"}

Outcome(result, reason) == [result |-> result, reason |-> reason]
NoOutcome == Outcome("none", "none")

NoAttempt == [pc |-> "idle", captcha |-> NoCaptcha, right |-> FALSE,
              password |-> CHOOSE p \in Passwords : TRUE, outcome |-> NoOutcome, valid |-> FALSE]

\* The credentials would be accepted now.
Accepts(acc, password) == acc.status = "enabled" /\ acc.password = password

Goto2(a, pc) == attempts' = [attempts EXCEPT ![a].pc = pc]

\* An attempt is decided; what is left are its event and its answer.
Decide(a, result, reason) ==
    attempts' = [attempts EXCEPT ![a].pc = "record", ![a].outcome = Outcome(result, reason)]

-----------------------------------------------------------------------------
\* create: SETEX under a new id.  A picture that cannot be drawn leaves nothing.
CreateCaptcha(c) ==
    /\ captchas[c] = "unused"
    /\ captchas' = [captchas EXCEPT ![c] = "live"]
    /\ UNCHANGED <<account, attempts, sessions, log, admitted, logFailed, adminChanges>>

\* CAPTCHA_TTL_SECONDS are over.
ExpireCaptcha(c) ==
    /\ captchas[c] = "live"
    /\ captchas' = [captchas EXCEPT ![c] = "gone"]
    /\ UNCHANGED <<account, attempts, sessions, log, admitted, logFailed, adminChanges>>

\* login and validate.
SubmitLogin(a) ==
    /\ attempts[a].pc = "idle"
    /\ \E c \in {x \in Captchas : captchas[x] # "unused"} \cup {NoCaptcha},
          right \in BOOLEAN, p \in Passwords :
           LET blank == c = NoCaptcha
           IN  /\ right => ~blank
               /\ attempts' = [attempts EXCEPT ![a] =
                      [pc |-> IF blank THEN "record" ELSE "captcha",
                       captcha |-> c, right |-> right, password |-> p,
                       outcome |-> IF blank THEN Outcome("denied", "captcha_required") ELSE NoOutcome,
                       valid |-> Accepts(account, p)]]
    /\ UNCHANGED <<captchas, account, sessions, log, admitted, logFailed, adminChanges>>

\* Variant: GET, and the key is left to expire.
SpentNever(c) == captchas

\* GETDEL.
Spent(c) == [captchas EXCEPT ![c] = "gone"]

\* verify.
VerifyCaptcha(a) ==
    LET c == attempts[a].captcha
    IN  /\ attempts[a].pc = "captcha"
        /\ captchas' = Spent(c)
        /\ IF captchas[c] = "live" /\ attempts[a].right
           THEN Goto2(a, "account") /\ admitted' = admitted \cup {a}
           ELSE Decide(a, "denied", "captcha_invalid") /\ admitted' = admitted
        /\ UNCHANGED <<account, sessions, log, logFailed, adminChanges>>

\* Redis does not answer; the key may be gone all the same.
VerifyCaptchaFails(a) ==
    /\ attempts[a].pc = "captcha"
    /\ captchas' \in {captchas, Spent(attempts[a].captcha)}
    /\ Decide(a, "failed", "captcha_failed")
    /\ UNCHANGED <<account, sessions, log, admitted, logFailed, adminChanges>>

MayLogIn(acc, password) == acc.status = "enabled" /\ acc.password = password

\* login_account reads status and hash together; both are judged without
\* another look at the row.
CheckAccount(a) ==
    LET p == attempts[a].password
    IN  /\ attempts[a].pc = "account"
        /\ CASE account.status = "absent" -> Decide(a, "denied", "invalid_credentials")
             [] account.status # "absent" /\ MayLogIn(account, p) -> Goto2(a, "info")
             [] account.status = "disabled" /\ ~MayLogIn(account, p) -> Decide(a, "denied", "user_disabled")
             [] OTHER -> Decide(a, "denied", "invalid_credentials")
        /\ UNCHANGED <<captchas, account, sessions, log, admitted, logFailed, adminChanges>>

\* load_user_info, by the id of the row that was read before.
InfoFound == account.status # "absent"

\* info: the account may be gone.
LoadUser(a) ==
    /\ attempts[a].pc = "info"
    /\ IF InfoFound THEN Goto2(a, "session") ELSE Decide(a, "failed", "internal_error")
    /\ UNCHANGED <<captchas, account, sessions, log, admitted, logFailed, adminChanges>>

\* Either query fails, or the hash cannot be verified.
AccountFails(a) ==
    /\ attempts[a].pc \in {"account", "info"}
    /\ Decide(a, "failed", "internal_error")
    /\ UNCHANGED <<captchas, account, sessions, log, admitted, logFailed, adminChanges>>

CreateLoginSession(a) ==
    /\ attempts[a].pc = "session"
    /\ sessions' = sessions \cup {a}
    /\ Decide(a, "succeeded", "none")
    /\ UNCHANGED <<captchas, account, log, admitted, logFailed, adminChanges>>

\* No answer of Redis; the session may exist, but nobody has its tokens.
CreateSessionFails(a) ==
    /\ attempts[a].pc = "session"
    /\ sessions' \in {sessions, sessions \cup {a}}
    /\ Decide(a, "failed", "token_issue_failed")
    /\ UNCHANGED <<captchas, account, log, admitted, logFailed, adminChanges>>

Logged(a) == log' = [log EXCEPT ![a] = [count |-> @.count + 1, last |-> attempts[a].outcome]]

\* Variant: a refusal is answered without an event.
RecordSuccessesOnly(a) ==
    /\ attempts[a].pc = "record"
    /\ IF attempts[a].outcome.result = "denied" THEN log' = log ELSE Logged(a)
    /\ Goto2(a, "answered")
    /\ UNCHANGED <<captchas, account, sessions, admitted, logFailed, adminChanges>>

\* record_login, which only reports its own failure, and the answer.
RecordLogin(a) ==
    /\ attempts[a].pc = "record"
    /\ \/ Logged(a) /\ logFailed' = logFailed
       \/ log' = log /\ logFailed' = logFailed \cup {a}
    /\ Goto2(a, "answered")
    /\ UNCHANGED <<captchas, account, sessions, admitted, adminChanges>>

\* The client goes away: the attempt ends where it waits, and the statement it
\* waits for may still take effect.
DropLogin(a) ==
    /\ attempts[a].pc \notin {"idle", "answered", "dropped"}
    /\ captchas' \in IF attempts[a].pc = "captcha" THEN {captchas, Spent(attempts[a].captcha)} ELSE {captchas}
    /\ sessions' \in IF attempts[a].pc = "session" THEN {sessions, sessions \cup {a}} ELSE {sessions}
    /\ \/ log' = log
       \/ attempts[a].pc = "record" /\ Logged(a)
    /\ Goto2(a, "dropped")
    /\ UNCHANGED <<account, admitted, logFailed, adminChanges>>

\* create, update, delete of the account and replace_password.
Administrate ==
    /\ adminChanges < MaxAdmin /\ adminChanges' = adminChanges + 1
    /\ account' \in {[status |-> s, password |-> p] :
           s \in {"absent", "enabled", "disabled"}, p \in Passwords} \ {account}
    /\ attempts' = [a \in Attempts |->
           [attempts[a] EXCEPT !.valid = @ \/ Accepts(account', attempts[a].password)]]
    /\ UNCHANGED <<captchas, sessions, log, admitted, logFailed>>

LoginInit ==
    /\ captchas = [c \in Captchas |-> "unused"]
    /\ account = [status |-> "enabled", password |-> CHOOSE p \in Passwords : TRUE]
    /\ attempts = [a \in Attempts |-> NoAttempt]
    /\ sessions = {} /\ admitted = {} /\ logFailed = {}
    /\ log = [a \in Attempts |-> [count |-> 0, last |-> NoOutcome]]
    /\ adminChanges = 0

LoginNext ==
    \/ \E c \in Captchas : CreateCaptcha(c) \/ ExpireCaptcha(c)
    \/ \E a \in Attempts :
           \/ SubmitLogin(a)
           \/ VerifyCaptcha(a)
           \/ VerifyCaptchaFails(a)
           \/ CheckAccount(a)
           \/ LoadUser(a)
           \/ AccountFails(a)
           \/ CreateLoginSession(a)
           \/ CreateSessionFails(a)
           \/ RecordLogin(a)
           \/ DropLogin(a)
    \/ Administrate

LoginSpec == LoginInit /\ [][LoginNext]_loginVars

-----------------------------------------------------------------------------
(* Properties.                                                             *)

\* A captcha lets at most one attempt get to the password, however many present
\* it at once and whatever answers of Redis are lost.
CaptchaAdmitsOnce ==
    \A a, b \in admitted : attempts[a].captcha = attempts[b].captcha => a = b

\* An attempt leaves at most one event; the event of an answered attempt says
\* how it ended, and is missing only if writing it failed.  A session without
\* an event of success belongs to an attempt that got no tokens, or whose event
\* failed.
LogTellsOutcome ==
    \A a \in Attempts :
        /\ log[a].count <= 1
        /\ attempts[a].pc = "answered" /\ a \notin logFailed =>
               log[a] = [count |-> 1, last |-> attempts[a].outcome]
        /\ attempts[a].pc = "answered" /\ a \in sessions =>
               attempts[a].outcome \in {Outcome("succeeded", "none"), Outcome("failed", "token_issue_failed")}
        /\ attempts[a].outcome.result = "succeeded" => a \in sessions

\* A session begins only with a password that was, at some moment since the
\* attempt was submitted, the password of the enabled account.
SessionsWereValid == \A a \in sessions : attempts[a].valid

\* A session costs a captcha of its own and credentials that were right: neither
\* concurrent attempts nor lost answers get two for one captcha (verify, login).
SessionsEarned == CaptchaAdmitsOnce /\ SessionsWereValid /\ sessions \subseteq admitted

=============================================================================
