------------------------------- MODULE Gateway --------------------------------
(* The way of a request under /api (crates/api/src/router.rs): the rate    *)
(* limits, require_auth, the permission that the route declares, and the   *)
(* audit event of a denial.  Meanwhile the session, the account's status   *)
(* and its grants change.  One user with one session; clients are          *)
(* addresses, from which requests with and without that session come.      *)
EXTENDS Naturals, FiniteSets

CONSTANTS
    Requests,       \* requests in a behaviour, each served once
    Clients,
    GlobalLimit,    \* GLOBAL_LIMIT and CAPTCHA_LIMIT, made small
    CaptchaLimit,
    MaxChanges      \* bound on the changes of the user's rights

ASSUME GatewayAssumption ==
    GlobalLimit \in Nat \ {0} /\ CaptchaLimit \in Nat \ {0} /\ MaxChanges \in Nat

VARIABLES
    usage,          \* the counters in Redis, by policy and client
    holds,          \* what is true of the user: "session", "enabled", "granted"
    policyUsable,   \* the policy in memory can be evaluated
    calls,          \* every request: where it is and what was answered
    denials,        \* audit events auth.access_denied, by request
    auditFailed,    \* history: requests whose audit event failed
    windows,        \* history: who was counted or let through in the open window
    changes

gatewayVars == <<usage, holds, policyUsable, calls, denials, auditFailed, windows, changes>>

Policies == {"global", "captcha"}
Rights == {"session", "enabled", "granted"}
Routes == {"captcha", "public", "self", "managed"}

NoCall == [pc |-> "idle", client |-> CHOOSE c \in Clients : TRUE, route |-> "public",
           bearer |-> FALSE, answer |-> "none", seen |-> {}]

Limit(policy) == IF policy = "global" THEN GlobalLimit ELSE CaptchaLimit

\* Variant: both layers count under one name.
CounterShared(policy) == "global"

\* policy_name is part of the counter's key.
Counter(policy) == policy

\* What a handler of the route must have had checked.
Required(route) ==
    CASE route = "managed" -> Rights
      [] route = "self" -> {"session", "enabled"}
      [] OTHER -> {}

Answer(r, a) == calls' = [calls EXCEPT ![r].pc = "answered", ![r].answer = a]
Goto(r, pc) == calls' = [calls EXCEPT ![r].pc = pc]

-----------------------------------------------------------------------------
Arrive(r) ==
    /\ calls[r].pc = "idle"
    /\ \E c \in Clients, route \in Routes, bearer \in BOOLEAN :
           /\ bearer => route \in {"self", "managed"}
           /\ calls' = [calls EXCEPT ![r] = [pc |-> "global", client |-> c, route |-> route,
                  bearer |-> bearer, answer |-> "none", seen |-> holds]]
    /\ UNCHANGED <<usage, holds, policyUsable, denials, auditFailed, windows, changes>>

\* The layers of apply_global and, inside, of apply_captcha.
Passed(r) == LET route == calls[r].route
             IN  IF calls[r].pc = "global" /\ route = "captcha" THEN "captcha"
                 ELSE IF Required(route) = {} THEN "handler" ELSE "session"

CountRequest(r) ==
    LET p == calls[r].pc
        c == calls[r].client
    IN  /\ p \in Policies
        /\ usage' = [usage EXCEPT ![Counter(p)][c] = @ + 1]
        /\ windows' = [windows EXCEPT ![p][c].counted = @ \cup {r},
               ![p][c].passed = IF usage[Counter(p)][c] < Limit(p) THEN @ \cup {r} ELSE @]
        /\ IF usage[Counter(p)][c] < Limit(p) THEN Goto(r, Passed(r)) ELSE Answer(r, "RATE_LIMITED")
        /\ UNCHANGED <<holds, policyUsable, denials, auditFailed, changes>>

\* StoreFailureMode::Allow: without an answer of the store the request goes on,
\* counted or not.
CountFails(r) ==
    LET p == calls[r].pc
        c == calls[r].client
    IN  /\ p \in Policies
        /\ \/ usage' = usage /\ windows' = windows
           \/ /\ usage' = [usage EXCEPT ![Counter(p)][c] = @ + 1]
              /\ windows' = [windows EXCEPT ![p][c].counted = @ \cup {r}]
        /\ Goto(r, Passed(r))
        /\ UNCHANGED <<holds, policyUsable, denials, auditFailed, changes>>

\* The window of a counter is over.
CloseWindow(p, c) ==
    /\ usage[p][c] > 0
    /\ usage' = [usage EXCEPT ![p][c] = 0]
    /\ windows' = [windows EXCEPT ![p][c] = [counted |-> {}, passed |-> {}]]
    /\ UNCHANGED <<holds, policyUsable, calls, denials, auditFailed, changes>>

-----------------------------------------------------------------------------
\* decode_active: the session of the token is in Redis.
SessionFound == "session" \in holds

\* require_auth: the bearer token and its session, ...
RequireSession(r) ==
    /\ calls[r].pc = "session"
    /\ CASE ~calls[r].bearer -> Answer(r, "LOGIN_REQUIRED")
         [] calls[r].bearer /\ ~SessionFound -> Answer(r, "SESSION_INVALID")
         [] OTHER -> Goto(r, "status")
    /\ UNCHANGED <<usage, holds, policyUsable, denials, auditFailed, windows, changes>>

SessionStoreFails(r) ==
    /\ calls[r].pc = "session" /\ calls[r].bearer
    /\ Answer(r, "AUTHORIZATION_UNAVAILABLE")
    /\ UNCHANGED <<usage, holds, policyUsable, denials, auditFailed, windows, changes>>

\* Variant: an account that the snapshot does not hold enabled is let through.
ActiveUnchecked == TRUE

\* require_active_user.
Active == "enabled" \in holds

\* ... then the account in memory: disabled, or unknown.
RequireActive(r) ==
    /\ calls[r].pc = "status"
    /\ IF ~Active THEN \E a \in {"USER_DISABLED", "SESSION_INVALID"} : Answer(r, a)
       ELSE Goto(r, IF calls[r].route = "managed" THEN "permission" ELSE "handler")
    /\ UNCHANGED <<usage, holds, policyUsable, denials, auditFailed, windows, changes>>

\* Variant: an evaluation that fails is audited like a denial.
DeniedOrFailed == "granted" \notin holds \/ ~policyUsable

\* authorize_permission came to a decision, and it is no.
Denied == "granted" \notin holds /\ policyUsable

\* require_declared_permission.
RequirePermission(r) ==
    /\ calls[r].pc = "permission"
    /\ LET failure == IF policyUsable THEN "PERMISSION_DENIED" ELSE "AUTHORIZATION_UNAVAILABLE"
       IN  CASE Denied -> calls' = [calls EXCEPT ![r].pc = "deny", ![r].answer = failure]
             [] ~policyUsable /\ ~Denied -> Answer(r, failure)
             [] OTHER -> Goto(r, "handler")
    /\ UNCHANGED <<usage, holds, policyUsable, denials, auditFailed, windows, changes>>

\* record_access_denied, which only logs its own failure, and the answer.
RecordDenied(r) ==
    /\ calls[r].pc = "deny"
    /\ \/ denials' = [denials EXCEPT ![r] = @ + 1] /\ auditFailed' = auditFailed
       \/ denials' = denials /\ auditFailed' = auditFailed \cup {r}
    /\ Goto(r, "answered")
    /\ UNCHANGED <<usage, holds, policyUsable, windows, changes>>

Handle(r) ==
    /\ calls[r].pc = "handler"
    /\ Answer(r, "handled")
    /\ UNCHANGED <<usage, holds, policyUsable, denials, auditFailed, windows, changes>>

\* The client goes away and the request's future is dropped; an insert that
\* was under way may still take effect.
Disconnect(r) ==
    /\ calls[r].pc \notin {"idle", "answered", "dropped"}
    /\ Goto(r, "dropped")
    /\ \/ denials' = denials
       \/ calls[r].pc = "deny" /\ denials' = [denials EXCEPT ![r] = @ + 1]
    /\ UNCHANGED <<usage, holds, policyUsable, auditFailed, windows, changes>>

-----------------------------------------------------------------------------
\* Sessions only end; status and grants come and go; a policy that cannot be
\* evaluated is replaced by the next reload.
ChangeRights ==
    /\ changes < MaxChanges /\ changes' = changes + 1
    /\ \/ \E w \in Rights :
              /\ holds' = (IF w \in holds THEN holds \ {w} ELSE holds \cup {w})
              /\ "session" \in holds' => "session" \in holds
              /\ policyUsable' = policyUsable
       \/ policyUsable' = ~policyUsable /\ holds' = holds
    /\ calls' = [r \in Requests |-> [calls[r] EXCEPT !.seen = @ \cup holds']]
    /\ UNCHANGED <<usage, denials, auditFailed, windows>>

GatewayInit ==
    /\ usage = [p \in Policies |-> [c \in Clients |-> 0]]
    /\ holds \in {Rights, {"session", "enabled"}} /\ policyUsable = TRUE
    /\ calls = [r \in Requests |-> NoCall]
    /\ denials = [r \in Requests |-> 0] /\ auditFailed = {}
    /\ windows = [p \in Policies |-> [c \in Clients |-> [counted |-> {}, passed |-> {}]]]
    /\ changes = 0

GatewayNext ==
    \/ \E r \in Requests :
           \/ Arrive(r)
           \/ CountRequest(r)
           \/ CountFails(r)
           \/ RequireSession(r)
           \/ SessionStoreFails(r)
           \/ RequireActive(r)
           \/ RequirePermission(r)
           \/ RecordDenied(r)
           \/ Handle(r)
           \/ Disconnect(r)
    \/ \E p \in Policies, c \in Clients : CloseWindow(p, c)
    \/ ChangeRights

GatewaySpec == GatewayInit /\ [][GatewayNext]_gatewayVars

-----------------------------------------------------------------------------
(* Properties.                                                             *)

\* A handler runs only for a user whose session, account and permission each
\* held at some moment since the request arrived: what was withdrawn before it
\* arrived does not help it, whatever changes while it is on its way.
HandlersHaveRights ==
    \A r \in Requests :
        calls[r].pc = "handler" \/ calls[r].answer = "handled" =>
            Required(calls[r].route) \subseteq calls[r].seen

\* Every PERMISSION_DENIED of the permission layer has one audit event, unless
\* writing it failed; no other answer, of a policy that cannot be evaluated in
\* particular, has one (what a handler itself refuses is not audited).
DenialsAudited ==
    \A r \in Requests :
        /\ calls[r].pc = "answered" /\ calls[r].answer = "PERMISSION_DENIED" =>
               denials[r] = IF r \in auditFailed THEN 0 ELSE 1
        /\ calls[r].pc = "answered" /\ calls[r].answer # "PERMISSION_DENIED" => denials[r] = 0

\* In one window a limit lets through no more than its number of requests for
\* which the store answered, and refuses a client's request only after as many
\* requests of that client were subject to that limit.
LimitsApart ==
    [][/\ \A p \in Policies, c \in Clients : Cardinality(windows'[p][c].passed) <= Limit(p)
       /\ \A r \in Requests :
              calls[r].answer = "none" /\ calls'[r].answer = "RATE_LIMITED" =>
                  Cardinality(windows[calls[r].pc][calls[r].client].counted) >= Limit(calls[r].pc)
      ]_gatewayVars

=============================================================================
