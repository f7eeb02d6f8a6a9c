----------------------------- MODULE RequestsProofs -----------------------------
(***************************************************************************)
(* Proofs, for any number of requests, clients, login attempts, captchas,  *)
(* rows and sessions and any sizes, of what the components promise that    *)
(* serve or send a request: the layers before a handler (Gateway), captcha *)
(* and login (Login), the byte ranges of a public file (ByteRanges), paged *)
(* lists (Listings) and the sessions of a client (DesktopClient).          *)
(***************************************************************************)
EXTENDS Gateway, Login, ByteRanges, DesktopClient, Listings, FiniteSetTheorems, SequenceTheorems, TLAPS

-----------------------------------------------------------------------------
(* Gateway: the inductive invariant.                                       *)

Call == [pc : {"idle", "global", "captcha", "session", "status", "permission", "deny", "handler",
               "answered", "dropped"},
         client : Clients \cup {NoCall.client}, route : Routes, bearer : BOOLEAN,
         answer : {"none", "RATE_LIMITED", "LOGIN_REQUIRED", "SESSION_INVALID", "USER_DISABLED",
                   "AUTHORIZATION_UNAVAILABLE", "PERMISSION_DENIED", "handled"},
         seen : SUBSET Rights]

Window == [counted : SUBSET Requests, passed : SUBSET Requests]

GatewayTypeOK ==
    /\ usage \in [Policies -> [Clients -> Nat]]
    /\ holds \subseteq Rights /\ policyUsable \in BOOLEAN
    /\ calls \in [Requests -> Call]
    /\ denials \in [Requests -> Nat] /\ auditFailed \subseteq Requests
    /\ windows \in [Policies -> [Clients -> Window]]

\* What has been seen by a request that has come as far as q; now holds now.
Progress(q, now) ==
    /\ q.pc # "idle" => now \subseteq q.seen /\ q.client \in Clients
    /\ q.pc = "captcha" => q.route = "captcha"
    /\ q.pc = "session" => q.route \in {"self", "managed"}
    /\ q.pc = "status" => q.route \in {"self", "managed"} /\ "session" \in q.seen
    /\ q.pc = "permission" => q.route = "managed" /\ {"session", "enabled"} \subseteq q.seen
    /\ q.pc = "handler" \/ q.answer = "handled" => Required(q.route) \subseteq q.seen

\* A denial is written once, between its decision and its answer.
Audited(q, events, failed) ==
    /\ q.pc \notin {"answered", "dropped"} => events = 0 /\ ~failed
    /\ q.pc \notin {"answered", "dropped", "deny"} => q.answer = "none"
    /\ q.pc = "deny" => q.answer = "PERMISSION_DENIED"
    /\ q.pc = "answered" /\ q.answer = "PERMISSION_DENIED" => events = IF failed THEN 0 ELSE 1
    /\ q.pc = "answered" /\ q.answer # "PERMISSION_DENIED" => events = 0

\* A counter counts the requests of its client in the window.
Counted(p, c) ==
    /\ IsFiniteSet(windows[p][c].counted) /\ Cardinality(windows[p][c].counted) = usage[p][c]
    /\ windows[p][c].passed \subseteq windows[p][c].counted
    /\ Cardinality(windows[p][c].passed) <= Limit(p)

\* No request is counted before it comes to the layer.
NotYetCounted(r) ==
    \A p \in Policies, c \in Clients :
        calls[r].pc \in {"idle", "global"} \/ (calls[r].pc = "captcha" /\ p = "captcha") =>
            r \notin windows[p][c].counted

GatewayInv ==
    /\ GatewayTypeOK
    /\ \A r \in Requests : Progress(calls[r], holds)
    /\ \A r \in Requests : Audited(calls[r], denials[r], r \in auditFailed)
    /\ \A p \in Policies, c \in Clients : Counted(p, c)
    /\ \A r \in Requests : NotYetCounted(r)

-----------------------------------------------------------------------------
(* Gateway: what the common parts of the actions do.                       *)

\* One request goes on; the counters stand still.
LEMMA CallStep ==
  ASSUME GatewayInv, NEW r \in Requests, NEW q \in Call, calls' = [calls EXCEPT ![r] = q],
         UNCHANGED <<usage, holds, policyUsable, windows>>,
         denials' \in [Requests -> Nat], auditFailed' \subseteq Requests,
         \A o \in Requests \ {r} : denials'[o] = denials[o] /\ (o \in auditFailed' <=> o \in auditFailed),
         Progress(q, holds), Audited(q, denials'[r], r \in auditFailed'),
         q.pc \in {"idle", "global"} => calls[r].pc \in {"idle", "global"},
         q.pc = "captcha" => calls[r].pc \in {"idle", "global", "captcha"}
  PROVE  GatewayInv'
<1>1. calls' \in [Requests -> Call] /\ calls'[r] = q /\ \A o \in Requests \ {r} : calls'[o] = calls[o]
  BY DEF GatewayInv, GatewayTypeOK
<1>2. GatewayTypeOK'
  BY <1>1 DEF GatewayInv, GatewayTypeOK
<1>3. \A o \in Requests : Progress(calls'[o], holds)
  BY <1>1 DEF GatewayInv
<1>4. \A o \in Requests : Audited(calls'[o], denials'[o], o \in auditFailed')
  <2> TAKE o \in Requests
  <2>1. CASE o = r
    BY <1>1, <2>1
  <2>2. CASE o # r
    BY <1>1, <2>2 DEF GatewayInv, Audited
  <2> QED
    BY <2>1, <2>2
<1>5. \A p \in Policies, c \in Clients : Counted(p, c)'
  BY DEF GatewayInv, Counted
<1>6. \A o \in Requests : NotYetCounted(o)'
  BY <1>1 DEF GatewayInv, NotYetCounted
<1> QED
  BY <1>2, <1>3, <1>4, <1>5, <1>6 DEF GatewayInv

\* Where a request goes, and what it is answered.
LEMMA CallFields ==
  ASSUME GatewayInv, NEW r \in Requests
  PROVE  /\ \A pc : Goto(r, pc) => calls' = [calls EXCEPT ![r] = [calls[r] EXCEPT !.pc = pc]]
         /\ \A a : Answer(r, a) => calls' = [calls EXCEPT ![r] = [calls[r] EXCEPT !.pc = "answered", !.answer = a]]
         /\ calls[r] \in Call /\ Progress(calls[r], holds)
         /\ Audited(calls[r], denials[r], r \in auditFailed)
         /\ denials \in [Requests -> Nat] /\ auditFailed \subseteq Requests
BY DEF GatewayInv, GatewayTypeOK, Goto, Answer

LEMMA ArriveStep ==
  ASSUME GatewayInv, NEW r \in Requests, Arrive(r)
  PROVE  GatewayInv'
<1>1. PICK c \in Clients, route \in Routes, bearer \in BOOLEAN :
        calls' = [calls EXCEPT ![r] = [pc |-> "global", client |-> c, route |-> route,
                      bearer |-> bearer, answer |-> "none", seen |-> holds]]
  BY DEF Arrive
<1> DEFINE q == [pc |-> "global", client |-> c, route |-> route,
                 bearer |-> bearer, answer |-> "none", seen |-> holds]
<1>2. /\ calls[r].pc = "idle"
      /\ UNCHANGED <<usage, holds, policyUsable, denials, auditFailed, windows, changes>>
  BY DEF Arrive
<1>3. q \in Call /\ Progress(q, holds)
  BY DEF GatewayInv, GatewayTypeOK, Call, Progress
<1>4. Audited(q, denials[r], r \in auditFailed)
  BY <1>2, CallFields DEF Audited
<1> QED
  BY <1>1, <1>2, <1>3, <1>4, CallFields, CallStep

LEMMA RequireSessionStep ==
  ASSUME GatewayInv, NEW r \in Requests, RequireSession(r) \/ SessionStoreFails(r)
  PROVE  GatewayInv'
<1>1. /\ calls[r].pc = "session"
      /\ UNCHANGED <<usage, holds, policyUsable, denials, auditFailed, windows, changes>>
  BY DEF RequireSession, SessionStoreFails
<1>2. \/ \E a \in {"LOGIN_REQUIRED", "SESSION_INVALID", "AUTHORIZATION_UNAVAILABLE"} : Answer(r, a)
      \/ Goto(r, "status") /\ "session" \in holds
  BY DEF RequireSession, SessionStoreFails, SessionFound
<1>3. /\ calls[r] \in Call /\ Progress(calls[r], holds)
      /\ Audited(calls[r], denials[r], r \in auditFailed)
      /\ denials \in [Requests -> Nat] /\ auditFailed \subseteq Requests
  BY CallFields
<1>4. CASE \E a \in {"LOGIN_REQUIRED", "SESSION_INVALID", "AUTHORIZATION_UNAVAILABLE"} : Answer(r, a)
  <2>1. PICK a \in {"LOGIN_REQUIRED", "SESSION_INVALID", "AUTHORIZATION_UNAVAILABLE"} : Answer(r, a)
    BY <1>4
  <2> DEFINE q == [calls[r] EXCEPT !.pc = "answered", !.answer = a]
  <2>2. q \in Call /\ q.pc = "answered" /\ q.answer = a /\ q.seen = calls[r].seen /\ q.client = calls[r].client
    BY <1>3 DEF Call
  <2>3. calls' = [calls EXCEPT ![r] = q]
    BY <2>1, CallFields
  <2> HIDE DEF q
  <2>4. Progress(q, holds) /\ Audited(q, denials[r], r \in auditFailed)
    BY <1>1, <1>3, <2>2 DEF Progress, Audited
  <2> QED
    BY <1>1, <1>3, <2>2, <2>3, <2>4, CallStep
<1>5. CASE Goto(r, "status") /\ "session" \in holds
  <2> DEFINE q == [calls[r] EXCEPT !.pc = "status"]
  <2>2. /\ q \in Call /\ q.pc = "status" /\ q.answer = calls[r].answer /\ q.seen = calls[r].seen
        /\ q.client = calls[r].client /\ q.route = calls[r].route
    BY <1>3 DEF Call
  <2>3. calls' = [calls EXCEPT ![r] = q]
    BY <1>5, CallFields
  <2> HIDE DEF q
  <2>4. Progress(q, holds) /\ Audited(q, denials[r], r \in auditFailed)
    BY <1>1, <1>3, <1>5, <2>2 DEF Progress, Audited
  <2> QED
    BY <1>1, <1>3, <2>2, <2>3, <2>4, CallStep
<1> QED
  BY <1>2, <1>4, <1>5

LEMMA RequireActiveStep ==
  ASSUME GatewayInv, NEW r \in Requests, RequireActive(r)
  PROVE  GatewayInv'
<1>1. /\ calls[r].pc = "status"
      /\ UNCHANGED <<usage, holds, policyUsable, denials, auditFailed, windows, changes>>
  BY DEF RequireActive
<1>2. \/ \E a \in {"USER_DISABLED", "SESSION_INVALID"} : Answer(r, a)
      \/ "enabled" \in holds /\ Goto(r, IF calls[r].route = "managed" THEN "permission" ELSE "handler")
  BY DEF RequireActive, Active
<1>3. /\ calls[r] \in Call /\ Progress(calls[r], holds)
      /\ Audited(calls[r], denials[r], r \in auditFailed)
      /\ denials \in [Requests -> Nat] /\ auditFailed \subseteq Requests
  BY CallFields
<1>4. CASE \E a \in {"USER_DISABLED", "SESSION_INVALID"} : Answer(r, a)
  <2>1. PICK a \in {"USER_DISABLED", "SESSION_INVALID"} : Answer(r, a)
    BY <1>4
  <2> DEFINE q == [calls[r] EXCEPT !.pc = "answered", !.answer = a]
  <2>2. q \in Call /\ q.pc = "answered" /\ q.answer = a /\ q.seen = calls[r].seen /\ q.client = calls[r].client
    BY <1>3 DEF Call
  <2>3. calls' = [calls EXCEPT ![r] = q]
    BY <2>1, CallFields
  <2> HIDE DEF q
  <2>4. Progress(q, holds) /\ Audited(q, denials[r], r \in auditFailed)
    BY <1>1, <1>3, <2>2 DEF Progress, Audited
  <2> QED
    BY <1>1, <1>3, <2>2, <2>3, <2>4, CallStep
<1>5. CASE "enabled" \in holds /\ Goto(r, IF calls[r].route = "managed" THEN "permission" ELSE "handler")
  <2> DEFINE pc == IF calls[r].route = "managed" THEN "permission" ELSE "handler"
             q == [calls[r] EXCEPT !.pc = pc]
  <2>2. /\ q \in Call /\ q.pc = pc /\ q.answer = calls[r].answer /\ q.seen = calls[r].seen
        /\ q.client = calls[r].client /\ q.route = calls[r].route
    BY <1>3 DEF Call
  <2>3. calls' = [calls EXCEPT ![r] = q]
    BY <1>5, CallFields
  <2> HIDE DEF q
  <2>4. Progress(q, holds) /\ Audited(q, denials[r], r \in auditFailed)
    BY <1>1, <1>3, <1>5, <2>2 DEF Progress, Audited, Required
  <2> QED
    BY <1>1, <1>3, <2>2, <2>3, <2>4, CallStep
<1> QED
  BY <1>2, <1>4, <1>5

\* Of the answers of the permission layer, only a denial waits for its event.
LEMMA RequirePermissionStep ==
  ASSUME GatewayInv, NEW r \in Requests, RequirePermission(r)
  PROVE  GatewayInv'
<1>1. /\ calls[r].pc = "permission"
      /\ UNCHANGED <<usage, holds, policyUsable, denials, auditFailed, windows, changes>>
  BY DEF RequirePermission
<1>2. \/ calls' = [calls EXCEPT ![r].pc = "deny", ![r].answer = "PERMISSION_DENIED"]
      \/ Answer(r, "AUTHORIZATION_UNAVAILABLE")
      \/ "granted" \in holds /\ Goto(r, "handler")
  <2>1. CASE "granted" \notin holds /\ policyUsable
    BY <2>1 DEF RequirePermission, Denied
  <2>2. CASE ~policyUsable
    BY <2>2 DEF RequirePermission, Denied
  <2>3. CASE "granted" \in holds /\ policyUsable
    BY <2>3 DEF RequirePermission, Denied
  <2> QED
    BY <2>1, <2>2, <2>3
<1>3. /\ calls[r] \in Call /\ Progress(calls[r], holds)
      /\ Audited(calls[r], denials[r], r \in auditFailed)
      /\ denials \in [Requests -> Nat] /\ auditFailed \subseteq Requests
  BY CallFields
<1>4. ASSUME NEW pc \in {"deny", "answered"}, NEW a \in {"PERMISSION_DENIED", "AUTHORIZATION_UNAVAILABLE"},
             pc = "deny" <=> a = "PERMISSION_DENIED",
             calls' = [calls EXCEPT ![r] = [calls[r] EXCEPT !.pc = pc, !.answer = a]]
      PROVE  GatewayInv'
  <2> DEFINE q == [calls[r] EXCEPT !.pc = pc, !.answer = a]
  <2>1. q \in Call /\ q.pc = pc /\ q.answer = a /\ q.seen = calls[r].seen /\ q.client = calls[r].client
    BY <1>3 DEF Call
  <2>2. calls' = [calls EXCEPT ![r] = q]
    BY <1>4
  <2> HIDE DEF q
  <2>3. Progress(q, holds) /\ Audited(q, denials[r], r \in auditFailed)
    BY <1>1, <1>3, <1>4, <2>1 DEF Progress, Audited
  <2> QED
    BY <1>1, <1>3, <2>1, <2>2, <2>3, CallStep
<1>5. CASE calls' = [calls EXCEPT ![r].pc = "deny", ![r].answer = "PERMISSION_DENIED"]
  BY <1>4, <1>5
<1>6. CASE Answer(r, "AUTHORIZATION_UNAVAILABLE")
  <2>1. calls' = [calls EXCEPT ![r] = [calls[r] EXCEPT !.pc = "answered", !.answer = "AUTHORIZATION_UNAVAILABLE"]]
    BY <1>6, CallFields
  <2> QED
    BY <1>4, <2>1
<1>7. CASE "granted" \in holds /\ Goto(r, "handler")
  <2> DEFINE q == [calls[r] EXCEPT !.pc = "handler"]
  <2>2. /\ q \in Call /\ q.pc = "handler" /\ q.answer = calls[r].answer /\ q.seen = calls[r].seen
        /\ q.client = calls[r].client /\ q.route = calls[r].route
    BY <1>3 DEF Call
  <2>3. calls' = [calls EXCEPT ![r] = q]
    BY <1>7, CallFields
  <2> HIDE DEF q
  <2>4. Progress(q, holds) /\ Audited(q, denials[r], r \in auditFailed)
    BY <1>1, <1>3, <1>7, <2>2 DEF Progress, Audited, Required, Rights
  <2> QED
    BY <1>1, <1>3, <2>2, <2>3, <2>4, CallStep
<1> QED
  BY <1>2, <1>5, <1>6, <1>7

LEMMA EndStep ==
  ASSUME GatewayInv, NEW r \in Requests, RecordDenied(r) \/ Handle(r) \/ Disconnect(r)
  PROVE  GatewayInv'
<1>1. UNCHANGED <<usage, holds, policyUsable, windows, changes>>
  BY DEF RecordDenied, Handle, Disconnect
<1>2. /\ calls[r] \in Call /\ Progress(calls[r], holds)
      /\ Audited(calls[r], denials[r], r \in auditFailed)
      /\ denials \in [Requests -> Nat] /\ auditFailed \subseteq Requests
  BY CallFields
<1>3. CASE RecordDenied(r)
  <2> DEFINE q == [calls[r] EXCEPT !.pc = "answered"]
  <2>1. /\ q \in Call /\ q.pc = "answered" /\ q.answer = calls[r].answer /\ q.seen = calls[r].seen
        /\ q.client = calls[r].client /\ q.route = calls[r].route
    BY <1>2 DEF Call
  <2>2. calls' = [calls EXCEPT ![r] = q] /\ calls[r].pc = "deny"
    BY <1>3, CallFields DEF RecordDenied
  <2> HIDE DEF q
  <2>3. calls[r].answer = "PERMISSION_DENIED" /\ denials[r] = 0 /\ r \notin auditFailed
    BY <1>2, <2>2 DEF Audited
  <2>4. \/ denials' = [denials EXCEPT ![r] = denials[r] + 1] /\ auditFailed' = auditFailed
        \/ denials' = denials /\ auditFailed' = auditFailed \cup {r}
    BY <1>3 DEF RecordDenied
  <2>5. /\ denials' \in [Requests -> Nat] /\ auditFailed' \subseteq Requests
        /\ \A o \in Requests \ {r} : denials'[o] = denials[o] /\ (o \in auditFailed' <=> o \in auditFailed)
        /\ denials'[r] = IF r \in auditFailed' THEN 0 ELSE 1
    BY <1>2, <2>3, <2>4
  <2>6. Progress(q, holds) /\ Audited(q, denials'[r], r \in auditFailed')
    BY <1>2, <2>1, <2>2, <2>3, <2>5 DEF Progress, Audited
  <2> QED
    BY <1>1, <2>1, <2>2, <2>5, <2>6, CallStep
<1>4. CASE Handle(r)
  <2> DEFINE q == [calls[r] EXCEPT !.pc = "answered", !.answer = "handled"]
  <2>1. /\ q \in Call /\ q.pc = "answered" /\ q.answer = "handled" /\ q.seen = calls[r].seen
        /\ q.client = calls[r].client /\ q.route = calls[r].route
    BY <1>2 DEF Call
  <2>2. /\ calls' = [calls EXCEPT ![r] = q] /\ calls[r].pc = "handler"
        /\ UNCHANGED <<denials, auditFailed>>
    BY <1>4, CallFields DEF Handle
  <2> HIDE DEF q
  <2>3. Progress(q, holds) /\ Audited(q, denials[r], r \in auditFailed)
    BY <1>2, <2>1, <2>2 DEF Progress, Audited
  <2> QED
    BY <1>1, <1>2, <2>1, <2>2, <2>3, CallStep
<1>5. CASE Disconnect(r)
  <2> DEFINE q == [calls[r] EXCEPT !.pc = "dropped"]
  <2>1. /\ q \in Call /\ q.pc = "dropped" /\ q.answer = calls[r].answer /\ q.seen = calls[r].seen
        /\ q.client = calls[r].client /\ q.route = calls[r].route
    BY <1>2 DEF Call
  <2>2. calls' = [calls EXCEPT ![r] = q] /\ calls[r].pc # "idle" /\ auditFailed' = auditFailed
    BY <1>5, CallFields DEF Disconnect
  <2> HIDE DEF q
  <2>3. denials' = denials \/ denials' = [denials EXCEPT ![r] = denials[r] + 1]
    BY <1>5 DEF Disconnect
  <2>4. denials' \in [Requests -> Nat] /\ \A o \in Requests \ {r} : denials'[o] = denials[o]
    BY <1>2, <2>3
  <2>5. Progress(q, holds) /\ Audited(q, denials'[r], r \in auditFailed')
    BY <1>2, <2>1, <2>2 DEF Progress, Audited
  <2> QED
    BY <1>1, <1>2, <2>1, <2>2, <2>4, <2>5, CallStep
<1> QED
  BY <1>3, <1>4, <1>5

\* The counter of a client and the set of its requests grow together.
LEMMA CountStep ==
  ASSUME GatewayInv, NEW r \in Requests, NEW p \in Policies, NEW passed \in BOOLEAN, NEW q \in Call,
         calls[r].pc = p, calls' = [calls EXCEPT ![r] = q],
         usage' = [usage EXCEPT ![p][calls[r].client] = usage[p][calls[r].client] + 1],
         NEW new \in Window, windows' = [windows EXCEPT ![p][calls[r].client] = new],
         new.counted = windows[p][calls[r].client].counted \cup {r},
         new.passed = IF passed THEN windows[p][calls[r].client].passed \cup {r}
                      ELSE windows[p][calls[r].client].passed,
         passed => usage[p][calls[r].client] < Limit(p),
         UNCHANGED <<holds, policyUsable, denials, auditFailed, changes>>,
         Progress(q, holds), Audited(q, denials[r], r \in auditFailed),
         q.pc \notin {"idle", "global"}, q.pc = "captcha" => p = "global"
  PROVE  GatewayInv'
<1>1. PICK c \in Clients : c = calls[r].client
  BY DEF GatewayInv, Progress, Policies
<1>2. calls' \in [Requests -> Call] /\ calls'[r] = q /\ \A o \in Requests \ {r} : calls'[o] = calls[o]
  BY DEF GatewayInv, GatewayTypeOK
<1> DEFINE old == windows[p][c]
<1>3. old \in Window
  BY DEF GatewayInv, GatewayTypeOK
<1>4. new.counted = old.counted \cup {r} /\ new.passed = IF passed THEN old.passed \cup {r} ELSE old.passed
  BY <1>1
<1>5. windows' = [windows EXCEPT ![p][c] = new]
  BY <1>1
<1>6. r \notin old.counted
  BY <1>1 DEF GatewayInv, NotYetCounted, Policies
<1>7. /\ IsFiniteSet(old.counted) /\ Cardinality(old.counted) = usage[p][c]
      /\ old.passed \subseteq old.counted /\ Cardinality(old.passed) <= Limit(p)
  BY <1>1 DEF GatewayInv, Counted
<1>8. /\ IsFiniteSet(new.counted) /\ Cardinality(new.counted) = usage[p][c] + 1
      /\ new.passed \subseteq new.counted /\ Cardinality(new.passed) <= Limit(p)
  <2>1. IsFiniteSet(new.counted) /\ Cardinality(new.counted) = usage[p][c] + 1
    <3>1. /\ IsFiniteSet(old.counted \cup {r})
          /\ Cardinality(old.counted \cup {r}) = Cardinality(old.counted) + 1
      BY <1>6, <1>7, FS_AddElement
    <3> QED
      BY <1>4, <1>7, <3>1
  <2>2. new.passed \subseteq new.counted
    BY <1>4, <1>7
  <2>3. CASE passed
    <3>1. Cardinality(new.passed) <= Cardinality(new.counted)
      BY <2>1, <2>2, FS_Subset
    <3>2. /\ usage[p][c] \in Nat /\ Limit(p) \in Nat /\ usage[p][c] < Limit(p)
          /\ Cardinality(new.passed) \in Nat
      <4>1. IsFiniteSet(new.passed)
        BY <2>1, <2>2, FS_Subset
      <4> QED
        BY <1>1, <2>3, <4>1, FS_CardinalityType, GatewayAssumption DEF GatewayInv, GatewayTypeOK, Limit
    <3>3. Cardinality(new.passed) <= Limit(p)
      BY <2>1, <3>1, <3>2
    <3> QED
      BY <2>1, <2>2, <3>3
  <2>4. CASE ~passed
    BY <1>4, <1>7, <2>1, <2>2, <2>4
  <2> QED
    BY <2>3, <2>4
<1>9. /\ windows' \in [Policies -> [Clients -> Window]] /\ windows'[p][c] = new
      /\ \A p2 \in Policies, c2 \in Clients : p2 # p \/ c2 # c => windows'[p2][c2] = windows[p2][c2]
  <2>1. windows \in [Policies -> [Clients -> Window]]
    BY DEF GatewayInv, GatewayTypeOK
  <2> DEFINE row == [windows[p] EXCEPT ![c] = new]
  <2>2. windows' = [windows EXCEPT ![p] = row]
    BY <1>5
  <2>3. row \in [Clients -> Window] /\ row[c] = new /\ \A c2 \in Clients \ {c} : row[c2] = windows[p][c2]
    BY <2>1
  <2> HIDE DEF row
  <2> QED
    BY <2>1, <2>2, <2>3
<1>10. /\ usage' \in [Policies -> [Clients -> Nat]] /\ usage'[p][c] = usage[p][c] + 1
       /\ \A p2 \in Policies, c2 \in Clients : p2 # p \/ c2 # c => usage'[p2][c2] = usage[p2][c2]
  BY <1>1 DEF GatewayInv, GatewayTypeOK
<1>11. GatewayTypeOK'
  BY <1>2, <1>9, <1>10 DEF GatewayInv, GatewayTypeOK
<1>12. \A o \in Requests : Progress(calls'[o], holds)
  BY <1>2 DEF GatewayInv
<1>13. \A o \in Requests : Audited(calls'[o], denials[o], o \in auditFailed)
  BY <1>2 DEF GatewayInv
<1>14. \A p2 \in Policies, c2 \in Clients : Counted(p2, c2)'
  <2> TAKE p2 \in Policies, c2 \in Clients
  <2>1. CASE p2 = p /\ c2 = c
    BY <1>8, <1>9, <1>10, <2>1 DEF Counted, Limit
  <2>2. CASE p2 # p \/ c2 # c
    <3>1. Counted(p2, c2)
      BY DEF GatewayInv
    <3> QED
      BY <1>9, <1>10, <2>2, <3>1 DEF Counted, Limit
  <2> QED
    BY <2>1, <2>2
<1>15. \A o \in Requests : NotYetCounted(o)'
  <2> SUFFICES ASSUME NEW o \in Requests, NEW p2 \in Policies, NEW c2 \in Clients,
                      calls'[o].pc \in {"idle", "global"} \/ (calls'[o].pc = "captcha" /\ p2 = "captcha")
               PROVE  o \notin windows'[p2][c2].counted
    BY DEF NotYetCounted
  <2>1. o \notin windows[p2][c2].counted
    BY <1>2 DEF GatewayInv, NotYetCounted, Policies
  <2>2. CASE p2 = p /\ c2 = c
    <3>1. o # r
      BY <1>2, <2>2
    <3> QED
      BY <1>4, <1>9, <2>1, <2>2, <3>1
  <2>3. CASE p2 # p \/ c2 # c
    BY <1>9, <2>1, <2>3
  <2> QED
    BY <2>2, <2>3
<1> QED
  BY <1>11, <1>12, <1>13, <1>14, <1>15 DEF GatewayInv

LEMMA CountRequestStep ==
  ASSUME GatewayInv, NEW r \in Requests, CountRequest(r) \/ CountFails(r)
  PROVE  GatewayInv'
<1>1. PICK p \in Policies : p = calls[r].pc
  BY DEF CountRequest, CountFails
<1>2. UNCHANGED <<holds, policyUsable, denials, auditFailed, changes>>
  BY DEF CountRequest, CountFails
<1>3. /\ calls[r] \in Call /\ Progress(calls[r], holds)
      /\ Audited(calls[r], denials[r], r \in auditFailed)
      /\ denials \in [Requests -> Nat] /\ auditFailed \subseteq Requests
  BY CallFields
<1>4. PICK c \in Clients : c = calls[r].client
  BY <1>1, <1>3 DEF Progress, Policies
<1>5. PICK old \in Window : old = windows[p][c]
  BY DEF GatewayInv, GatewayTypeOK
<1> DEFINE on == [calls[r] EXCEPT !.pc = Passed(r)]
           refused == [calls[r] EXCEPT !.pc = "answered", !.answer = "RATE_LIMITED"]
<1>6. /\ on \in Call /\ Progress(on, holds) /\ Audited(on, denials[r], r \in auditFailed)
      /\ on.pc \notin {"idle", "global"} /\ (on.pc = "captcha" => p = "global")
  <2>1. Passed(r) \in {"captcha", "handler", "session"}
    BY DEF Passed
  <2>2. /\ on \in Call /\ on.pc = Passed(r) /\ on.answer = calls[r].answer /\ on.seen = calls[r].seen
        /\ on.client = calls[r].client /\ on.route = calls[r].route
    BY <1>3, <2>1 DEF Call
  <2>3. calls[r].answer = "none" /\ calls[r].route \in Routes
    BY <1>1, <1>3 DEF Audited, Policies, Call
  <2>4. /\ Passed(r) = "captcha" => p = "global" /\ calls[r].route = "captcha"
        /\ Passed(r) = "session" => calls[r].route \in {"self", "managed"}
        /\ Passed(r) = "handler" => Required(calls[r].route) = {}
    BY <1>1, <2>3 DEF Passed, Required, Routes
  <2> HIDE DEF on
  <2>5. Progress(on, holds)
    BY <1>1, <1>3, <2>1, <2>2, <2>3, <2>4 DEF Progress, Policies
  <2>6. Audited(on, denials[r], r \in auditFailed)
    BY <1>1, <1>3, <2>1, <2>2, <2>3 DEF Audited, Policies
  <2> QED
    BY <2>1, <2>2, <2>4, <2>5, <2>6
<1>7. /\ refused \in Call /\ Progress(refused, holds) /\ Audited(refused, denials[r], r \in auditFailed)
      /\ refused.pc = "answered"
  <2>1. /\ refused \in Call /\ refused.pc = "answered" /\ refused.answer = "RATE_LIMITED"
        /\ refused.seen = calls[r].seen /\ refused.client = calls[r].client /\ refused.route = calls[r].route
    BY <1>3 DEF Call
  <2> HIDE DEF refused
  <2> QED
    BY <1>1, <1>3, <2>1 DEF Progress, Audited, Policies
<1>8. /\ Goto(r, Passed(r)) => calls' = [calls EXCEPT ![r] = on]
      /\ Answer(r, "RATE_LIMITED") => calls' = [calls EXCEPT ![r] = refused]
  BY CallFields
<1> HIDE DEF on, refused
<1>9. ASSUME NEW passed \in BOOLEAN, passed => usage[p][c] < Limit(p),
             IF passed THEN calls' = [calls EXCEPT ![r] = on]
             ELSE calls' = [calls EXCEPT ![r] = refused] \/ calls' = [calls EXCEPT ![r] = on],
             usage' = [usage EXCEPT ![p][c] = usage[p][c] + 1],
             NEW new \in Window, windows' = [windows EXCEPT ![p][c] = new],
             new.counted = old.counted \cup {r},
             new.passed = IF passed THEN old.passed \cup {r} ELSE old.passed
      PROVE  GatewayInv'
  <2>1. PICK q \in {on, refused} : calls' = [calls EXCEPT ![r] = q]
    BY <1>9
  <2>2. /\ q \in Call /\ Progress(q, holds) /\ Audited(q, denials[r], r \in auditFailed)
        /\ q.pc \notin {"idle", "global"} /\ (q.pc = "captcha" => p = "global")
    BY <1>6, <1>7
  <2> QED
    BY <1>1, <1>2, <1>4, <1>5, <1>9, <2>1, <2>2, CountStep
<1>10. CASE CountRequest(r)
  <2> DEFINE passed == usage[p][c] < Limit(p)
             new == [old EXCEPT !.counted = old.counted \cup {r},
                                !.passed = IF passed THEN old.passed \cup {r} ELSE old.passed]
  <2>1. /\ usage' = [usage EXCEPT ![p][c] = usage[p][c] + 1]
        /\ windows' = [windows EXCEPT ![p][c] = new]
        /\ IF passed THEN Goto(r, Passed(r)) ELSE Answer(r, "RATE_LIMITED")
    BY <1>1, <1>4, <1>5, <1>10 DEF CountRequest, Counter
  <2>2. /\ passed \in BOOLEAN /\ new \in Window /\ new.counted = old.counted \cup {r}
        /\ new.passed = IF passed THEN old.passed \cup {r} ELSE old.passed
    <3> DEFINE seen == IF passed THEN old.passed \cup {r} ELSE old.passed
    <3>1. old.counted \cup {r} \subseteq Requests /\ seen \subseteq Requests
      BY DEF Window
    <3>2. new = [old EXCEPT !.counted = old.counted \cup {r}, !.passed = seen]
      OBVIOUS
    <3>3. passed \in BOOLEAN
      OBVIOUS
    <3> HIDE DEF new, seen, passed
    <3>4. new \in Window /\ new.counted = old.counted \cup {r} /\ new.passed = seen
      BY <3>1, <3>2 DEF Window
    <3> QED
      BY <3>3, <3>4 DEF seen
  <2>3. passed => usage[p][c] < Limit(p)
    OBVIOUS
  <2> HIDE DEF passed, new
  <2> QED
    BY <1>8, <1>9, <2>1, <2>2, <2>3
<1>11. CASE CountFails(r)
  <2>1. calls' = [calls EXCEPT ![r] = on]
    BY <1>8, <1>11 DEF CountFails
  <2>2. CASE usage' = usage /\ windows' = windows
    BY <1>1, <1>2, <1>3, <1>6, <2>1, <2>2, CallStep
  <2>3. CASE ~(usage' = usage /\ windows' = windows)
    <3> DEFINE new == [old EXCEPT !.counted = old.counted \cup {r}]
    <3>1. /\ usage' = [usage EXCEPT ![p][c] = usage[p][c] + 1]
          /\ windows' = [windows EXCEPT ![p][c] = new]
      BY <1>1, <1>4, <1>5, <1>11, <2>3 DEF CountFails, Counter
    <3>2. new \in Window /\ new.counted = old.counted \cup {r} /\ new.passed = old.passed
      BY DEF Window
    <3> HIDE DEF new
    <3> QED
      BY <1>9, <2>1, <3>1, <3>2
  <2> QED
    BY <2>2, <2>3
<1> QED
  BY <1>10, <1>11

LEMMA CloseWindowStep ==
  ASSUME GatewayInv, NEW p \in Policies, NEW c \in Clients, CloseWindow(p, c)
  PROVE  GatewayInv'
<1> DEFINE new == [counted |-> {}, passed |-> {}]
<1>1. /\ usage' = [usage EXCEPT ![p][c] = 0] /\ windows' = [windows EXCEPT ![p][c] = new]
      /\ UNCHANGED <<holds, policyUsable, calls, denials, auditFailed, changes>>
  BY DEF CloseWindow
<1>2. new \in Window /\ new.counted = {} /\ new.passed = {}
  BY DEF Window
<1> HIDE DEF new
<1>3. /\ windows' \in [Policies -> [Clients -> Window]] /\ windows'[p][c] = new
      /\ usage' \in [Policies -> [Clients -> Nat]] /\ usage'[p][c] = 0
      /\ \A p2 \in Policies, c2 \in Clients : p2 # p \/ c2 # c =>
             windows'[p2][c2] = windows[p2][c2] /\ usage'[p2][c2] = usage[p2][c2]
  BY <1>1, <1>2 DEF GatewayInv, GatewayTypeOK
<1>4. GatewayTypeOK'
  BY <1>1, <1>3 DEF GatewayInv, GatewayTypeOK
<1>5. \A p2 \in Policies, c2 \in Clients : Counted(p2, c2)'
  <2> TAKE p2 \in Policies, c2 \in Clients
  <2>1. CASE p2 = p /\ c2 = c
    <3>1. IsFiniteSet(new.counted) /\ Cardinality(new.counted) = 0 /\ Cardinality(new.passed) = 0
      BY <1>2, FS_EmptySet
    <3>2. 0 <= Limit(p)
      BY GatewayAssumption DEF Limit
    <3> HIDE DEF new
    <3>3. windows'[p2][c2] = new /\ usage'[p2][c2] = 0 /\ new.passed \subseteq new.counted
      BY <1>2, <1>3, <2>1
    <3> QED
      BY <2>1, <3>1, <3>2, <3>3 DEF Counted, Limit
  <2>2. CASE p2 # p \/ c2 # c
    <3>1. Counted(p2, c2)
      BY DEF GatewayInv
    <3> QED
      BY <1>3, <2>2, <3>1 DEF Counted, Limit
  <2> QED
    BY <2>1, <2>2
<1>6. \A o \in Requests : NotYetCounted(o)'
  <2> SUFFICES ASSUME NEW o \in Requests, NEW p2 \in Policies, NEW c2 \in Clients,
                      calls[o].pc \in {"idle", "global"} \/ (calls[o].pc = "captcha" /\ p2 = "captcha")
               PROVE  o \notin windows'[p2][c2].counted
    BY <1>1 DEF NotYetCounted
  <2>1. o \notin windows[p2][c2].counted
    BY DEF GatewayInv, NotYetCounted
  <2> QED
    BY <1>2, <1>3, <2>1
<1> QED
  BY <1>1, <1>4, <1>5, <1>6 DEF GatewayInv

\* What holds from now on has been seen by every request under way.
LEMMA ChangeRightsStep ==
  ASSUME GatewayInv, ChangeRights
  PROVE  GatewayInv'
<1>1. /\ calls' = [r \in Requests |-> [calls[r] EXCEPT !.seen = calls[r].seen \cup holds']]
      /\ UNCHANGED <<usage, denials, auditFailed, windows>>
      /\ holds' \subseteq Rights /\ policyUsable' \in BOOLEAN
  <2>1. \/ holds' = holds /\ policyUsable' = ~policyUsable
        \/ policyUsable' = policyUsable /\ \E w \in Rights : holds' = holds \cup {w} \/ holds' = holds \ {w}
    BY DEF ChangeRights
  <2>2. holds' \subseteq Rights
    BY <2>1 DEF GatewayInv, GatewayTypeOK
  <2>3. policyUsable' \in BOOLEAN
    BY <2>1 DEF GatewayInv, GatewayTypeOK
  <2> QED
    BY <2>2, <2>3 DEF ChangeRights
<1>2. ASSUME NEW r \in Requests
      PROVE  /\ calls'[r] \in Call /\ Progress(calls'[r], holds') /\ calls'[r].pc = calls[r].pc
             /\ Audited(calls'[r], denials[r], r \in auditFailed)
  <2> DEFINE q == [calls[r] EXCEPT !.seen = calls[r].seen \cup holds']
  <2>1. /\ calls[r] \in Call /\ Progress(calls[r], holds)
        /\ Audited(calls[r], denials[r], r \in auditFailed)
    BY CallFields
  <2>2. /\ q \in Call /\ q.pc = calls[r].pc /\ q.answer = calls[r].answer /\ q.client = calls[r].client
        /\ q.route = calls[r].route /\ q.seen = calls[r].seen \cup holds'
    BY <1>1, <2>1 DEF Call
  <2>3. calls'[r] = q
    BY <1>1
  <2> HIDE DEF q
  <2>4. Progress(q, holds')
    BY <2>1, <2>2 DEF Progress
  <2>5. Audited(q, denials[r], r \in auditFailed)
    BY <2>1, <2>2 DEF Audited
  <2> QED
    BY <2>2, <2>3, <2>4, <2>5
<1>3. GatewayTypeOK'
  BY <1>1, <1>2 DEF GatewayInv, GatewayTypeOK
<1>4. \A p \in Policies, c \in Clients : Counted(p, c)'
  BY <1>1 DEF GatewayInv, Counted
<1>5. \A r \in Requests : NotYetCounted(r)'
  BY <1>1, <1>2 DEF GatewayInv, NotYetCounted
<1> QED
  BY <1>1, <1>2, <1>3, <1>4, <1>5 DEF GatewayInv

-----------------------------------------------------------------------------
(* Gateway: the theorems.                                                  *)

LEMMA GatewayInitInv == GatewayInit => GatewayInv
<1> SUFFICES ASSUME GatewayInit
             PROVE  GatewayInv
  OBVIOUS
<1>1. /\ usage = [p \in Policies |-> [c \in Clients |-> 0]]
      /\ holds \subseteq Rights /\ policyUsable = TRUE
      /\ calls = [r \in Requests |-> NoCall]
      /\ denials = [r \in Requests |-> 0] /\ auditFailed = {}
      /\ windows = [p \in Policies |-> [c \in Clients |-> [counted |-> {}, passed |-> {}]]]
  BY DEF GatewayInit, Rights
<1>2. /\ NoCall.pc = "idle" /\ NoCall.route = "public" /\ NoCall.bearer = FALSE
      /\ NoCall.answer = "none" /\ NoCall.seen = {}
  BY DEF NoCall
<1>3. NoCall \in Call
  <2> DEFINE c == CHOOSE c \in Clients : TRUE
  <2>1. NoCall = [pc |-> "idle", client |-> c, route |-> "public", bearer |-> FALSE, answer |-> "none",
                  seen |-> {}]
    BY DEF NoCall
  <2> HIDE DEF c
  <2>2. NoCall.client = c
    BY <2>1
  <2> QED
    BY <2>1, <2>2 DEF Call, Routes
<1>4. GatewayTypeOK
  BY <1>1, <1>3 DEF GatewayTypeOK, Window
<1>5. ASSUME NEW r \in Requests
      PROVE  Progress(calls[r], holds) /\ Audited(calls[r], denials[r], r \in auditFailed)
  BY <1>1, <1>2 DEF Progress, Audited
<1>6. \A p \in Policies, c \in Clients : Counted(p, c)
  <2> TAKE p \in Policies, c \in Clients
  <2>1. windows[p][c].counted = {} /\ windows[p][c].passed = {} /\ usage[p][c] = 0
    BY <1>1
  <2> QED
    BY <2>1, FS_EmptySet, GatewayAssumption DEF Counted, Limit
<1>7. \A r \in Requests : NotYetCounted(r)
  BY <1>1 DEF NotYetCounted
<1> QED
  BY <1>4, <1>5, <1>6, <1>7 DEF GatewayInv

LEMMA GatewayStutter ==
  ASSUME GatewayInv, UNCHANGED gatewayVars
  PROVE  GatewayInv'
<1>1. GatewayTypeOK'
  BY DEF gatewayVars, GatewayInv, GatewayTypeOK
<1>2. \A r \in Requests : NotYetCounted(r)'
  BY DEF gatewayVars, GatewayInv, NotYetCounted
<1>3. \A p \in Policies, c \in Clients : Counted(p, c)'
  BY DEF gatewayVars, GatewayInv, Counted
<1> QED
  BY <1>1, <1>2, <1>3 DEF gatewayVars, GatewayInv

LEMMA GatewayNextInv == GatewayInv /\ [GatewayNext]_gatewayVars => GatewayInv'
<1> SUFFICES ASSUME GatewayInv, [GatewayNext]_gatewayVars
             PROVE  GatewayInv'
  OBVIOUS
<1> QED
  BY ArriveStep, CountRequestStep, RequireSessionStep, RequireActiveStep, RequirePermissionStep, EndStep,
     CloseWindowStep, ChangeRightsStep, GatewayStutter DEF GatewayNext

\* What the layers have checked and counted for every request, in every reachable state, for
\* any number of requests, clients and changes of rights (apply_global, require_auth,
\* require_declared_permission).
THEOREM GatewayInvariance == GatewaySpec => []GatewayInv
BY GatewayInitInv, GatewayNextInv, PTL DEF GatewaySpec

\* A handler runs only for a user whose session, account and permission each held at some
\* moment since the request arrived.
THEOREM HandlersChecked == GatewaySpec => []HandlersHaveRights
<1>1. GatewayInv => HandlersHaveRights
  BY DEF GatewayInv, Progress, HandlersHaveRights
<1> QED
  BY <1>1, GatewayInvariance, PTL

\* Every denial of the permission layer leaves one event unless writing it failed, and no
\* other answer leaves one (record_access_denied).
THEOREM DenialsLeaveEvents == GatewaySpec => []DenialsAudited
<1>1. GatewayInv => DenialsAudited
  BY DEF GatewayInv, Audited, DenialsAudited
<1> QED
  BY <1>1, GatewayInvariance, PTL

\* A request is refused by a layer only when its counter has reached the limit.
LEMMA RefusedAtLimit ==
  ASSUME GatewayInv, [GatewayNext]_gatewayVars, NEW r \in Requests,
         calls[r].answer = "none", calls'[r].answer = "RATE_LIMITED"
  PROVE  Cardinality(windows[calls[r].pc][calls[r].client].counted) >= Limit(calls[r].pc)
<1>1. calls \in [Requests -> Call] /\ calls'[r].answer # calls[r].answer
  BY DEF GatewayInv, GatewayTypeOK
<1>2. ASSUME NEW o \in Requests, NEW pc, NEW a, a # "RATE_LIMITED",
             calls' = [calls EXCEPT ![o].pc = pc] \/ calls' = [calls EXCEPT ![o].pc = pc, ![o].answer = a]
      PROVE  FALSE
  <2>1. CASE calls' = [calls EXCEPT ![o].pc = pc]
    BY <1>1, <2>1 DEF Call
  <2>2. CASE calls' = [calls EXCEPT ![o].pc = pc, ![o].answer = a]
    BY <1>1, <1>2, <2>2 DEF Call
  <2> QED
    BY <1>2, <2>1, <2>2
<1>3. \A o \in Requests :
          /\ \A pc : ~Goto(o, pc)
          /\ \A a : Answer(o, a) => a = "RATE_LIMITED"
          /\ ~Arrive(o)
  <2> TAKE o \in Requests
  <2>1. \A pc : ~Goto(o, pc)
    BY <1>2 DEF Goto
  <2>2. \A a : Answer(o, a) => a = "RATE_LIMITED"
    BY <1>2 DEF Answer
  <2>3. ~Arrive(o)
    BY <1>1 DEF Arrive, Call
  <2> QED
    BY <2>1, <2>2, <2>3
<1>4. ~\E o \in Requests : CountFails(o) \/ RecordDenied(o) \/ Disconnect(o)
  BY <1>3 DEF CountFails, RecordDenied, Disconnect
<1>5. ~\E o \in Requests : RequireSession(o) \/ SessionStoreFails(o) \/ Handle(o)
  <2> SUFFICES ASSUME NEW o \in Requests, RequireSession(o) \/ SessionStoreFails(o) \/ Handle(o)
               PROVE  FALSE
    OBVIOUS
  <2>1. \/ Goto(o, "status")
        \/ \E a \in {"LOGIN_REQUIRED", "SESSION_INVALID", "AUTHORIZATION_UNAVAILABLE", "handled"} : Answer(o, a)
    BY DEF RequireSession, SessionStoreFails, Handle
  <2> QED
    BY <1>3, <2>1
<1>6. ~\E o \in Requests : RequireActive(o)
  BY <1>3 DEF RequireActive
<1>7. ~\E o \in Requests : RequirePermission(o)
  <2> SUFFICES ASSUME NEW o \in Requests, RequirePermission(o)
               PROVE  FALSE
    OBVIOUS
  <2>1. CASE Denied
    <3>1. calls' = [calls EXCEPT ![o].pc = "deny", ![o].answer = "PERMISSION_DENIED"]
      BY <2>1 DEF RequirePermission, Denied
    <3> QED
      BY <1>2, <3>1
  <2>2. CASE ~Denied
    <3>1. Goto(o, "handler") \/ Answer(o, "AUTHORIZATION_UNAVAILABLE")
      BY <2>2 DEF RequirePermission
    <3> QED
      BY <1>3, <3>1
  <2> QED
    BY <2>1, <2>2
<1>8. ~ChangeRights
  BY <1>1 DEF ChangeRights, Call
<1>9. ~\E p \in Policies, c \in Clients : CloseWindow(p, c)
  BY <1>1 DEF CloseWindow
<1>10. PICK o \in Requests : CountRequest(o)
  <2>1. ~UNCHANGED gatewayVars
    BY <1>1 DEF gatewayVars
  <2>2. GatewayNext
    BY <2>1
  <2>3. PICK o \in Requests :
          \/ Arrive(o) \/ CountRequest(o) \/ CountFails(o) \/ RequireSession(o) \/ SessionStoreFails(o)
          \/ RequireActive(o) \/ RequirePermission(o) \/ RecordDenied(o) \/ Handle(o) \/ Disconnect(o)
    BY <1>8, <1>9, <2>2 DEF GatewayNext
  <2>4. CountRequest(o)
    BY <1>3, <1>4, <1>5, <1>6, <1>7, <2>3
  <2> QED
    BY <2>4
<1>11. /\ o = r /\ calls[r].pc \in Policies
       /\ ~(usage[calls[r].pc][calls[r].client] < Limit(calls[r].pc))
  <2>1. Answer(o, "RATE_LIMITED") /\ ~(usage[calls[o].pc][calls[o].client] < Limit(calls[o].pc))
    BY <1>3, <1>10 DEF CountRequest, Counter
  <2>2. o = r
    BY <1>1, <2>1 DEF Answer
  <2> QED
    BY <1>10, <2>1, <2>2 DEF CountRequest
<1>12. PICK p \in Policies, c \in Clients : p = calls[r].pc /\ c = calls[r].client
  BY <1>11 DEF GatewayInv, Progress, Policies
<1>13. Cardinality(windows[p][c].counted) = usage[p][c] /\ usage[p][c] \in Nat /\ Limit(p) \in Nat
  BY GatewayAssumption DEF GatewayInv, GatewayTypeOK, Counted, Limit
<1> QED
  BY <1>11, <1>12, <1>13

\* A limit lets through no more than its number of requests in one window, and refuses only
\* after as many were subject to it: the two layers count apart (policy_name in the counter's key).
THEOREM LimitsCountApart == GatewaySpec => LimitsApart
<1>1. GatewayInv => \A p \in Policies, c \in Clients : Cardinality(windows[p][c].passed) <= Limit(p)
  BY DEF GatewayInv, Counted
<1>2. GatewayInv /\ GatewayInv' /\ [GatewayNext]_gatewayVars =>
          [/\ \A p \in Policies, c \in Clients : Cardinality(windows'[p][c].passed) <= Limit(p)
           /\ \A r \in Requests :
                  calls[r].answer = "none" /\ calls'[r].answer = "RATE_LIMITED" =>
                      Cardinality(windows[calls[r].pc][calls[r].client].counted) >= Limit(calls[r].pc)
          ]_gatewayVars
  <2> SUFFICES ASSUME GatewayInv, GatewayInv', [GatewayNext]_gatewayVars
               PROVE  /\ \A p \in Policies, c \in Clients : Cardinality(windows'[p][c].passed) <= Limit(p)
                      /\ \A r \in Requests :
                             calls[r].answer = "none" /\ calls'[r].answer = "RATE_LIMITED" =>
                                 Cardinality(windows[calls[r].pc][calls[r].client].counted)
                                     >= Limit(calls[r].pc)
    OBVIOUS
  <2>1. \A p \in Policies, c \in Clients : Cardinality(windows'[p][c].passed) <= Limit(p)
    BY DEF GatewayInv, Counted, Limit
  <2> QED
    BY <2>1, RefusedAtLimit
<1> QED
  BY <1>2, GatewayInvariance, PTL DEF GatewaySpec, LimitsApart

-----------------------------------------------------------------------------
(* Login: the inductive invariant.                                         *)

Secrets == Passwords \cup {NoAttempt.password}
Outcomes == [result : {"none", "denied", "failed", "succeeded"}, reason : Reasons]

Attempt == [pc : {"idle", "captcha", "account", "info", "session", "record", "answered", "dropped"},
            captcha : Captchas \cup {NoCaptcha}, right : BOOLEAN, password : Secrets,
            outcome : Outcomes, valid : BOOLEAN]

LoginTypeOK ==
    /\ captchas \in [Captchas -> {"unused", "live", "gone"}]
    /\ account \in [status : {"absent", "enabled", "disabled"}, password : Secrets]
    /\ attempts \in [Attempts -> Attempt]
    /\ sessions \subseteq Attempts /\ admitted \subseteq Attempts /\ logFailed \subseteq Attempts
    /\ log \in [Attempts -> [count : Nat, last : Outcomes]]

\* How far an attempt has come: what its captcha and its credentials were worth; keys are
\* the captchas and row the account.
Earned(q, keys, row, isAdmitted, hasSession) ==
    /\ q.pc # "idle" => (Accepts(row, q.password) => q.valid)
    /\ q.pc = "captcha" => q.captcha \in Captchas /\ keys[q.captcha] # "unused"
    /\ q.pc \in {"account", "info", "session"} => isAdmitted
    /\ q.pc \in {"info", "session"} => q.valid
    /\ isAdmitted => q.pc \notin {"idle", "captcha"} /\ q.captcha \in Captchas /\ keys[q.captcha] = "gone"
    /\ hasSession => isAdmitted /\ q.valid

\* What the log holds of it.
AttemptTold(q, hasSession, entry, failed) ==
    /\ q.pc \notin {"answered", "dropped"} => entry.count = 0 /\ ~failed
    /\ q.pc \notin {"record", "answered", "dropped"} => ~hasSession /\ q.outcome = NoOutcome
    /\ q.pc \in {"record", "answered"} /\ hasSession =>
           q.outcome \in {Outcome("succeeded", "none"), Outcome("failed", "token_issue_failed")}
    /\ q.outcome.result = "succeeded" => hasSession
    /\ entry.count <= 1
    /\ q.pc = "answered" /\ ~failed => entry = [count |-> 1, last |-> q.outcome]

LoginInv ==
    /\ LoginTypeOK
    /\ \A a \in Attempts : Earned(attempts[a], captchas, account, a \in admitted, a \in sessions)
    /\ \A a \in Attempts : AttemptTold(attempts[a], a \in sessions, log[a], a \in logFailed)
    /\ CaptchaAdmitsOnce

-----------------------------------------------------------------------------
(* Login: what the common parts of the actions do.                         *)

\* One attempt goes on; an unused captcha stays unused, one that is gone stays gone.
LEMMA AttemptStep ==
  ASSUME LoginInv, NEW a \in Attempts, NEW q \in Attempt, attempts' = [attempts EXCEPT ![a] = q],
         account' = account, captchas' \in [Captchas -> {"unused", "live", "gone"}],
         \A c \in Captchas : /\ captchas[c] # "unused" => captchas'[c] # "unused"
                             /\ captchas[c] = "gone" => captchas'[c] = "gone",
         sessions' \subseteq Attempts, logFailed' \subseteq Attempts, admitted' \subseteq Attempts,
         log' \in [Attempts -> [count : Nat, last : Outcomes]],
         \A b \in Attempts \ {a} : /\ b \in sessions' <=> b \in sessions
                                   /\ b \in admitted' <=> b \in admitted
                                   /\ b \in logFailed' <=> b \in logFailed
                                   /\ log'[b] = log[b],
         attempts[a].pc # "idle" => q.captcha = attempts[a].captcha,
         a \in admitted' /\ a \notin admitted => captchas[q.captcha] = "live",
         Earned(q, captchas', account, a \in admitted', a \in sessions'),
         AttemptTold(q, a \in sessions', log'[a], a \in logFailed')
  PROVE  LoginInv'
<1>1. attempts' \in [Attempts -> Attempt] /\ attempts'[a] = q /\ \A b \in Attempts \ {a} : attempts'[b] = attempts[b]
  BY DEF LoginInv, LoginTypeOK
<1>2. LoginTypeOK'
  BY <1>1 DEF LoginInv, LoginTypeOK
<1>3. \A b \in Attempts : Earned(attempts[b], captchas, account, b \in admitted, b \in sessions)'
  <2> TAKE b \in Attempts
  <2>1. CASE b = a
    BY <1>1, <2>1 DEF Earned
  <2>2. CASE b # a
    BY <1>1, <2>2 DEF LoginInv, Earned
  <2> QED
    BY <2>1, <2>2
<1>4. \A b \in Attempts : AttemptTold(attempts[b], b \in sessions, log[b], b \in logFailed)'
  <2> TAKE b \in Attempts
  <2>1. CASE b = a
    BY <1>1, <2>1 DEF AttemptTold
  <2>2. CASE b # a
    <3>1. AttemptTold(attempts[b], b \in sessions, log[b], b \in logFailed)
      BY DEF LoginInv
    <3>2. /\ attempts'[b] = attempts[b] /\ log'[b] = log[b] /\ (b \in sessions' <=> b \in sessions)
          /\ (b \in logFailed' <=> b \in logFailed)
      BY <1>1, <2>2
    <3> QED
      BY <3>1, <3>2 DEF AttemptTold
  <2> QED
    BY <2>1, <2>2
<1>5. CaptchaAdmitsOnce'
  <2> SUFFICES ASSUME NEW b \in admitted', NEW d \in admitted', b # d, attempts'[b].captcha = attempts'[d].captcha
               PROVE  FALSE
    BY DEF CaptchaAdmitsOnce
  <2>1. \A e \in admitted : captchas[attempts[e].captcha] = "gone" /\ attempts[e].pc # "idle"
    BY DEF LoginInv, LoginTypeOK, Earned
  <2>2. CASE b \in admitted /\ d \in admitted
    <3>1. attempts'[b].captcha = attempts[b].captcha /\ attempts'[d].captcha = attempts[d].captcha
      BY <1>1, <2>1, <2>2
    <3> QED
      BY <2>2, <3>1 DEF LoginInv, CaptchaAdmitsOnce
  <2>3. CASE b \notin admitted
    <3>1. b = a /\ captchas[q.captcha] = "live" /\ d \in admitted /\ attempts'[d] = attempts[d]
      BY <1>1, <2>3
    <3> QED
      BY <1>1, <2>1, <3>1
  <2>4. CASE d \notin admitted
    <3>1. d = a /\ captchas[q.captcha] = "live" /\ b \in admitted /\ attempts'[b] = attempts[b]
      BY <1>1, <2>4
    <3> QED
      BY <1>1, <2>1, <3>1
  <2> QED
    BY <2>2, <2>3, <2>4
<1> QED
  BY <1>2, <1>3, <1>4, <1>5 DEF LoginInv

LEMMA OutcomeFields ==
  /\ \A result \in {"none", "denied", "failed", "succeeded"}, reason \in Reasons : Outcome(result, reason) \in Outcomes
  /\ \A result, reason : Outcome(result, reason).result = result
  /\ NoOutcome \in Outcomes /\ NoOutcome.result = "none"
BY DEF Outcome, Outcomes, NoOutcome, Reasons

\* An attempt in the middle is decided, with a session or without.
LEMMA DecidedStep ==
  ASSUME LoginInv, NEW a \in Attempts, attempts[a].pc \in {"captcha", "account", "info", "session"},
         NEW result \in {"denied", "failed", "succeeded"}, NEW reason \in Reasons, Decide(a, result, reason),
         UNCHANGED <<account, log, admitted, logFailed>>,
         captchas' = captchas \/ (attempts[a].pc = "captcha" /\ captchas' = Spent(attempts[a].captcha)),
         \/ sessions' = sessions /\ result # "succeeded"
         \/ /\ sessions' = sessions \cup {a} /\ attempts[a].pc = "session"
            /\ Outcome(result, reason) \in {Outcome("succeeded", "none"), Outcome("failed", "token_issue_failed")}
  PROVE  LoginInv'
<1>1. PICK old \in Attempt : old = attempts[a]
  BY DEF LoginInv, LoginTypeOK
<1> DEFINE q == [old EXCEPT !.pc = "record", !.outcome = Outcome(result, reason)]
<1>2. attempts' = [attempts EXCEPT ![a] = q]
  BY <1>1 DEF Decide
<1>3. Outcome(result, reason) \in Outcomes /\ Outcome(result, reason).result = result
  BY OutcomeFields
<1>4. /\ q \in Attempt /\ q.pc = "record" /\ q.outcome = Outcome(result, reason) /\ q.captcha = old.captcha
      /\ q.password = old.password /\ q.valid = old.valid
  BY <1>3 DEF Attempt
<1> HIDE DEF q
<1>5. /\ Earned(old, captchas, account, a \in admitted, a \in sessions)
      /\ AttemptTold(old, a \in sessions, log[a], a \in logFailed)
      /\ sessions \subseteq Attempts /\ admitted \subseteq Attempts /\ logFailed \subseteq Attempts
      /\ log \in [Attempts -> [count : Nat, last : Outcomes]]
      /\ captchas \in [Captchas -> {"unused", "live", "gone"}]
  BY <1>1 DEF LoginInv, LoginTypeOK
<1>6. /\ captchas' \in [Captchas -> {"unused", "live", "gone"}]
      /\ \A c \in Captchas : /\ captchas[c] # "unused" => captchas'[c] # "unused"
                             /\ captchas[c] = "gone" => captchas'[c] = "gone"
  BY <1>5 DEF Spent
<1>7. Earned(q, captchas', account, a \in admitted, a \in sessions')
  BY <1>1, <1>4, <1>5, <1>6 DEF Earned
<1>8. AttemptTold(q, a \in sessions', log[a], a \in logFailed)
  BY <1>1, <1>3, <1>4, <1>5 DEF AttemptTold
<1>9. sessions' \subseteq Attempts /\ \A b \in Attempts \ {a} : b \in sessions' <=> b \in sessions
  BY <1>5
<1> QED
  BY <1>1, <1>2, <1>4, <1>5, <1>6, <1>7, <1>8, <1>9, AttemptStep

LEMMA SubmitLoginStep ==
  ASSUME LoginInv, NEW a \in Attempts, SubmitLogin(a)
  PROVE  LoginInv'
<1>1. PICK c \in {x \in Captchas : captchas[x] # "unused"} \cup {NoCaptcha}, right \in BOOLEAN, p \in Passwords :
        attempts' = [attempts EXCEPT ![a] =
            [pc |-> IF c = NoCaptcha THEN "record" ELSE "captcha",
             captcha |-> c, right |-> right, password |-> p,
             outcome |-> IF c = NoCaptcha THEN Outcome("denied", "captcha_required") ELSE NoOutcome,
             valid |-> Accepts(account, p)]]
  BY DEF SubmitLogin
<1> DEFINE blank == c = NoCaptcha
           outcome == IF blank THEN Outcome("denied", "captcha_required") ELSE NoOutcome
           q == [pc |-> IF blank THEN "record" ELSE "captcha",
                 captcha |-> c, right |-> right, password |-> p, outcome |-> outcome,
                 valid |-> Accepts(account, p)]
<1>2. /\ attempts[a].pc = "idle" /\ attempts' = [attempts EXCEPT ![a] = q]
      /\ UNCHANGED <<captchas, account, sessions, log, admitted, logFailed, adminChanges>>
  BY <1>1 DEF SubmitLogin
<1>3. /\ blank => outcome.result = "denied"
      /\ ~blank => outcome = NoOutcome /\ outcome.result = "none"
      /\ outcome \in Outcomes
  BY OutcomeFields DEF Reasons
<1> HIDE DEF outcome
<1>4. /\ q \in Attempt /\ q.pc = (IF blank THEN "record" ELSE "captcha") /\ q.captcha = c /\ q.password = p
      /\ q.outcome = outcome /\ q.valid = Accepts(account, p)
  <2>1. Accepts(account, p) \in BOOLEAN
    BY DEF Accepts
  <2> QED
    BY <1>3, <2>1 DEF Attempt, Secrets
<1> HIDE DEF q
<1>5. /\ Earned(attempts[a], captchas, account, a \in admitted, a \in sessions)
      /\ AttemptTold(attempts[a], a \in sessions, log[a], a \in logFailed) /\ LoginTypeOK
  BY DEF LoginInv
<1>6. Earned(q, captchas, account, a \in admitted, a \in sessions)
  BY <1>2, <1>4, <1>5 DEF Earned
<1>7. AttemptTold(q, a \in sessions, log[a], a \in logFailed)
  BY <1>2, <1>3, <1>4, <1>5 DEF AttemptTold
<1>8. a \notin admitted
  BY <1>2, <1>5 DEF Earned
<1> QED
  BY <1>2, <1>4, <1>5, <1>6, <1>7, <1>8, AttemptStep DEF LoginTypeOK

\* An attempt goes on to the next look: its captcha was live, or its credentials right.
LEMMA AdvanceStep ==
  ASSUME LoginInv, NEW a \in Attempts, NEW next \in {"account", "info", "session"}, Goto2(a, next),
         UNCHANGED <<account, sessions, log, logFailed>>,
         \/ /\ next = "account" /\ attempts[a].pc = "captcha" /\ captchas[attempts[a].captcha] = "live"
            /\ captchas' = Spent(attempts[a].captcha) /\ admitted' = admitted \cup {a}
         \/ /\ next = "info" /\ attempts[a].pc = "account" /\ Accepts(account, attempts[a].password)
            /\ UNCHANGED <<captchas, admitted>>
         \/ next = "session" /\ attempts[a].pc = "info" /\ UNCHANGED <<captchas, admitted>>
  PROVE  LoginInv'
<1>1. PICK old \in Attempt : old = attempts[a]
  BY DEF LoginInv, LoginTypeOK
<1> DEFINE q == [old EXCEPT !.pc = next]
<1>2. attempts' = [attempts EXCEPT ![a] = q]
  BY <1>1 DEF Goto2
<1>3. /\ q \in Attempt /\ q.pc = next /\ q.outcome = old.outcome /\ q.captcha = old.captcha
      /\ q.password = old.password /\ q.valid = old.valid
  BY DEF Attempt
<1> HIDE DEF q
<1>4. /\ Earned(old, captchas, account, a \in admitted, a \in sessions)
      /\ AttemptTold(old, a \in sessions, log[a], a \in logFailed) /\ LoginTypeOK
  BY <1>1 DEF LoginInv
<1>5. /\ captchas' \in [Captchas -> {"unused", "live", "gone"}]
      /\ \A c \in Captchas : /\ captchas[c] # "unused" => captchas'[c] # "unused"
                             /\ captchas[c] = "gone" => captchas'[c] = "gone"
  BY <1>4 DEF LoginTypeOK, Spent
<1>6. CASE next = "account"
  <2>1. /\ old.pc = "captcha" /\ captchas[old.captcha] = "live" /\ old.captcha \in Captchas
        /\ captchas' = Spent(old.captcha) /\ admitted' = admitted \cup {a}
    BY <1>1, <1>4, <1>6 DEF Earned
  <2>2. captchas'[old.captcha] = "gone"
    BY <1>4, <2>1 DEF LoginTypeOK, Spent
  <2>3. Earned(q, captchas', account, a \in admitted', a \in sessions)
    BY <1>3, <1>4, <1>6, <2>1, <2>2 DEF Earned
  <2>4. AttemptTold(q, a \in sessions, log[a], a \in logFailed)
    BY <1>3, <1>4, <1>6, <2>1 DEF AttemptTold
  <2> QED
    BY <1>1, <1>2, <1>3, <1>4, <1>5, <2>1, <2>3, <2>4, AttemptStep DEF LoginTypeOK
<1>7. CASE next \in {"info", "session"}
  <2>1. /\ old.pc \in {"account", "info"} /\ captchas' = captchas /\ admitted' = admitted
        /\ old.valid
    BY <1>1, <1>4, <1>7 DEF Earned
  <2>2. Earned(q, captchas, account, a \in admitted, a \in sessions)
    BY <1>3, <1>4, <1>7, <2>1 DEF Earned
  <2>3. AttemptTold(q, a \in sessions, log[a], a \in logFailed)
    BY <1>3, <1>4, <1>7, <2>1 DEF AttemptTold
  <2> QED
    BY <1>1, <1>2, <1>3, <1>4, <1>5, <2>1, <2>2, <2>3, AttemptStep DEF LoginTypeOK
<1> QED
  BY <1>6, <1>7

-----------------------------------------------------------------------------
(* Login: each step keeps the invariant.                                   *)

LEMMA VerifyCaptchaStep ==
  ASSUME LoginInv, NEW a \in Attempts, VerifyCaptcha(a)
  PROVE  LoginInv'
<1>1. /\ attempts[a].pc = "captcha" /\ captchas' = Spent(attempts[a].captcha)
      /\ UNCHANGED <<account, sessions, log, logFailed>>
  BY DEF VerifyCaptcha
<1>2. CASE captchas[attempts[a].captcha] = "live" /\ attempts[a].right
  <2>1. Goto2(a, "account") /\ admitted' = admitted \cup {a}
    BY <1>2 DEF VerifyCaptcha
  <2> QED
    BY <1>1, <1>2, <2>1, AdvanceStep
<1>3. CASE ~(captchas[attempts[a].captcha] = "live" /\ attempts[a].right)
  <2>1. Decide(a, "denied", "captcha_invalid") /\ admitted' = admitted
    BY <1>3 DEF VerifyCaptcha
  <2> QED
    BY <1>1, <2>1, DecidedStep DEF Reasons
<1> QED
  BY <1>2, <1>3

LEMMA VerifyCaptchaFailsStep ==
  ASSUME LoginInv, NEW a \in Attempts, VerifyCaptchaFails(a)
  PROVE  LoginInv'
BY DecidedStep DEF VerifyCaptchaFails, Reasons

LEMMA CheckAccountStep ==
  ASSUME LoginInv, NEW a \in Attempts, CheckAccount(a)
  PROVE  LoginInv'
<1>1. attempts[a].pc = "account" /\ UNCHANGED <<captchas, account, sessions, log, admitted, logFailed>>
  BY DEF CheckAccount
<1>2. CASE MayLogIn(account, attempts[a].password)
  <2>1. account.status = "enabled" /\ Accepts(account, attempts[a].password)
    BY <1>2 DEF MayLogIn, Accepts
  <2>2. Goto2(a, "info")
    BY <1>2, <2>1 DEF CheckAccount
  <2> QED
    BY <1>1, <2>1, <2>2, AdvanceStep
<1>3. CASE ~MayLogIn(account, attempts[a].password)
  <2>1. \E reason \in {"invalid_credentials", "user_disabled"} : Decide(a, "denied", reason)
    BY <1>3 DEF CheckAccount
  <2> QED
    BY <1>1, <2>1, DecidedStep DEF Reasons
<1> QED
  BY <1>2, <1>3

LEMMA LoadUserStep ==
  ASSUME LoginInv, NEW a \in Attempts, LoadUser(a)
  PROVE  LoginInv'
<1>1. attempts[a].pc = "info" /\ UNCHANGED <<captchas, account, sessions, log, admitted, logFailed>>
  BY DEF LoadUser
<1>2. CASE InfoFound
  <2>1. Goto2(a, "session")
    BY <1>2 DEF LoadUser
  <2> QED
    BY <1>1, <2>1, AdvanceStep
<1>3. CASE ~InfoFound
  <2>1. Decide(a, "failed", "internal_error")
    BY <1>3 DEF LoadUser
  <2> QED
    BY <1>1, <2>1, DecidedStep DEF Reasons
<1> QED
  BY <1>2, <1>3

LEMMA AccountFailsStep ==
  ASSUME LoginInv, NEW a \in Attempts, AccountFails(a)
  PROVE  LoginInv'
BY DecidedStep DEF AccountFails, Reasons

LEMMA CreateLoginSessionStep ==
  ASSUME LoginInv, NEW a \in Attempts, CreateLoginSession(a)
  PROVE  LoginInv'
BY DecidedStep DEF CreateLoginSession, Reasons

LEMMA CreateSessionFailsStep ==
  ASSUME LoginInv, NEW a \in Attempts, CreateSessionFails(a)
  PROVE  LoginInv'
<1>1. /\ attempts[a].pc = "session" /\ Decide(a, "failed", "token_issue_failed")
      /\ UNCHANGED <<captchas, account, log, admitted, logFailed>>
      /\ sessions' = sessions \/ sessions' = sessions \cup {a}
  BY DEF CreateSessionFails
<1> QED
  BY <1>1, DecidedStep DEF Reasons

\* The event of an attempt goes to its own entry, which was empty.
LEMMA LoggedEntry ==
  ASSUME LoginInv, NEW a \in Attempts, attempts[a].pc = "record", Logged(a)
  PROVE  /\ log' \in [Attempts -> [count : Nat, last : Outcomes]]
         /\ log'[a] = [count |-> 1, last |-> attempts[a].outcome]
         /\ \A b \in Attempts \ {a} : log'[b] = log[b]
<1>1. LoginTypeOK /\ log[a].count = 0
  BY DEF LoginInv, AttemptTold
<1>2. attempts[a].outcome \in Outcomes
  BY <1>1 DEF LoginTypeOK, Attempt
<1>3. [count |-> log[a].count + 1, last |-> attempts[a].outcome] = [count |-> 1, last |-> attempts[a].outcome]
  BY <1>1
<1>4. log' = [log EXCEPT ![a] = [count |-> 1, last |-> attempts[a].outcome]]
  BY <1>3 DEF Logged
<1> QED
  BY <1>1, <1>2, <1>4 DEF LoginTypeOK

LEMMA RecordLoginStep ==
  ASSUME LoginInv, NEW a \in Attempts, RecordLogin(a)
  PROVE  LoginInv'
<1>1. PICK old \in Attempt : old = attempts[a]
  BY DEF LoginInv, LoginTypeOK
<1> DEFINE q == [old EXCEPT !.pc = "answered"]
<1>2. /\ attempts' = [attempts EXCEPT ![a] = q] /\ old.pc = "record"
      /\ UNCHANGED <<captchas, account, sessions, admitted>>
  BY <1>1 DEF RecordLogin, Goto2
<1>3. /\ q \in Attempt /\ q.pc = "answered" /\ q.outcome = old.outcome /\ q.captcha = old.captcha
      /\ q.password = old.password /\ q.valid = old.valid
  BY DEF Attempt
<1> HIDE DEF q
<1>4. /\ Earned(old, captchas, account, a \in admitted, a \in sessions)
      /\ AttemptTold(old, a \in sessions, log[a], a \in logFailed) /\ LoginTypeOK
  BY <1>1 DEF LoginInv
<1>5. Earned(q, captchas, account, a \in admitted, a \in sessions)
  BY <1>2, <1>3, <1>4 DEF Earned
<1>6. CASE Logged(a) /\ logFailed' = logFailed
  <2>1. /\ log' \in [Attempts -> [count : Nat, last : Outcomes]]
        /\ log'[a] = [count |-> 1, last |-> old.outcome]
        /\ \A b \in Attempts \ {a} : log'[b] = log[b]
    BY <1>1, <1>2, <1>6, LoggedEntry
  <2>2. AttemptTold(q, a \in sessions, log'[a], a \in logFailed)
    BY <1>2, <1>3, <1>4, <2>1 DEF AttemptTold
  <2> QED
    BY <1>1, <1>2, <1>3, <1>4, <1>5, <1>6, <2>1, <2>2, AttemptStep DEF LoginTypeOK
<1>7. CASE log' = log /\ logFailed' = logFailed \cup {a}
  <2>1. AttemptTold(q, a \in sessions, log[a], a \in logFailed')
    BY <1>2, <1>3, <1>4, <1>7 DEF AttemptTold
  <2> QED
    BY <1>1, <1>2, <1>3, <1>4, <1>5, <1>7, <2>1, AttemptStep DEF LoginTypeOK
<1> QED
  BY <1>6, <1>7 DEF RecordLogin

LEMMA DropLoginStep ==
  ASSUME LoginInv, NEW a \in Attempts, DropLogin(a)
  PROVE  LoginInv'
<1>1. PICK old \in Attempt : old = attempts[a]
  BY DEF LoginInv, LoginTypeOK
<1> DEFINE q == [old EXCEPT !.pc = "dropped"]
<1>2. /\ attempts' = [attempts EXCEPT ![a] = q] /\ old.pc \notin {"idle", "answered", "dropped"}
      /\ UNCHANGED <<account, admitted, logFailed>>
  BY <1>1 DEF DropLogin, Goto2
<1>3. /\ q \in Attempt /\ q.pc = "dropped" /\ q.outcome = old.outcome /\ q.captcha = old.captcha
      /\ q.password = old.password /\ q.valid = old.valid
  BY DEF Attempt
<1> HIDE DEF q
<1>4. /\ Earned(old, captchas, account, a \in admitted, a \in sessions)
      /\ AttemptTold(old, a \in sessions, log[a], a \in logFailed) /\ LoginTypeOK
  BY <1>1 DEF LoginInv
<1>5. captchas' = captchas \/ (old.pc = "captcha" /\ captchas' = Spent(old.captcha))
  BY <1>1 DEF DropLogin
<1>6. /\ captchas' \in [Captchas -> {"unused", "live", "gone"}]
      /\ \A c \in Captchas : /\ captchas[c] # "unused" => captchas'[c] # "unused"
                             /\ captchas[c] = "gone" => captchas'[c] = "gone"
  BY <1>4, <1>5 DEF LoginTypeOK, Spent
<1>7. sessions' = sessions \/ (old.pc = "session" /\ sessions' = sessions \cup {a})
  BY <1>1 DEF DropLogin
<1>8. /\ sessions' \subseteq Attempts /\ \A b \in Attempts \ {a} : b \in sessions' <=> b \in sessions
  BY <1>4, <1>7 DEF LoginTypeOK
<1>9. /\ log' \in [Attempts -> [count : Nat, last : Outcomes]] /\ log'[a].count <= 1
      /\ \A b \in Attempts \ {a} : log'[b] = log[b]
  <2>1. CASE log' = log
    BY <1>2, <1>4, <2>1 DEF LoginTypeOK, AttemptTold
  <2>2. CASE attempts[a].pc = "record" /\ Logged(a)
    <3>1. /\ log' \in [Attempts -> [count : Nat, last : Outcomes]]
          /\ log'[a] = [count |-> 1, last |-> attempts[a].outcome]
          /\ \A b \in Attempts \ {a} : log'[b] = log[b]
      BY <2>2, LoggedEntry
    <3>2. log'[a].count <= 1
      BY <3>1
    <3> QED
      BY <3>1, <3>2
  <2> QED
    BY <2>1, <2>2 DEF DropLogin
<1>10. Earned(q, captchas', account, a \in admitted, a \in sessions')
  BY <1>2, <1>3, <1>4, <1>6, <1>7 DEF Earned
<1>11. AttemptTold(q, a \in sessions', log'[a], a \in logFailed)
  BY <1>2, <1>3, <1>4, <1>7, <1>9 DEF AttemptTold
<1> QED
  BY <1>1, <1>2, <1>3, <1>4, <1>6, <1>8, <1>9, <1>10, <1>11, AttemptStep DEF LoginTypeOK

\* A key of Redis comes or goes on its own.
LEMMA CaptchaKeyStep ==
  ASSUME LoginInv, NEW c \in Captchas, CreateCaptcha(c) \/ ExpireCaptcha(c)
  PROVE  LoginInv'
<1>1. /\ captchas' \in [Captchas -> {"unused", "live", "gone"}]
      /\ \A d \in Captchas : /\ captchas[d] # "unused" => captchas'[d] # "unused"
                             /\ captchas[d] = "gone" => captchas'[d] = "gone"
      /\ UNCHANGED <<account, attempts, sessions, log, admitted, logFailed>>
  BY DEF CreateCaptcha, ExpireCaptcha, LoginInv, LoginTypeOK
<1>2. LoginTypeOK'
  BY <1>1 DEF LoginInv, LoginTypeOK
<1>3. \A a \in Attempts : Earned(attempts[a], captchas, account, a \in admitted, a \in sessions)'
  BY <1>1 DEF LoginInv, Earned
<1>4. \A a \in Attempts : AttemptTold(attempts[a], a \in sessions, log[a], a \in logFailed)'
  BY <1>1 DEF LoginInv, AttemptTold
<1>5. CaptchaAdmitsOnce'
  BY <1>1 DEF LoginInv, CaptchaAdmitsOnce
<1> QED
  BY <1>2, <1>3, <1>4, <1>5 DEF LoginInv

\* An attempt under way remembers that its credentials were accepted once.
LEMMA AdministrateStep ==
  ASSUME LoginInv, Administrate
  PROVE  LoginInv'
<1>1. /\ account' \in [status : {"absent", "enabled", "disabled"}, password : Secrets]
      /\ attempts' = [a \in Attempts |->
             [attempts[a] EXCEPT !.valid = @ \/ Accepts(account', attempts[a].password)]]
      /\ UNCHANGED <<captchas, sessions, log, admitted, logFailed>>
  BY DEF Administrate, Secrets
<1>2. ASSUME NEW a \in Attempts
      PROVE  /\ attempts'[a] \in Attempt /\ attempts'[a].captcha = attempts[a].captcha
             /\ Earned(attempts'[a], captchas, account', a \in admitted, a \in sessions)
             /\ AttemptTold(attempts'[a], a \in sessions, log[a], a \in logFailed)
  <2>1. PICK old \in Attempt : old = attempts[a]
    BY DEF LoginInv, LoginTypeOK
  <2> DEFINE b == old.valid \/ Accepts(account', old.password)
             q == [old EXCEPT !.valid = b]
  <2>2. attempts'[a] = q
    BY <1>1, <2>1
  <2>3. b \in BOOLEAN /\ (old.valid => b) /\ (Accepts(account', old.password) => b)
    BY DEF Accepts, Attempt
  <2> HIDE DEF b
  <2>4. /\ q \in Attempt /\ q.pc = old.pc /\ q.outcome = old.outcome /\ q.captcha = old.captcha
        /\ q.password = old.password /\ q.valid = b
    BY <2>3 DEF Attempt
  <2> HIDE DEF q
  <2>5. /\ Earned(old, captchas, account, a \in admitted, a \in sessions)
        /\ AttemptTold(old, a \in sessions, log[a], a \in logFailed)
    BY <2>1 DEF LoginInv
  <2>6. Earned(q, captchas, account', a \in admitted, a \in sessions)
    BY <2>3, <2>4, <2>5 DEF Earned
  <2>7. AttemptTold(q, a \in sessions, log[a], a \in logFailed)
    BY <2>4, <2>5 DEF AttemptTold
  <2> QED
    BY <2>1, <2>2, <2>4, <2>6, <2>7
<1>3. LoginTypeOK'
  BY <1>1, <1>2 DEF LoginInv, LoginTypeOK
<1>4. \A a \in Attempts : Earned(attempts[a], captchas, account, a \in admitted, a \in sessions)'
  BY <1>1, <1>2
<1>5. \A a \in Attempts : AttemptTold(attempts[a], a \in sessions, log[a], a \in logFailed)'
  BY <1>1, <1>2
<1>6. CaptchaAdmitsOnce'
  BY <1>1, <1>2 DEF LoginInv, LoginTypeOK, CaptchaAdmitsOnce
<1> QED
  BY <1>3, <1>4, <1>5, <1>6 DEF LoginInv

-----------------------------------------------------------------------------
(* Login: the theorems.                                                    *)

LEMMA LoginInitInv == LoginInit => LoginInv
<1> SUFFICES ASSUME LoginInit
             PROVE  LoginInv
  OBVIOUS
<1> DEFINE p == CHOOSE p \in Passwords : TRUE
<1>1. /\ NoAttempt = [pc |-> "idle", captcha |-> NoCaptcha, right |-> FALSE, password |-> p,
                      outcome |-> NoOutcome, valid |-> FALSE]
      /\ account = [status |-> "enabled", password |-> p]
  BY DEF NoAttempt, LoginInit
<1> HIDE DEF p
<1>2. /\ NoAttempt.pc = "idle" /\ NoAttempt.outcome = NoOutcome /\ NoAttempt.password = p
      /\ NoAttempt.captcha = NoCaptcha
  BY <1>1
<1>3. p \in Secrets
  BY <1>2 DEF Secrets
<1>4. NoAttempt \in Attempt
  BY <1>1, <1>3, OutcomeFields DEF Attempt
<1>5. LoginTypeOK
  <2>1. account \in [status : {"absent", "enabled", "disabled"}, password : Secrets]
    BY <1>1, <1>3
  <2>2. log \in [Attempts -> [count : Nat, last : Outcomes]]
    BY OutcomeFields DEF LoginInit
  <2>3. attempts \in [Attempts -> Attempt] /\ captchas \in [Captchas -> {"unused", "live", "gone"}]
    BY <1>4 DEF LoginInit
  <2> QED
    BY <2>1, <2>2, <2>3 DEF LoginInit, LoginTypeOK
<1>6. \A a \in Attempts : Earned(attempts[a], captchas, account, a \in admitted, a \in sessions)
  BY <1>2 DEF LoginInit, Earned
<1>7. \A a \in Attempts : AttemptTold(attempts[a], a \in sessions, log[a], a \in logFailed)
  BY <1>2, OutcomeFields DEF LoginInit, AttemptTold
<1>8. CaptchaAdmitsOnce
  BY DEF LoginInit, CaptchaAdmitsOnce
<1> QED
  BY <1>5, <1>6, <1>7, <1>8 DEF LoginInv

LEMMA LoginStutter ==
  ASSUME LoginInv, UNCHANGED loginVars
  PROVE  LoginInv'
<1>1. LoginTypeOK'
  BY DEF loginVars, LoginInv, LoginTypeOK
<1>2. CaptchaAdmitsOnce'
  BY DEF loginVars, LoginInv, CaptchaAdmitsOnce
<1> QED
  BY <1>1, <1>2 DEF loginVars, LoginInv

LEMMA LoginNextInv == LoginInv /\ [LoginNext]_loginVars => LoginInv'
<1> SUFFICES ASSUME LoginInv, [LoginNext]_loginVars
             PROVE  LoginInv'
  OBVIOUS
<1> QED
  BY CaptchaKeyStep, SubmitLoginStep, VerifyCaptchaStep, VerifyCaptchaFailsStep, CheckAccountStep, LoadUserStep,
     AccountFailsStep, CreateLoginSessionStep, CreateSessionFailsStep, RecordLoginStep, DropLoginStep,
     AdministrateStep, LoginStutter DEF LoginNext

\* What every login attempt has earned and what the log holds of it, in every reachable state,
\* for any number of attempts, captchas and changes of the account (login, validate, verify).
THEOREM LoginInvariance == LoginSpec => []LoginInv
BY LoginInitInv, LoginNextInv, PTL DEF LoginSpec

\* A session costs a captcha of its own and credentials that were right at some moment since
\* the attempt was submitted, whatever answers of Redis are lost (verify, login).
THEOREM SessionsCostCaptchas == LoginSpec => []SessionsEarned
<1>1. LoginInv => SessionsEarned
  BY DEF LoginInv, LoginTypeOK, Earned, SessionsEarned, SessionsWereValid
<1> QED
  BY <1>1, LoginInvariance, PTL

\* An attempt leaves at most one event, and the event of an answered one says how it ended
\* (record_login).
THEOREM EventsTellOutcomes == LoginSpec => []LogTellsOutcome
<1>1. LoginInv => LogTellsOutcome
  BY DEF LoginInv, AttemptTold, LogTellsOutcome
<1> QED
  BY <1>1, LoginInvariance, PTL

-----------------------------------------------------------------------------
(* ByteRanges: a range is served as it was asked for.                      *)

\* The bytes of a file of n bytes that h asks for.
AskedOf(h, n) ==
    {i \in 0..(n - 1) :
        /\ h.kind # "malformed"
        /\ h.first = Empty \/ Parses(h.first)
        /\ h.last = Empty \/ Parses(h.last)
        /\ h.kind = "bytes" =>
               IF h.first = Empty THEN h.last # Empty /\ i + h.last >= n
               ELSE i >= h.first /\ (h.last # Empty => i <= h.last)}

Exact(r, h, n) ==
    /\ r.start \in Int /\ r.end \in Int
    /\ r.start..(r.end - 1) = AskedOf(h, n)
    /\ r.status = 206 => 0 <= r.start /\ r.start < r.end /\ r.end <= n
    /\ r.status = 416 <=> h.kind # "none" /\ AskedOf(h, n) = {}

LEMMA ReplyFields ==
  /\ NotSatisfiable.status = 416 /\ NotSatisfiable.start = 0 /\ NotSatisfiable.end = 0
  /\ \A s, e : Slice(s, e).status = 206 /\ Slice(s, e).start = s /\ Slice(s, e).end = e
  /\ \A f, l : Bytes(f, l).kind = "bytes" /\ Bytes(f, l).first = f /\ Bytes(f, l).last = l
BY DEF NotSatisfiable, Slice, Bytes

\* A refusal is right if nothing was asked for, a slice if it is what was asked for.
LEMMA RefusedExact ==
  ASSUME NEW h \in Headers, NEW n \in Nat, h.kind # "none", AskedOf(h, n) = {}
  PROVE  Exact(NotSatisfiable, h, n)
<1>1. 0..(0 - 1) = {}
  OBVIOUS
<1> QED
  BY <1>1, ReplyFields DEF Exact

LEMMA SlicedExact ==
  ASSUME NEW h \in Headers, NEW n \in Nat, NEW s \in Int, NEW e \in Int, 0 <= s, s < e, e <= n,
         AskedOf(h, n) = s..(e - 1)
  PROVE  Exact(Slice(s, e), h, n)
<1>1. s \in AskedOf(h, n)
  OBVIOUS
<1> QED
  BY <1>1, ReplyFields DEF Exact

\* The last so many bytes: all of the file if it has fewer.
LEMMA SuffixExact ==
  ASSUME NEW l \in Numbers, NEW n \in Nat
  PROVE  Exact(Suffix(l, n), Bytes(Empty, l), n)
<1> DEFINE h == Bytes(Empty, l)
<1>1. h \in Headers /\ h.kind = "bytes" /\ h.first = Empty /\ h.last = l
  <2>1. Empty \in Numbers
    BY DEF Numbers
  <2> QED
    BY <2>1, ReplyFields DEF Headers
<1>2. AskedOf(h, n) = {i \in 0..(n - 1) : Parses(l) /\ i + l >= n}
  BY <1>1, RangesAssumption DEF AskedOf, Parses, Empty
<1> HIDE DEF h
<1>3. CASE ~Parses(l) \/ l = 0 \/ n = 0
  <2>1. AskedOf(h, n) = {}
    BY <1>2, <1>3
  <2> QED
    BY <1>1, <1>3, <2>1, RefusedExact DEF Suffix, h
<1>4. CASE Parses(l) /\ l # 0 /\ n # 0
  <2>1. l \in Nat
    BY <1>4, RangesAssumption DEF Parses
  <2> DEFINE s == IF l > n THEN 0 ELSE n - l
  <2>2. s \in Int /\ 0 <= s /\ s < n /\ AskedOf(h, n) = s..(n - 1)
    BY <1>2, <1>4, <2>1
  <2>3. Suffix(l, n) = Slice(s, n)
    BY <1>4 DEF Suffix
  <2> HIDE DEF s
  <2>4. Exact(Slice(s, n), h, n)
    BY <1>1, <2>2, SlicedExact
  <2> QED
    BY <2>3, <2>4 DEF h
<1> QED
  BY <1>3, <1>4

\* From one byte to another, or to the end.
LEMMA FromToExact ==
  ASSUME NEW f \in Numbers, f # Empty, NEW l \in Numbers, NEW n \in Nat, n < Word
  PROVE  Exact(FromTo(f, l, n), Bytes(f, l), n)
<1> DEFINE h == Bytes(f, l)
           end == IF l = Empty THEN n - 1 ELSE Least(l, n - 1)
<1>1. h \in Headers /\ h.kind = "bytes" /\ h.first = f /\ h.last = l
  BY ReplyFields DEF Headers, Numbers
<1>2. f \in Nat /\ l \in Int /\ (l # Empty => l \in Nat) /\ Word \in Nat
  BY RangesAssumption DEF Numbers, Empty
<1>3. AskedOf(h, n) =
        {i \in 0..(n - 1) : Parses(f) /\ (l = Empty \/ Parses(l)) /\ i >= f /\ (l # Empty => i <= l)}
  BY <1>1 DEF AskedOf
<1>4. FromTo(f, l, n) = IF ~Parses(f) \/ f >= n \/ l >= Word \/ end < f THEN NotSatisfiable
                        ELSE Slice(f, end + 1)
  BY DEF FromTo
<1> HIDE DEF h
<1>5. end \in Int /\ end <= n - 1 /\ (l # Empty => end <= l) /\ \A i \in Int : i > end => i > n - 1 \/ (l # Empty /\ i > l)
  BY <1>2 DEF Least
<1> HIDE DEF end
<1>6. CASE ~Parses(f) \/ f >= n \/ l >= Word \/ end < f
  <2>1. ASSUME NEW i \in AskedOf(h, n)
        PROVE  FALSE
    <3>1. i \in 0..(n - 1) /\ Parses(f) /\ (l = Empty \/ Parses(l)) /\ i >= f /\ (l # Empty => i <= l)
      BY <1>3
    <3> QED
      BY <1>2, <1>5, <1>6, <3>1 DEF Parses, Empty
  <2> QED
    BY <1>1, <1>4, <1>6, <2>1, RefusedExact DEF h
<1>7. CASE ~(~Parses(f) \/ f >= n \/ l >= Word \/ end < f)
  <2>1. Parses(f) /\ (l = Empty \/ Parses(l))
    BY <1>2, <1>7 DEF Parses
  <2>2. AskedOf(h, n) = f..end
    BY <1>2, <1>3, <1>5, <2>1
  <2>3. f..end = f..((end + 1) - 1) /\ f < end + 1 /\ end + 1 <= n /\ 0 <= f
    BY <1>2, <1>5, <1>7
  <2>4. Exact(Slice(f, end + 1), h, n)
    BY <1>1, <1>2, <1>5, <2>2, <2>3, SlicedExact
  <2> QED
    BY <1>4, <1>7, <2>4 DEF h
<1> QED
  BY <1>6, <1>7

\* Every header is answered as it was meant, at every size of the file and every number that
\* parses or does not (requested_range).
LEMMA RequestedExact ==
  ASSUME NEW h \in Headers, NEW n \in Nat, n < Word
  PROVE  Exact(Requested(h, n), h, n)
<1>1. CASE h = NoHeader
  <2>1. h.kind = "none" /\ h.first = Empty /\ h.last = Empty
    BY <1>1 DEF NoHeader
  <2>2. AskedOf(h, n) = 0..(n - 1)
    BY <2>1 DEF AskedOf
  <2>3. Requested(h, n) = [status |-> 200, start |-> 0, end |-> n]
    BY <2>1 DEF Requested
  <2> QED
    BY <2>1, <2>2, <2>3 DEF Exact
<1>2. CASE h = Malformed
  <2>1. h.kind = "malformed"
    BY <1>2 DEF Malformed
  <2>2. AskedOf(h, n) = {} /\ Requested(h, n) = NotSatisfiable
    BY <2>1 DEF AskedOf, Requested
  <2> QED
    BY <2>1, <2>2, RefusedExact
<1>3. ASSUME NEW f \in Numbers, NEW l \in Numbers, h = Bytes(f, l)
      PROVE  Exact(Requested(h, n), h, n)
  <2>1. h.kind = "bytes" /\ h.first = f /\ h.last = l
    BY <1>3, ReplyFields
  <2>2. Requested(h, n) = IF f = Empty THEN Suffix(l, n) ELSE FromTo(f, l, n)
    BY <2>1 DEF Requested
  <2> QED
    BY <1>3, <2>2, SuffixExact, FromToExact
<1> QED
  BY <1>1, <1>2, <1>3 DEF Headers

-----------------------------------------------------------------------------
(* ByteRanges: the inductive invariant and the theorem.                    *)

RangesInv ==
    /\ size \in 0..MaxSize /\ header \in Headers /\ reply = Requested(header, size)
    /\ received = [i \in 1..Len(received) |-> i - 1] /\ received \in Seq(Nat) /\ Len(received) <= size

\* What is asked for from byte m on, in a file of n bytes that has it, begins there.
Resumes(m, l, n) ==
    LET asked == Requested(Bytes(m, l), n)
    IN  /\ asked.status = 206 => asked.start = m /\ asked.end \in Nat /\ asked.end <= n
        /\ l = Empty /\ asked.status = 416 => m = n

LEMMA ResumedAtByte ==
  ASSUME NEW m \in Nat, NEW l \in Int, NEW n \in Nat, m <= n, n < Word
  PROVE  Resumes(m, l, n)
<1>1. Requested(Bytes(m, l), n) = FromTo(m, l, n)
  BY ReplyFields DEF Requested, Empty
<1> DEFINE end == IF l = Empty THEN n - 1 ELSE Least(l, n - 1)
<1>2. end \in Int /\ end <= n - 1 /\ (l = Empty => end = n - 1)
  BY DEF Least
<1>3. FromTo(m, l, n) = IF ~Parses(m) \/ m >= n \/ l >= Word \/ end < m THEN NotSatisfiable
                        ELSE Slice(m, end + 1)
  BY DEF FromTo
<1> HIDE DEF end
<1>4. CASE ~Parses(m) \/ m >= n \/ l >= Word \/ end < m
  BY <1>1, <1>2, <1>3, <1>4, ReplyFields, RangesAssumption DEF Parses, Empty, Resumes
<1>5. CASE ~(~Parses(m) \/ m >= n \/ l >= Word \/ end < m)
  BY <1>1, <1>2, <1>3, <1>5, ReplyFields DEF Resumes
<1> QED
  BY <1>4, <1>5

LEMMA FetchMoreStep ==
  ASSUME RangesInv, FetchMore
  PROVE  RangesInv'
<1> DEFINE have == Len(received)
<1>1. have \in Nat /\ have <= size /\ size \in Nat /\ size < Word /\ size <= MaxSize /\ Word \in Nat
  BY RangesAssumption DEF RangesInv
<1>2. PICK l \in {Empty, have + 1} : header' = Bytes(have, l)
  BY DEF FetchMore
<1>3. reply' = Requested(header', size) /\ size' = size
  BY DEF FetchMore
<1>4. l \in Int /\ l \in Numbers /\ have \in Numbers
  BY <1>1, RangesAssumption DEF Numbers, Empty
<1>5. header' \in Headers
  BY <1>2, <1>4 DEF Headers
<1>6. received' = [i \in 1..Len(received') |-> i - 1] /\ received' \in Seq(Nat) /\ Len(received') <= size
  <2>1. CASE reply'.status # 206
    BY <2>1 DEF FetchMore, RangesInv
  <2>2. CASE reply'.status = 206
    <3>1. reply'.start = have /\ reply'.end \in Nat /\ reply'.end <= size
      <4>1. reply' = Requested(Bytes(have, l), size)
        BY <1>2, <1>3
      <4>2. Resumes(have, l, size)
        BY <1>1, <1>4, ResumedAtByte
      <4> QED
        BY <2>2, <4>1, <4>2 DEF Resumes
    <3>2. PICK n \in 0..(reply'.end - reply'.start) :
            received' = received \o [i \in 1..n |-> reply'.start + i - 1]
      BY <2>2 DEF FetchMore
    <3>3. n \in Nat /\ have + n <= size
      BY <1>1, <3>1, <3>2
    <3> DEFINE more == [i \in 1..n |-> have + i - 1]
    <3>4. received' = received \o more
      BY <3>1, <3>2
    <3>5. more \in Seq(Nat) /\ Len(more) = n /\ received \in Seq(Nat)
      BY <1>1, <3>3 DEF RangesInv
    <3>6. \A i \in 1..have : received[i] = i - 1
      BY DEF RangesInv
    <3>7. \A i \in 1..n : more[i] = have + i - 1
      OBVIOUS
    <3> HIDE DEF more
    <3>8. /\ received' \in Seq(Nat) /\ Len(received') = have + n
          /\ \A i \in 1..(have + n) :
                 received'[i] = IF i <= have THEN received[i] ELSE more[i - have]
      <4>1. /\ received \o more \in Seq(Nat) /\ Len(received \o more) = Len(received) + Len(more)
            /\ \A i \in 1..(Len(received) + Len(more)) :
                   (received \o more)[i] = IF i <= Len(received) THEN received[i] ELSE more[i - Len(received)]
        BY <3>5, ConcatProperties
      <4> QED
        BY <3>4, <3>5, <4>1
    <3>9. \A i \in 1..(have + n) : received'[i] = i - 1
      <4> TAKE i \in 1..(have + n)
      <4>1. CASE i <= have
        BY <1>1, <3>3, <3>6, <3>8, <4>1
      <4>2. CASE i > have
        <5>1. i - have \in 1..n
          BY <1>1, <3>3, <4>2
        <5>2. more[i - have] = have + (i - have) - 1
          BY <3>7, <5>1
        <5>3. i \in Int /\ have \in Int /\ ~(i <= have)
          BY <1>1, <3>3, <4>2
        <5>4. received'[i] = more[i - have]
          BY <3>8, <5>3
        <5> HIDE DEF have
        <5> QED
          BY <5>2, <5>3, <5>4
      <4> QED
        BY <1>1, <3>3, <4>1, <4>2
    <3>10. received' = [i \in 1..(have + n) |-> received'[i]]
      BY <1>1, <3>3, <3>8
    <3>11. [i \in 1..(have + n) |-> received'[i]] = [i \in 1..(have + n) |-> i - 1]
      BY <3>9
    <3> QED
      BY <1>1, <3>3, <3>8, <3>10, <3>11
  <2> QED
    BY <2>1, <2>2
<1> QED
  BY <1>3, <1>5, <1>6 DEF RangesInv

\* What is answered and what the fetching client has, in every reachable state, for a file of
\* any size that a number can name (requested_range, serve_local_upload).
THEOREM RangesInvariance == RangesSpec => []RangesInv
<1>1. RangesInit => RangesInv
  <2> SUFFICES ASSUME RangesInit
               PROVE  RangesInv
    OBVIOUS
  <2>1. received = << >> /\ Len(received) = 0 /\ size \in 0..MaxSize
    BY DEF RangesInit
  <2>2. received = [i \in 1..Len(received) |-> i - 1] /\ received \in Seq(Nat)
    BY <2>1
  <2> QED
    BY <2>1, <2>2, RangesAssumption DEF RangesInit, RangesInv, Headers
<1>2. RangesInv /\ [RangesNext]_rangeVars => RangesInv'
  <2>1. RangesInv /\ ServeUpload => RangesInv'
    BY DEF RangesInv, ServeUpload
  <2>2. RangesInv /\ FetchMore => RangesInv'
    BY FetchMoreStep
  <2>3. RangesInv /\ UNCHANGED rangeVars => RangesInv'
    BY DEF RangesInv, rangeVars
  <2> QED
    BY <2>1, <2>2, <2>3 DEF RangesNext
<1> QED
  BY <1>1, <1>2, PTL DEF RangesSpec

\* Every slice is the one asked for, and a fetch that breaks off and goes on ends with the
\* file, whatever the file's size and wherever it breaks (requested_range, serve_local_upload).
THEOREM RangesServedExactly == RangesSpec => []RangesExact
<1>1. RangesInv => RangesExact
  <2> SUFFICES ASSUME RangesInv
               PROVE  RangesExact
    OBVIOUS
  <2>1. size \in Nat /\ size < Word /\ Word \in Nat /\ header \in Headers /\ reply = Requested(header, size)
    BY RangesAssumption DEF RangesInv
  <2>2. Exact(reply, header, size)
    BY <2>1, RequestedExact
  <2>3. Asked = AskedOf(header, size)
    BY DEF Asked, AskedOf
  <2>4. SliceIsAsked
    BY <2>1, <2>2, <2>3 DEF SliceIsAsked, Exact, ContentLength, ContentRange
  <2>5. ResumedFetchIsFile
    <3>1. Len(received) \in Nat /\ Len(received) <= size
      BY DEF RangesInv
    <3>2. header = Bytes(Len(received), Empty) /\ reply.status = 416 => Len(received) = size
      <4>1. Empty \in Int
        BY DEF Empty
      <4>2. Resumes(Len(received), Empty, size)
        BY <2>1, <3>1, <4>1, ResumedAtByte
      <4> QED
        BY <2>1, <4>2 DEF Resumes
    <3> QED
      BY <3>1, <3>2 DEF RangesInv, ResumedFetchIsFile
  <2> QED
    BY <2>4, <2>5 DEF RangesExact
<1> QED
  BY <1>1, RangesInvariance, PTL

-----------------------------------------------------------------------------
(* Listings: the inductive invariant.  What a reader has not seen yet lies *)
(* behind what it has: every row that passed from first to last and is not *)
(* seen has at least as many rows before it as the pages have shown.       *)

Reader == [pc : {"idle", "count", "rows", "roles", "done", "failed"}, by : {"id", "name"}, desc : BOOLEAN,
           size : 1..2, page : Nat \ {0}, total : Nat, found : SUBSET Nat, seen : SUBSET Nat]

ListTypeOK ==
    /\ table \in Tables /\ lastId \in Nat
    /\ DOMAIN rows \subseteq 1..lastId /\ rows \in [DOMAIN rows -> Row]
    /\ drawn \subseteq (1..lastId) \ DOMAIN rows
    /\ reader \in Reader /\ (reader.pc # "roles" => reader.found = {})
    /\ disturbed \subseteq {"row", "key"}

\* The rows that come before i in the order that was asked for.
Before(i, j, by, desc) == IF desc THEN Key(j, by) > Key(i, by) ELSE Key(j, by) < Key(i, by)
Earlier(i) == {j \in Passing : Before(i, j, reader.by, reader.desc)}

\* No two rows that pass have the same key, and none got another one.
Unique == \A i, j \in Passing : i # j => Key(i, reader.by) # Key(j, reader.by)
Steady == Unique /\ "key" \notin disturbed

Shown == reader.seen \cup reader.found
Reached == IF reader.pc = "roles" THEN reader.page * reader.size ELSE Offset(reader.page, reader.size)

CountStands ==
    reader.pc = "rows" /\ "row" \notin disturbed /\ complete # {} => reader.total = Cardinality(Passing)

RestLiesBehind ==
    Steady /\ reader.pc \in {"count", "rows", "roles"} =>
        \A i \in complete \ Shown : Reached <= Cardinality(Earlier(i))

EndShowsAll ==
    /\ Steady /\ "row" \notin disturbed
    /\ reader.pc = "done" \/ (reader.pc = "roles" /\ reader.page * reader.size >= reader.total)
    => complete \subseteq Shown

ListInv == ListTypeOK /\ complete \subseteq Passing /\ CountStands /\ RestLiesBehind /\ EndShowsAll

-----------------------------------------------------------------------------
(* Orders and pages.                                                       *)

LEMMA PassingRows ==
    ASSUME ListTypeOK
    PROVE  /\ IsFiniteSet(Passing) /\ Cardinality(Passing) \in Nat /\ Passing \subseteq Nat
           /\ \A i \in DOMAIN rows : \A by \in {"id", "name"} : Key(i, by) \in Nat
<1>1. Passing \in SUBSET (1..lastId) /\ lastId \in Nat
  BY DEF ListTypeOK, Passing
<1>2. IsFiniteSet(1..lastId)
  BY <1>1, FS_Interval
<1>3. IsFiniteSet(Passing)
  BY <1>1, <1>2, FS_Subset
<1>4. \A i \in DOMAIN rows : \A by \in {"id", "name"} : Key(i, by) \in Nat
  BY ListingAssumption DEF ListTypeOK, Key, Row
<1>5. QED
  BY <1>1, <1>3, <1>4, FS_CardinalityType

\* A sorted sequence of rows with different keys has each of them once, after
\* the ones before it.
LEMMA Position ==
    ASSUME NEW S, IsFiniteSet(S), NEW by, NEW desc \in BOOLEAN, NEW q \in Sorted(S, by, desc),
           \A i \in S : Key(i, by) \in Nat, \A i, j \in S : i # j => Key(i, by) # Key(j, by), NEW i \in S
    PROVE  \E n \in 1..Cardinality(S) :
               q[n] = i /\ Cardinality({j \in S : Before(i, j, by, desc)}) = n - 1
<1> DEFINE N == Cardinality(S)
<1>1. N \in Nat
  BY FS_CardinalityType
<1>2. /\ q \in [1..N -> S]
      /\ \A m, n \in 1..N : m < n =>
             /\ q[m] # q[n]
             /\ IF desc THEN Key(q[m], by) >= Key(q[n], by) ELSE Key(q[m], by) <= Key(q[n], by)
  <2>1. q \in [1..N -> S] /\ DOMAIN q = 1..N
    BY DEF Sorted
  <2>2. QED
    BY <2>1 DEF Sorted
<1>3. IsFiniteSet(1..N) /\ Cardinality(1..N) = N
  BY <1>1, FS_Interval
<1>4. q \in Injection(1..N, S)
  <2>1. \A m, n \in 1..N : q[m] = q[n] => m = n
    <3> SUFFICES ASSUME NEW m \in 1..N, NEW n \in 1..N, m # n PROVE q[m] # q[n]
      OBVIOUS
    <3>1. m < n \/ n < m
      BY <1>1
    <3>2. QED
      BY <1>2, <3>1
  <2>2. QED
    BY <1>2, <2>1 DEF Injection, IsInjective
<1>5. q \in Surjection(1..N, S)
  BY <1>3, <1>4, FS_Injection
<1>6. PICK n \in 1..N : q[n] = i
  BY <1>5 DEF Surjection
<1> DEFINE B == {j \in S : Before(i, j, by, desc)}
           p == [m \in 1..(n - 1) |-> q[m]]
<1>7. ASSUME NEW m \in 1..N PROVE Before(i, q[m], by, desc) <=> m < n
  <2>1. Key(q[m], by) \in Nat /\ Key(i, by) \in Nat /\ q[m] \in S
    BY <1>2
  <2>2. CASE m < n
    <3>1. Key(q[m], by) # Key(i, by)
      BY <1>2, <1>6, <2>1, <2>2
    <3>2. IF desc THEN Key(q[m], by) >= Key(i, by) ELSE Key(q[m], by) <= Key(i, by)
      BY <1>2, <1>6, <2>2
    <3>3. QED
      BY <2>1, <2>2, <3>1, <3>2 DEF Before
  <2>3. CASE m = n
    BY <1>6, <2>1, <2>3 DEF Before
  <2>4. CASE n < m
    <3>1. IF desc THEN Key(i, by) >= Key(q[m], by) ELSE Key(i, by) <= Key(q[m], by)
      BY <1>2, <1>6, <2>4
    <3>2. ~(m < n)
      BY <1>1, <2>4
    <3>3. QED
      BY <2>1, <3>1, <3>2 DEF Before
  <2>5. QED
    BY <1>1, <2>2, <2>3, <2>4
<1>8. p \in Bijection(1..(n - 1), B)
  <2>1. 1..(n - 1) \subseteq 1..N /\ \A m \in 1..N : m \in 1..(n - 1) <=> m < n
    BY <1>1
  <2>2. \A m \in 1..(n - 1) : p[m] = q[m] /\ q[m] \in B
    BY <1>2, <1>7, <2>1
  <2>3. \A j \in B : \E m \in 1..(n - 1) : p[m] = j
    BY <1>5, <1>7, <2>1, <2>2 DEF Surjection
  <2>4. \A m, k \in 1..(n - 1) : p[m] = p[k] => m = k
    BY <1>4, <2>1, <2>2 DEF Injection, IsInjective
  <2>5. p \in [1..(n - 1) -> B]
    BY <2>2
  <2> HIDE DEF p, B
  <2>6. QED
    BY <2>3, <2>4, <2>5 DEF Bijection, Injection, Surjection, IsInjective
<1>9. Cardinality(1..(n - 1)) = n - 1 /\ IsFiniteSet(1..(n - 1))
  <2>1. n - 1 \in Nat /\ (1 > n - 1 => n - 1 = 0) /\ (n - 1) - 1 + 1 = n - 1
    BY <1>1
  <2> DEFINE k == n - 1
  <2>2. IsFiniteSet(1..k) /\ Cardinality(1..k) = IF 1 > k THEN 0 ELSE k - 1 + 1
    <3>1. 1 \in Int /\ k \in Int
      BY <2>1
    <3> HIDE DEF k
    <3>2. QED
      BY <3>1, FS_Interval
  <2>3. QED
    BY <2>1, <2>2
<1>10. Cardinality(B) = n - 1
  BY <1>8, <1>9, FS_Bijection DEF ExistsBijection
<1>11. QED
  BY <1>6, <1>10

LEMMA Pages ==
    ASSUME NEW page \in Nat \ {0}, NEW limit \in 1..2
    PROVE  /\ page * limit \in Nat /\ Offset(page, limit) \in Nat /\ Offset(1, limit) = 0
           /\ Offset(page, limit) + limit = page * limit /\ Offset(page + 1, limit) = page * limit
<1>1. CASE limit = 1
  BY <1>1 DEF Offset
<1>2. CASE limit = 2
  BY <1>2 DEF Offset
<1>3. QED
  BY <1>1, <1>2

\* A page shows the rows that as many others come before as it says.
LEMMA PageShows ==
    ASSUME ListInv, Unique, reader.pc = "rows", NEW q \in Sorted(Passing, reader.by, reader.desc),
           NEW i \in complete \ reader.seen, Offset(reader.page, reader.size) <= Cardinality(Earlier(i)),
           i \notin {q[n] : n \in DOMAIN q \cap (Offset(reader.page, reader.size) + 1)
                                               ..(Offset(reader.page, reader.size) + reader.size)}
    PROVE  /\ reader.page * reader.size <= Cardinality(Earlier(i))
           /\ reader.page * reader.size < Cardinality(Passing)
<1> DEFINE offset == Offset(reader.page, reader.size)
           N == Cardinality(Passing)
<1>1. /\ reader.page \in Nat \ {0} /\ reader.size \in 1..2 /\ reader.by \in {"id", "name"} /\ reader.desc \in BOOLEAN
      /\ i \in Passing /\ Passing \subseteq DOMAIN rows
  BY DEF ListInv, ListTypeOK, Reader, Passing
<1>2. offset \in Nat /\ offset + reader.size = reader.page * reader.size
  BY <1>1, Pages
<1>3. IsFiniteSet(Passing) /\ N \in Nat /\ \A j \in Passing : Key(j, reader.by) \in Nat
  BY <1>1, PassingRows DEF ListInv
<1>4. PICK n \in 1..N : q[n] = i /\ Cardinality(Earlier(i)) = n - 1
  BY <1>1, <1>3, Position DEF Unique, Earlier
<1>5. DOMAIN q = 1..N
  BY DEF Sorted
<1>6. n \notin (offset + 1)..(offset + reader.size)
  BY <1>4, <1>5
<1> HIDE DEF offset, N
<1>7. offset <= Cardinality(Earlier(i))
  BY DEF offset
<1>8. offset + reader.size <= n - 1
  BY <1>1, <1>2, <1>3, <1>4, <1>6, <1>7
<1>9. n - 1 < N
  BY <1>3, <1>4
<1>10. reader.page * reader.size = offset + reader.size
  BY <1>2
<1>11. reader.page * reader.size < N
  BY <1>1, <1>2, <1>3, <1>4, <1>8, <1>9, <1>10
<1>12. QED
  BY <1>4, <1>8, <1>10, <1>11 DEF N

-----------------------------------------------------------------------------
(* Listings: steps of the reader.                                          *)

LEMMA ReaderFields ==
    ASSUME ListInv
    PROVE  /\ reader \in Reader /\ reader.pc \in {"idle", "count", "rows", "roles", "done", "failed"}
           /\ reader.by \in {"id", "name"} /\ reader.desc \in BOOLEAN /\ reader.size \in 1..2
           /\ reader.page \in Nat \ {0} /\ reader.total \in Nat
           /\ reader.found \in SUBSET Nat /\ reader.seen \in SUBSET Nat
           /\ reader.page * reader.size \in Nat
<1>1. reader \in Reader
  BY DEF ListInv, ListTypeOK
<1>2. QED
  BY <1>1, Pages DEF Reader

\* The order of the rows does not depend on the reader, but for what it asked.
LEMMA SameOrder ==
    ASSUME reader'.by = reader.by, reader'.desc = reader.desc, UNCHANGED <<rows, disturbed>>
    PROVE  /\ Steady' <=> Steady
           /\ Passing' = Passing
           /\ \A i : Earlier(i)' = Earlier(i)
<1>1. Passing' = Passing
  BY DEF Passing
<1>2. \A i : Key(i, reader.by)' = Key(i, reader.by)
  BY DEF Key
<1>3. \A i : Earlier(i)' = Earlier(i)
  BY <1>1 DEF Earlier, Before, Key
<1>4. Steady' <=> Steady
  BY <1>1, <1>2 DEF Steady, Unique
<1>5. QED
  BY <1>1, <1>3, <1>4

LEMMA TurnStep ==
    ASSUME ListInv, reader.pc \in {"rows", "roles"}, NEW found \in SUBSET Nat, reader' = Turned(found),
           UNCHANGED <<table, rows, lastId, drawn, complete, disturbed>>,
           Steady => \A i \in complete \ (reader.seen \cup found) :
                         reader.page * reader.size <= Cardinality(Earlier(i)),
           Steady /\ "row" \notin disturbed /\ reader.page * reader.size >= reader.total =>
               complete \subseteq reader.seen \cup found
    PROVE  ListInv'
<1> DEFINE last == reader.page * reader.size >= reader.total
<1>1. /\ reader'.pc = (IF last THEN "done" ELSE "count") /\ reader'.seen = reader.seen \cup found
      /\ reader'.found = {} /\ reader'.by = reader.by /\ reader'.desc = reader.desc
      /\ reader'.size = reader.size /\ reader'.total = reader.total
      /\ reader'.page = IF last THEN reader.page ELSE reader.page + 1
      /\ reader' \in Reader
  <2> DEFINE p == IF last THEN reader.page ELSE reader.page + 1
             c == IF last THEN "done" ELSE "count"
  <2>1. reader' = [reader EXCEPT !.seen = @ \cup found, !.found = {}, !.pc = c, !.page = p]
    BY DEF Turned
  <2>2. p \in Nat \ {0} /\ c \in {"done", "count"} /\ reader.seen \cup found \in SUBSET Nat
    <3> HIDE DEF last
    <3>1. p \in Nat \ {0}
      BY ReaderFields
    <3>2. QED
      BY <3>1, ReaderFields
  <2> HIDE DEF p, c, last
  <2>3. /\ reader'.pc = c /\ reader'.seen = reader.seen \cup found
        /\ reader'.found = {} /\ reader'.by = reader.by /\ reader'.desc = reader.desc
        /\ reader'.size = reader.size /\ reader'.total = reader.total
        /\ reader'.page = p /\ reader' \in Reader
    BY <2>1, <2>2, ReaderFields DEF Reader
  <2>4. QED
    BY <2>3 DEF p, c
<1>2. (Steady' <=> Steady) /\ Passing' = Passing /\ \A i : Earlier(i)' = Earlier(i)
  BY <1>1, SameOrder
<1>3. Shown' = reader.seen \cup found
  BY <1>1 DEF Shown
<1>4. ListTypeOK'
  BY <1>1 DEF ListInv, ListTypeOK
<1>5. complete' \subseteq Passing' /\ CountStands'
  BY <1>1, <1>2 DEF ListInv, CountStands
<1>6. RestLiesBehind'
  <2>1. ~last => Reached' = reader.page * reader.size
    BY <1>1, ReaderFields, Pages DEF Reached
  <2>2. QED
    BY <1>1, <1>2, <1>3, <2>1 DEF RestLiesBehind
<1>7. EndShowsAll'
  BY <1>1, <1>2, <1>3 DEF EndShowsAll
<1>8. QED
  BY <1>4, <1>5, <1>6, <1>7 DEF ListInv

LEMMA FetchRowsStep ==
    ASSUME ListInv, FetchRows
    PROVE  ListInv'
<1> DEFINE offset == Offset(reader.page, reader.size)
<1>1. /\ reader.pc = "rows" /\ UNCHANGED <<table, rows, lastId, drawn, complete, disturbed>>
      /\ reader.found = {}
  BY DEF FetchRows, ListInv, ListTypeOK
<1>2. PICK q \in Sorted(Passing, reader.by, reader.desc) :
          LET found == {q[n] : n \in DOMAIN q \cap (offset + 1)..(offset + reader.size)}
          IN  \/ reader' = Turned(found)
              \/ table = "users" /\ reader' = [reader EXCEPT !.pc = "roles", !.found = found]
  BY DEF FetchRows
<1> DEFINE found == {q[n] : n \in DOMAIN q \cap (offset + 1)..(offset + reader.size)}
<1>3. found \in SUBSET Nat
  <2>1. q \in [DOMAIN q -> Passing]
    BY DEF Sorted
  <2>2. Passing \subseteq Nat
    BY PassingRows DEF ListInv
  <2>3. QED
    BY <2>1, <2>2
<1>4. ASSUME Steady, NEW i \in complete \ (reader.seen \cup found)
      PROVE  /\ reader.page * reader.size <= Cardinality(Earlier(i))
             /\ reader.page * reader.size < Cardinality(Passing)
  <2>1. offset <= Cardinality(Earlier(i))
    BY <1>1, <1>4 DEF ListInv, RestLiesBehind, Shown, Reached
  <2>2. i \notin found
    BY <1>4
  <2>3. QED
    BY <1>1, <1>4, <2>1, <2>2, PageShows DEF Steady
<1>5. Steady /\ "row" \notin disturbed /\ reader.page * reader.size >= reader.total =>
          complete \subseteq reader.seen \cup found
  <2> SUFFICES ASSUME Steady, "row" \notin disturbed, reader.page * reader.size >= reader.total,
                      NEW i \in complete \ (reader.seen \cup found)
               PROVE  FALSE
    OBVIOUS
  <2>1. reader.total = Cardinality(Passing)
    BY <1>1 DEF ListInv, CountStands
  <2>2. reader.page * reader.size < Cardinality(Passing)
    BY <1>4
  <2> DEFINE x == reader.page * reader.size
  <2>3. x \in Nat /\ Cardinality(Passing) \in Nat
    BY ReaderFields, PassingRows DEF ListInv
  <2> HIDE DEF x
  <2>4. x >= Cardinality(Passing) /\ x < Cardinality(Passing)
    BY <2>1, <2>2 DEF x
  <2>5. QED
    BY <2>3, <2>4
<1>6. CASE reader' = Turned(found)
  <2> HIDE DEF found
  <2>1. QED
    BY <1>1, <1>3, <1>4, <1>5, <1>6, TurnStep
<1>7. CASE reader' = [reader EXCEPT !.pc = "roles", !.found = found]
  <2> HIDE DEF found
  <2>1. /\ reader'.pc = "roles" /\ reader'.seen = reader.seen /\ reader'.found = found
        /\ reader'.by = reader.by /\ reader'.desc = reader.desc
        /\ reader'.size = reader.size /\ reader'.total = reader.total /\ reader'.page = reader.page
        /\ reader' \in Reader
    BY <1>3, <1>7, ReaderFields DEF Reader
  <2>2. (Steady' <=> Steady) /\ Passing' = Passing /\ \A i : Earlier(i)' = Earlier(i)
    BY <1>1, <2>1, SameOrder
  <2>3. Shown' = reader.seen \cup found /\ Reached' = reader.page * reader.size
    BY <2>1 DEF Shown, Reached
  <2>4. ListTypeOK'
    BY <1>1, <2>1 DEF ListInv, ListTypeOK
  <2>5. complete' \subseteq Passing' /\ CountStands'
    BY <1>1, <2>1, <2>2 DEF ListInv, CountStands
  <2>6. RestLiesBehind'
    BY <1>1, <1>4, <2>2, <2>3 DEF RestLiesBehind
  <2>7. EndShowsAll'
    BY <1>1, <1>5, <2>1, <2>2, <2>3 DEF EndShowsAll
  <2>8. QED
    BY <2>4, <2>5, <2>6, <2>7 DEF ListInv
<1>8. QED
  BY <1>2, <1>6, <1>7

LEMMA LoadRolesStep ==
    ASSUME ListInv, LoadRoles
    PROVE  ListInv'
<1>1. /\ reader.pc = "roles" /\ UNCHANGED <<table, rows, lastId, drawn, complete, disturbed>>
      /\ reader' = IF reader.found \subseteq DOMAIN rows THEN Turned(reader.found)
                   ELSE [reader EXCEPT !.pc = "failed", !.found = {}]
  BY DEF LoadRoles
<1>2. CASE reader.found \subseteq DOMAIN rows
  <2>1. Steady => \A i \in complete \ (reader.seen \cup reader.found) :
                      reader.page * reader.size <= Cardinality(Earlier(i))
    BY <1>1 DEF ListInv, RestLiesBehind, Shown, Reached
  <2>2. Steady /\ "row" \notin disturbed /\ reader.page * reader.size >= reader.total =>
            complete \subseteq reader.seen \cup reader.found
    BY <1>1 DEF ListInv, EndShowsAll, Shown
  <2>3. QED
    BY <1>1, <1>2, <2>1, <2>2, ReaderFields, TurnStep
<1>3. CASE ~(reader.found \subseteq DOMAIN rows)
  <2>1. /\ reader'.pc = "failed" /\ reader'.found = {} /\ reader' \in Reader
    BY <1>1, <1>3, ReaderFields DEF Reader
  <2>2. Passing' = Passing
    BY <1>1 DEF Passing
  <2>3. QED
    BY <1>1, <2>1, <2>2 DEF ListInv, ListTypeOK, CountStands, RestLiesBehind, EndShowsAll
<1>4. QED
  BY <1>2, <1>3

LEMMA CountRowsStep ==
    ASSUME ListInv, CountRows
    PROVE  ListInv'
<1>1. /\ reader.pc = "count" /\ UNCHANGED <<table, rows, lastId, drawn, complete>>
      /\ reader' = [reader EXCEPT !.pc = "rows", !.total = Cardinality(Passing)]
      /\ disturbed' = disturbed \ {"row"}
  BY DEF CountRows
<1>2. /\ reader'.pc = "rows" /\ reader'.total = Cardinality(Passing) /\ reader'.found = reader.found
      /\ reader'.seen = reader.seen /\ reader'.by = reader.by /\ reader'.desc = reader.desc
      /\ reader'.size = reader.size /\ reader'.page = reader.page
      /\ reader' \in Reader
  BY <1>1, ReaderFields, PassingRows DEF Reader, ListInv
<1>3. Passing' = Passing /\ \A i : Earlier(i)' = Earlier(i)
  BY <1>1, <1>2 DEF Passing, Earlier, Before, Key
<1>4. Steady' <=> Steady
  BY <1>1, <1>2, <1>3 DEF Steady, Unique, Key
<1>5. Shown' = Shown /\ Reached' = Reached
  BY <1>1, <1>2 DEF Shown, Reached
<1>6. QED
  BY <1>1, <1>2, <1>3, <1>4, <1>5
  DEF ListInv, ListTypeOK, CountStands, RestLiesBehind, EndShowsAll

LEMMA BeginReadingStep ==
    ASSUME ListInv, BeginReading
    PROVE  ListInv'
<1>1. PICK order \in Orders(table), limit \in 1..2 :
          reader' = [NoReader EXCEPT !.pc = "count", !.by = order[1], !.desc = order[2], !.size = limit]
  BY DEF BeginReading
<1>2. /\ reader.pc = "idle" /\ complete' = Passing /\ disturbed' = {}
      /\ UNCHANGED <<table, rows, lastId, drawn>>
  BY DEF BeginReading
<1>3. order[1] \in {"id", "name"} /\ order[2] \in BOOLEAN
  <2>1. CASE table = "users"
    BY <2>1 DEF Orders
  <2>2. CASE table # "users"
    <3>1. order = <<"id", TRUE>>
      BY <2>2 DEF Orders
    <3>2. order[1] = "id" /\ order[2] = TRUE
      BY <3>1
    <3>3. QED
      BY <3>2
  <2>3. QED
    BY <2>1, <2>2
<1>4. /\ reader' \in Reader /\ reader'.pc = "count" /\ reader'.found = {}
      /\ reader'.page = 1 /\ reader'.size \in 1..2
  <2>1. NoReader \in Reader /\ NoReader.found = {} /\ NoReader.page = 1
    BY DEF NoReader, Reader
  <2> DEFINE b == order[1]
             d == order[2]
  <2>2. b \in {"id", "name"} /\ d \in BOOLEAN
        /\ reader' = [NoReader EXCEPT !.pc = "count", !.by = b, !.desc = d, !.size = limit]
    BY <1>1, <1>3
  <2> HIDE DEF b, d, NoReader
  <2>3. QED
    BY <2>1, <2>2 DEF Reader
<1>5. Passing' = Passing
  BY <1>2 DEF Passing
<1>6. ListTypeOK'
  BY <1>2, <1>4 DEF ListInv, ListTypeOK
<1>7. RestLiesBehind'
  <2>1. Reached' = 0
    BY <1>4, Pages DEF Reached
  <2>2. ASSUME NEW i PROVE Cardinality(Earlier(i)') >= 0
    <3>1. Earlier(i)' \in SUBSET Passing'
      BY DEF Earlier
    <3>2. IsFiniteSet(Passing')
      BY <1>5, PassingRows DEF ListInv
    <3>3. Cardinality(Earlier(i)') \in Nat
      BY <3>1, <3>2, FS_Subset, FS_CardinalityType
    <3>4. QED
      BY <3>3
  <2>3. QED
    BY <2>1, <2>2 DEF RestLiesBehind
<1>8. QED
  BY <1>2, <1>4, <1>5, <1>6, <1>7 DEF ListInv, CountStands, EndShowsAll

-----------------------------------------------------------------------------
(* Listings: steps of the writers.                                         *)

\* Rows that are added, or change without changing places, come before others
\* at most in addition.
LEMMA WriterStep ==
    ASSUME ListInv, ListTypeOK', UNCHANGED reader, complete' \subseteq complete, disturbed \subseteq disturbed',
           complete' # {} => Passing \subseteq Passing',
           complete' # {} /\ "key" \notin disturbed' =>
               \A i \in Passing : Key(i, reader.by)' = Key(i, reader.by),
           complete' # {} /\ "row" \notin disturbed' /\ reader.pc = "rows" => Passing' = Passing
    PROVE  ListInv'
<1>1. complete' \subseteq Passing'
  BY DEF ListInv
<1>2. CountStands'
  BY DEF ListInv, CountStands
<1>3. complete' # {} /\ Steady' => Steady
  BY DEF Steady, Unique
<1>4. ASSUME NEW i \in complete', Steady' PROVE Cardinality(Earlier(i)) <= Cardinality(Earlier(i)')
  <2>1. i \in Passing /\ Passing \subseteq Passing' /\ reader' = reader
        /\ \A j \in Passing : Key(j, reader.by)' = Key(j, reader.by)
    BY <1>4 DEF ListInv, Steady
  <2>2. \A j \in Earlier(i) : j \in Earlier(i)'
    BY <2>1 DEF Earlier, Before
  <2>3. Earlier(i)' \in SUBSET Passing' /\ IsFiniteSet(Passing')
    <3>1. IsFiniteSet(Passing)'
      BY PassingRows, PTL
    <3>2. QED
      BY <3>1 DEF Earlier
  <2>4. IsFiniteSet(Earlier(i)')
    BY <2>3, FS_Subset
  <2>5. Earlier(i) \in SUBSET (Earlier(i)')
    BY <2>2
  <2>6. QED
    BY <2>4, <2>5, FS_Subset
<1>5. Shown' = Shown /\ Reached' = Reached
  BY DEF Shown, Reached
<1>6. RestLiesBehind'
  <2> SUFFICES ASSUME Steady', reader.pc \in {"count", "rows", "roles"}, NEW i \in complete' \ Shown
               PROVE  Reached <= Cardinality(Earlier(i)')
    BY <1>5 DEF RestLiesBehind
  <2>1. i \in complete \ Shown /\ Steady
    BY <1>3
  <2>2. Reached <= Cardinality(Earlier(i))
    BY <2>1 DEF ListInv, RestLiesBehind
  <2>3. Reached \in Nat
    BY ReaderFields, Pages DEF Reached
  <2>4. Cardinality(Earlier(i)) \in Nat /\ Cardinality(Earlier(i)') \in Nat
    <3>1. Earlier(i) \in SUBSET Passing /\ IsFiniteSet(Passing)
      BY PassingRows DEF Earlier, ListInv
    <3>2. Earlier(i)' \in SUBSET Passing'
      BY DEF Earlier
    <3>3. IsFiniteSet(Passing)'
      BY PassingRows, PTL
    <3>4. IsFiniteSet(Earlier(i)) /\ IsFiniteSet(Earlier(i)')
      BY <3>1, <3>2, <3>3, FS_Subset
    <3>5. QED
      BY <3>4, FS_CardinalityType
  <2>5. Cardinality(Earlier(i)) <= Cardinality(Earlier(i)')
    BY <1>4
  <2>6. QED
    BY <2>2, <2>3, <2>4, <2>5
<1>7. EndShowsAll'
  BY <1>3, <1>5 DEF ListInv, EndShowsAll
<1>8. QED
  BY <1>1, <1>2, <1>6, <1>7 DEF ListInv

LEMMA DrawIdStep ==
    ASSUME ListInv, DrawId
    PROVE  ListInv'
<1>1. /\ lastId' = lastId + 1 /\ drawn' = drawn \cup {lastId + 1}
      /\ UNCHANGED <<table, rows, reader, complete, disturbed>>
  BY DEF DrawId
<1>2. ListTypeOK'
  BY <1>1 DEF ListInv, ListTypeOK
<1>3. Passing' = Passing /\ \A i \in Passing : Key(i, reader.by)' = Key(i, reader.by)
  BY <1>1 DEF Passing, Key
<1>4. QED
  BY <1>1, <1>2, <1>3, WriterStep

LEMMA InsertRowStep ==
    ASSUME ListInv, NEW i \in Ids, InsertRow(i)
    PROVE  ListInv'
<1>1. PICK row \in Row :
          /\ rows' = [j \in DOMAIN rows \cup {i} |-> IF j = i THEN row ELSE rows[j]]
          /\ disturbed' = disturbed \cup {x \in {"row"} : row.pass /\ reader.pc = "rows"}
  BY DEF InsertRow
<1>2. /\ i \in drawn /\ drawn' = drawn \ {i} /\ UNCHANGED <<table, lastId, reader, writes, complete>>
  BY DEF InsertRow
<1>3. i \in 1..lastId /\ i \notin DOMAIN rows
  BY <1>2 DEF ListInv, ListTypeOK
<1>4. /\ DOMAIN rows' = DOMAIN rows \cup {i} /\ rows'[i] = row
      /\ \A j \in DOMAIN rows : rows'[j] = rows[j]
  BY <1>1, <1>3
<1>5. ListTypeOK'
  <2>1. rows' \in [DOMAIN rows' -> Row] /\ DOMAIN rows' \subseteq 1..lastId
    BY <1>1, <1>3, <1>4 DEF ListInv, ListTypeOK
  <2>2. drawn' \subseteq (1..lastId) \ DOMAIN rows'
    BY <1>2, <1>4 DEF ListInv, ListTypeOK
  <2>3. disturbed' \subseteq {"row", "key"}
    BY <1>1 DEF ListInv, ListTypeOK
  <2>4. QED
    BY <1>2, <2>1, <2>2, <2>3 DEF ListInv, ListTypeOK
<1>6. Passing \subseteq Passing' /\ (~row.pass => Passing' = Passing)
  BY <1>3, <1>4 DEF Passing
<1>7. \A j \in Passing : Key(j, reader.by)' = Key(j, reader.by)
  BY <1>2, <1>4 DEF Passing, Key
<1>8. "row" \notin disturbed' /\ reader.pc = "rows" => ~row.pass
  BY <1>1
<1>9. QED
  BY <1>1, <1>2, <1>5, <1>6, <1>7, <1>8, WriterStep

LEMMA RemoveRowStep ==
    ASSUME ListInv, NEW i \in Ids, RemoveRow(i)
    PROVE  ListInv'
<1>1. /\ i \in DOMAIN rows /\ rows' = [j \in DOMAIN rows \ {i} |-> rows[j]]
      /\ complete' = IF rows[i].pass THEN {} ELSE complete
      /\ UNCHANGED <<table, lastId, drawn, reader, disturbed>>
  BY DEF RemoveRow
<1>2. DOMAIN rows' = DOMAIN rows \ {i} /\ \A j \in DOMAIN rows' : rows'[j] = rows[j]
  BY <1>1
<1>3. ListTypeOK'
  <2>1. rows' \in [DOMAIN rows' -> Row] /\ DOMAIN rows' \subseteq 1..lastId
    BY <1>1, <1>2 DEF ListInv, ListTypeOK
  <2>2. QED
    BY <1>1, <1>2, <2>1 DEF ListInv, ListTypeOK
<1>4. complete' # {} => Passing' = Passing
  BY <1>1, <1>2 DEF Passing
<1>5. complete' # {} => \A j \in Passing : Key(j, reader.by)' = Key(j, reader.by)
  BY <1>1, <1>2, <1>4 DEF Passing, Key
<1>6. complete' \subseteq complete
  BY <1>1
<1>7. QED
  BY <1>1, <1>3, <1>4, <1>5, <1>6, WriterStep

LEMMA UpdateRowStep ==
    ASSUME ListInv, NEW i \in Ids, UpdateRow(i)
    PROVE  ListInv'
<1>1. PICK row \in Row \ {rows[i]} :
          /\ rows' = [rows EXCEPT ![i] = row]
          /\ complete' = IF rows[i].pass /\ ~row.pass THEN {} ELSE complete
          /\ disturbed' = disturbed \cup {x \in {"row"} : row.pass /\ ~rows[i].pass /\ reader.pc = "rows"}
                                    \cup {x \in {"key"} : row.name # rows[i].name /\ reader.by = "name"}
  BY DEF UpdateRow
<1>2. i \in DOMAIN rows /\ UNCHANGED <<table, lastId, drawn, reader>>
  BY DEF UpdateRow
<1>3. /\ DOMAIN rows' = DOMAIN rows /\ rows'[i] = row
      /\ \A j \in DOMAIN rows \ {i} : rows'[j] = rows[j]
  BY <1>1, <1>2
<1>4. ListTypeOK'
  <2>1. rows' \in [DOMAIN rows' -> Row]
    BY <1>1, <1>2, <1>3 DEF ListInv, ListTypeOK
  <2>2. disturbed' \subseteq {"row", "key"}
    BY <1>1 DEF ListInv, ListTypeOK
  <2>3. QED
    BY <1>2, <1>3, <2>1, <2>2 DEF ListInv, ListTypeOK
<1>5. complete' # {} => ~(rows[i].pass /\ ~row.pass)
  BY <1>1
<1>6. complete' # {} => Passing \subseteq Passing'
  BY <1>3, <1>5 DEF Passing
<1>7. ASSUME "key" \notin disturbed' PROVE \A j \in Passing : Key(j, reader.by)' = Key(j, reader.by)
  <2>1. reader.by = "name" => row.name = rows[i].name
    BY <1>1, <1>7
  <2>2. reader.by \in {"id", "name"}
    BY ReaderFields
  <2>3. QED
    BY <1>2, <1>3, <2>1, <2>2 DEF Passing, Key
<1>8. ASSUME complete' # {}, "row" \notin disturbed', reader.pc = "rows" PROVE Passing' = Passing
  <2>1. ~(row.pass /\ ~rows[i].pass)
    BY <1>1, <1>8
  <2>2. row.pass \in BOOLEAN /\ rows[i].pass \in BOOLEAN
    BY <1>1, <1>2 DEF Row, ListInv, ListTypeOK
  <2>3. QED
    BY <1>3, <1>5, <1>8, <2>1, <2>2 DEF Passing
<1>9. complete' \subseteq complete /\ disturbed \subseteq disturbed'
  BY <1>1
<1>10. QED
  BY <1>2, <1>4, <1>6, <1>7, <1>8, <1>9, WriterStep

LEMMA ListInitInv == ListInit => ListInv
<1> SUFFICES ASSUME ListInit PROVE ListInv
  OBVIOUS
<1>1. PICK n \in 0..(MaxId - 1) : rows \in [1..n -> Row]
  BY DEF ListInit
<1>2. Cardinality(1..n) = n
  <2>1. n \in Nat
    OBVIOUS
  <2>2. Cardinality(1..n) = IF 1 > n THEN 0 ELSE n - 1 + 1
    BY <2>1, FS_Interval
  <2>3. QED
    BY <2>1, <2>2
<1>3. lastId = n /\ DOMAIN rows = 1..n
  BY <1>1, <1>2 DEF ListInit
<1>4. NoReader \in Reader /\ NoReader.pc = "idle" /\ NoReader.found = {}
  BY DEF NoReader, Reader
<1> HIDE DEF NoReader
<1>5. ListTypeOK
  BY <1>1, <1>3, <1>4 DEF ListInit, ListTypeOK
<1>6. QED
  BY <1>4, <1>5 DEF ListInit, ListInv, CountStands, RestLiesBehind, EndShowsAll

\* The invariant of a list that is read page after page while rows are written.
THEOREM ListingsInvariance == ListSpec => []ListInv
<1>1. ListInit => ListInv
  BY ListInitInv
<1>2. ASSUME ListInv, [ListNext]_listVars PROVE ListInv'
  <2>1. CASE UNCHANGED listVars
    <3>1. UNCHANGED <<table, rows, lastId, drawn, reader, complete, disturbed>>
      BY <2>1 DEF listVars
    <3>2. Passing' = Passing /\ \A j \in Passing : Key(j, reader.by)' = Key(j, reader.by)
      BY <3>1 DEF Passing, Key
    <3>3. ListTypeOK'
      BY <1>2, <3>1 DEF ListInv, ListTypeOK
    <3>4. QED
      BY <1>2, <3>1, <3>2, <3>3, WriterStep
  <2>2. QED
    BY <1>2, <2>1, BeginReadingStep, CountRowsStep, FetchRowsStep, LoadRolesStep, DrawIdStep,
       InsertRowStep, RemoveRowStep, UpdateRowStep DEF ListNext
<1>3. QED
  BY <1>1, <1>2, PTL DEF ListSpec

\* Who goes through all pages misses no row that passed from first to last,
\* whatever is written meanwhile.
THEOREM PagesMissNothing == ListSpec => []PagingMissesNothing
<1>1. ListInv => PagingMissesNothing
  <2> SUFFICES ASSUME ListInv, reader.pc = "done", disturbed = {},
                      \A i, j \in DOMAIN rows : i # j => Key(i, reader.by) # Key(j, reader.by)
               PROVE  complete \subseteq reader.seen
    BY DEF PagingMissesNothing
  <2>1. Steady
    BY DEF Steady, Unique, Passing
  <2>2. reader.found = {}
    BY DEF ListInv, ListTypeOK
  <2>3. QED
    BY <2>1, <2>2 DEF ListInv, EndShowsAll, Shown
<1>2. QED
  BY <1>1, ListingsInvariance, PTL

-----------------------------------------------------------------------------
(* DesktopClient: the inductive invariant.                                 *)

Pairs == [session : Nat, number : Nat]
Answers == {"none", "OK", "error"} \cup LoginRequiredCodes
Job == [op : {"none", "work", "logout", "login", "profile"}, pc : {"idle", "sent", "answered", "waiting"},
        pair : Pairs, retried : BOOLEAN, flight : Jobs \cup {"none"}, answer : Answers]
Flight == [pc : {"idle", "sent", "answered"}, pair : Pairs, answer : Answers]

\* Sessions are numbered as they begin, and no pair is of a session still to come.
ClientTypeOK ==
    /\ store \in [pair : Pairs, user : BOOLEAN] /\ store.pair.session <= logins
    /\ jobs \in [Jobs -> Job] /\ \A r \in Jobs : jobs[r].pair.session <= logins
    /\ flights \in [Jobs -> Flight] /\ \A o \in Jobs : flights[o].pair.session <= logins
    /\ rotations \in [1..MaxLogins -> Nat] /\ \A s \in 1..MaxLogins : s > logins => rotations[s] = 0
    /\ logins \in 0..MaxLogins /\ live \subseteq 1..logins /\ enabled \in BOOLEAN

\* While the account is disabled every session has met that; tokens that have
\* expired were issued.
ServerInv ==
    /\ ~enabled => live \subseteq suspended
    /\ \A p \in expired : \E s \in 1..MaxLogins : \E n \in 0..rotations[s] : p = Pair(s, n)

\* The login whose answer is on its way: nothing else knows its session.
NewSession(q) ==
    /\ q.answer = "OK" /\ q.pair.session # 0 /\ q.pair.number = 0 /\ store.pair.session # q.pair.session
    /\ q.pair.session \in live => rotations[q.pair.session] = 0
    /\ \A o \in Jobs : flights[o].pc # "idle" => flights[o].pair.session # q.pair.session

\* One login at a time, before a user is known; a known user has a pair.
SignInInv ==
    /\ store.user => store.pair # NoPair
    /\ \A r, q \in Jobs : jobs[r].op \in {"login", "profile"} /\ jobs[q].op \in {"login", "profile"} => r = q
    /\ \A r \in Jobs :
           /\ jobs[r].op = "none" => jobs[r].pc = "idle"
           /\ jobs[r].op = "login" =>
                  /\ ~store.user /\ ~jobs[r].retried /\ jobs[r].pc \in {"sent", "answered"}
                  /\ jobs[r].pc = "answered" => NewSession(jobs[r])

Over(s) == s \notin live \/ s \in suspended

\* An answer that means a login: its token had expired, which no retried token
\* has, or its session is over.
Truthful(q) ==
    /\ q.retried => q.pair \notin expired
    /\ q.pc = "answered" /\ q.op # "login" /\ q.answer \in LoginRequiredCodes =>
           IF q.answer = "ACCESS_TOKEN_EXPIRED" THEN q.pair \in expired ELSE Over(q.pair.session)

\* The n-th pair of a session is the one that can be refreshed.
Current(s, n) == s \notin live \/ s \in lost \/ rotations[s] = n

Brings(f) == f.pc = "answered" /\ f.answer = "OK"

\* A refresh has the current pair, or brings it, or fails because the session is over.
Refreshing(f) ==
    /\ f.pc = "sent" => Current(f.pair.session, f.pair.number)
    /\ Brings(f) => /\ Current(f.pair.session, f.pair.number + 1)
                    /\ Pair(f.pair.session, f.pair.number + 1) \notin expired
    /\ f.pc = "answered" /\ f.answer \in LoginRequiredCodes =>
           Over(f.pair.session) \/ f.pair.session \in lost

\* The pair that is stored is current, or about to be replaced by the one that is.
StoredPair ==
    \/ Current(store.pair.session, store.pair.number)
    \/ \E o \in Jobs : Brings(flights[o]) /\ flights[o].pair = store.pair

OneFlight == \A o, p \in Jobs : flights[o].pc # "idle" /\ flights[p].pc # "idle" => o = p

RefreshInv == OneFlight /\ (\A o \in Jobs : Refreshing(flights[o])) /\ StoredPair

AnswerInv == \A r \in Jobs : Truthful(jobs[r])

ClientInv == ClientTypeOK /\ ServerInv /\ SignInInv /\ AnswerInv /\ RefreshInv

-----------------------------------------------------------------------------

\* What the client is told: handlers have no code that means a login.
LEMMA ToldCodes ==
    /\ HandlerAnswers \subseteq {"OK", "error"}
    /\ Told("ACCESS_TOKEN_EXPIRED") = "ACCESS_TOKEN_EXPIRED"
    /\ Told(SessionCode["Expired"]) = "ACCESS_TOKEN_EXPIRED"
    /\ Told(SessionCode["SessionInvalid"]) = "SESSION_INVALID"
    /\ Told(SessionCode["Store"]) = "error"
    /\ Told(AccessCode["UserDisabled"]) = "USER_DISABLED"
    /\ Told(RefreshCode["SessionInvalid"]) = "SESSION_INVALID"
    /\ Told(RefreshCode["Invalid"]) = "REFRESH_TOKEN_INVALID"
    /\ Told(RefreshCode["Store"]) = "error"
    /\ Told(IdentityCode["Disabled"]) = "USER_DISABLED"
    /\ Told(IdentityCode["Database"]) = "error"
<1>1. \A code \in HandlerCodes : code \notin LoginRequiredCodes
  BY DEF HandlerCodes, AccountCodes, RoleCodes, DeptCodes, FileCodes, DictionaryCodes, AuditCodes,
         AnalysisCodes, StorageCodes, MenuCodes, AuthorizationCodes, LoginRequiredCodes
<1>2. HandlerAnswers \subseteq {"OK", "error"}
  BY <1>1 DEF HandlerAnswers, Told
<1>3. QED
  BY <1>2 DEF Told, SessionCode, AccessCode, RefreshCode, IdentityCode, LoginRequiredCodes

LEMMA ClientInitInv == ClientInit => ClientInv
<1> SUFFICES ASSUME ClientInit PROVE ClientInv
  OBVIOUS
<1>1. NoPair \in Pairs /\ NoPair.session = 0 /\ Cleared \in [pair : Pairs, user : BOOLEAN]
      /\ Cleared.pair = NoPair /\ ~Cleared.user
  BY DEF NoPair, Pair, Pairs, Cleared
<1>2. /\ NoJob \in Job /\ NoJob.op = "none" /\ NoJob.pc = "idle" /\ NoJob.pair = NoPair /\ ~NoJob.retried
      /\ NoFlight \in Flight /\ NoFlight.pc = "idle" /\ NoFlight.pair = NoPair
  BY <1>1 DEF NoJob, NoFlight, Job, Flight, Answers
<1> HIDE DEF NoJob, NoFlight, Cleared, NoPair
<1>3. ClientTypeOK
  BY <1>1, <1>2, ClientAssumption DEF ClientInit, ClientTypeOK
<1>4. ServerInv /\ SignInInv /\ AnswerInv
  BY <1>1, <1>2 DEF ClientInit, ServerInv, SignInInv, AnswerInv, Truthful
<1>5. RefreshInv
  BY <1>1, <1>2 DEF ClientInit, RefreshInv, OneFlight, Refreshing, StoredPair, Current, Brings
<1>6. QED
  BY <1>3, <1>4, <1>5 DEF ClientInv

-----------------------------------------------------------------------------

\* What one record holds, by the invariant.
LEMMA OneJob ==
    ASSUME ClientInv, NEW r \in Jobs
    PROVE  /\ jobs[r] \in Job /\ jobs[r].pair.session <= logins /\ Truthful(jobs[r])
           /\ flights[r] \in Flight /\ flights[r].pair.session <= logins /\ Refreshing(flights[r])
           /\ jobs[r].pair \in Pairs /\ flights[r].pair \in Pairs /\ store.pair \in Pairs
           /\ logins \in Nat
  BY ClientAssumption DEF ClientInv, ClientTypeOK, AnswerInv, RefreshInv, Job, Flight

\* Sessions do not come back, and histories grow.
Forward == live' \cap (1..logins) \subseteq live /\ live' \subseteq 1..logins' /\ suspended \subseteq suspended'
           /\ lost \subseteq lost' /\ expired \subseteq expired'

LEMMA OverStays ==
    ASSUME Forward, logins \in Nat, NEW s \in Nat, s <= logins
    PROVE  /\ s \notin live => s \notin live'
           /\ Over(s) => Over(s)'
<1>1. s \in live' => s \in 1..logins
  BY DEF Forward
<1>2. QED
  BY <1>1 DEF Forward, Over

\* A request becomes q, and nothing else happens but that sessions end.
LEMMA JobStep ==
    ASSUME ClientInv, NEW r \in Jobs, NEW q \in Job, jobs' = [jobs EXCEPT ![r] = q],
           q.pair.session <= logins, live' \subseteq live,
           UNCHANGED <<store, flights, rotations, enabled, expired, logins, lost, suspended>>,
           q.op = jobs[r].op \/ q.op = "none" \/ (q.op \in {"work", "logout"})
                \/ (q.op = "login" /\ ~store.user /\ \A p \in Jobs : jobs[p].op \notin {"login", "profile"}),
           q.op = "none" => q.pc = "idle", q.op = "login" => q.pc = "sent" /\ ~q.retried,
           q.retried => q.pair \notin expired,
           q.pc = "answered" /\ q.answer \in LoginRequiredCodes =>
               IF q.answer = "ACCESS_TOKEN_EXPIRED" THEN q.pair \in expired ELSE Over(q.pair.session)
    PROVE  ClientInv'
<1>1. jobs'[r] = q /\ \A p \in Jobs \ {r} : jobs'[p] = jobs[p]
  BY DEF ClientInv, ClientTypeOK
<1>2. Forward
  BY DEF Forward, ClientInv, ClientTypeOK
<1>3. ClientTypeOK'
  BY <1>1 DEF ClientInv, ClientTypeOK
<1>4. ServerInv'
  BY DEF ClientInv, ServerInv
<1>5. SignInInv'
  <2>1. store'.user => store'.pair # NoPair
    BY DEF ClientInv, SignInInv
  <2>2. ASSUME NEW p \in Jobs, NEW s \in Jobs, jobs'[p].op \in {"login", "profile"}, jobs'[s].op \in {"login", "profile"}
        PROVE  p = s
    BY <1>1, <2>2 DEF ClientInv, SignInInv
  <2>3. ASSUME NEW p \in Jobs
        PROVE  /\ jobs'[p].op = "none" => jobs'[p].pc = "idle"
               /\ jobs'[p].op = "login" =>
                      /\ ~store'.user /\ ~jobs'[p].retried /\ jobs'[p].pc \in {"sent", "answered"}
                      /\ jobs'[p].pc = "answered" => NewSession(jobs[p])'
    <3>1. CASE p = r
      BY <1>1, <3>1 DEF ClientInv, SignInInv
    <3>2. CASE p # r
      BY <1>1, <3>2 DEF ClientInv, SignInInv, NewSession
    <3>3. QED
      BY <3>1, <3>2
  <2>4. QED
    BY <2>1, <2>2, <2>3 DEF SignInInv
<1>6. AnswerInv'
  <2> SUFFICES ASSUME NEW p \in Jobs PROVE Truthful(jobs[p])'
    BY DEF AnswerInv
  <2>1. CASE p = r
    BY <1>1, <2>1, OneJob DEF Truthful, Over
  <2>2. CASE p # r
    BY <1>1, <2>2, OneJob DEF Truthful, Over
  <2>3. QED
    BY <2>1, <2>2
<1>7. RefreshInv'
  BY DEF ClientInv, RefreshInv, OneFlight, Refreshing, Brings, Current, Over, StoredPair
<1>8. QED
  BY <1>3, <1>4, <1>5, <1>6, <1>7 DEF ClientInv

LEMMA SendInv ==
    ASSUME ClientInv, NEW r \in Jobs, Send(r)
    PROVE  ClientInv'
<1>1. PICK op \in {"work", "logout", "login"} :
          /\ IF op = "login"
             THEN ~Signed /\ \A q \in Jobs : jobs[q].op \notin {"login", "profile"}
             ELSE Signed
          /\ jobs' = [jobs EXCEPT ![r] = [NoJob EXCEPT !.op = op, !.pc = "sent",
                 !.pair = IF op = "login" THEN NoPair ELSE store.pair]]
  BY DEF Send
<1> DEFINE q == [NoJob EXCEPT !.op = op, !.pc = "sent", !.pair = IF op = "login" THEN NoPair ELSE store.pair]
<1>2. /\ NoPair \in Pairs /\ NoPair.session = 0 /\ store.pair \in Pairs /\ store.pair.session <= logins
      /\ logins \in Nat /\ live \subseteq 1..logins
  BY ClientAssumption DEF NoPair, Pair, Pairs, ClientInv, ClientTypeOK
<1>3. q \in Job /\ q.op = op /\ q.pc = "sent" /\ ~q.retried /\ q.pair.session <= logins
  <2> DEFINE p == IF op = "login" THEN NoPair ELSE store.pair
  <2>1. p \in Pairs /\ p.session <= logins
    BY <1>2
  <2>2. NoJob \in Job /\ ~NoJob.retried
    BY <1>2 DEF NoJob, Job, Answers
  <2>3. q = [NoJob EXCEPT !.op = op, !.pc = "sent", !.pair = p]
    OBVIOUS
  <2> HIDE DEF q, p
  <2>4. QED
    BY <2>1, <2>2, <2>3 DEF Job
<1>4. UNCHANGED <<store, flights, rotations, live, enabled, expired, logins, lost, suspended>>
  BY DEF Send
<1>5. op = "login" => ~store.user
  BY <1>1 DEF Signed, ClientInv, SignInInv
<1>6. jobs' = [jobs EXCEPT ![r] = q]
  BY <1>1
<1> HIDE DEF q
<1>7. QED
  BY <1>1, <1>3, <1>4, <1>5, <1>6, JobStep

LEMMA ServeInv ==
    ASSUME ClientInv, NEW r \in Jobs, Serve(r)
    PROVE  ClientInv'
<1> DEFINE job == jobs[r]
<1>1. job \in Job /\ job.pair \in Pairs /\ job.pair.session <= logins /\ Truthful(job) /\ logins \in Nat
  BY OneJob
<1>2. /\ job.pc = "sent" /\ job.op # "login" /\ job.op # "none"
      /\ UNCHANGED <<store, flights, rotations, enabled, expired, logins, lost, suspended>>
  BY DEF Serve, ClientInv, SignInInv
<1>3. \E a \in Answers :
          /\ jobs' = [jobs EXCEPT ![r].pc = "answered", ![r].answer = a]
          /\ live' \subseteq live
          /\ a \in LoginRequiredCodes =>
                 IF a = "ACCESS_TOKEN_EXPIRED" THEN job.pair \in expired ELSE Over(job.pair.session)
  <2>1. PICK code \in AuthCodes(job.pair) :
            IF code # "OK"
            THEN /\ jobs' = [jobs EXCEPT ![r].pc = "answered", ![r].answer = Told(code)]
                 /\ live' = live
            ELSE IF job.op = "logout"
            THEN \/ /\ jobs' = [jobs EXCEPT ![r].pc = "answered", ![r].answer = "OK"]
                    /\ live' = live \ {job.pair.session}
                 \/ /\ jobs' = [jobs EXCEPT ![r].pc = "answered", ![r].answer = Told(SessionCode["Store"])]
                    /\ live' \in {live, live \ {job.pair.session}}
            ELSE /\ \E c \in HandlerAnswers :
                        jobs' = [jobs EXCEPT ![r].pc = "answered", ![r].answer = c]
                 /\ live' = live
    BY DEF Serve
  <2>2. {"OK", "error", "ACCESS_TOKEN_EXPIRED", "SESSION_INVALID", "USER_DISABLED"} \subseteq Answers
        /\ "OK" \notin LoginRequiredCodes /\ "error" \notin LoginRequiredCodes
    BY DEF Answers, LoginRequiredCodes
  <2>3. CASE code # "OK"
    <3>1. jobs' = [jobs EXCEPT ![r].pc = "answered", ![r].answer = Told(code)] /\ live' = live
      BY <2>1, <2>3
    <3>2. CASE job.pair \in expired
      <4>1. Told(code) = "ACCESS_TOKEN_EXPIRED"
        BY <2>1, <3>2, ToldCodes DEF AuthCodes
      <4>2. QED
        BY <2>2, <3>1, <3>2, <4>1
    <3>3. CASE job.pair \notin expired /\ job.pair.session \notin live
      <4>1. Told(code) \in {"SESSION_INVALID", "error"}
        BY <2>1, <3>3, ToldCodes DEF AuthCodes
      <4>2. QED
        BY <2>2, <3>1, <3>3, <4>1 DEF Over
    <3>4. CASE job.pair \notin expired /\ job.pair.session \in live
      <4>1. Told(code) = "error" \/ (Told(code) = "USER_DISABLED" /\ ~enabled)
        BY <2>1, <2>3, <3>4, ToldCodes DEF AuthCodes
      <4>2. ~enabled => Over(job.pair.session)
        BY <3>4 DEF ClientInv, ServerInv, Over
      <4>3. QED
        BY <2>2, <3>1, <4>1, <4>2
    <3>5. QED
      BY <3>2, <3>3, <3>4
  <2>4. CASE code = "OK"
    BY <2>1, <2>2, <2>4, ToldCodes
  <2>5. QED
    BY <2>3, <2>4
<1>4. PICK a \in Answers :
          /\ jobs' = [jobs EXCEPT ![r].pc = "answered", ![r].answer = a]
          /\ live' \subseteq live
          /\ a \in LoginRequiredCodes =>
                 IF a = "ACCESS_TOKEN_EXPIRED" THEN job.pair \in expired ELSE Over(job.pair.session)
  BY <1>3
<1> DEFINE q == [job EXCEPT !.pc = "answered", !.answer = a]
<1>5. /\ q \in Job /\ q.pc = "answered" /\ q.answer = a /\ q.op = job.op /\ q.pair = job.pair
      /\ q.retried = job.retried
  BY <1>1 DEF Job
<1>6. jobs' = [jobs EXCEPT ![r] = q]
  BY <1>4 DEF ClientInv, ClientTypeOK
<1>7. q.retried => q.pair \notin expired
  BY <1>1, <1>5 DEF Truthful
<1> HIDE DEF q
<1>8. QED
  BY <1>1, <1>2, <1>4, <1>5, <1>6, <1>7, JobStep

\* The session of a login is new to everything.
LEMMA ServeLoginInv ==
    ASSUME ClientInv, NEW r \in Jobs, ServeLogin(r)
    PROVE  ClientInv'
<1> DEFINE n == logins + 1
           q == [jobs[r] EXCEPT !.pc = "answered", !.answer = "OK", !.pair = Pair(n, 0)]
<1>1. /\ jobs[r].pc = "sent" /\ jobs[r].op = "login" /\ enabled /\ logins < MaxLogins
      /\ logins' = n /\ live' = live \cup {n}
      /\ UNCHANGED <<store, flights, rotations, enabled, expired, lost, suspended>>
  BY DEF ServeLogin
<1>2. /\ jobs[r] \in Job /\ logins \in Nat /\ n \in 1..MaxLogins /\ live \subseteq 1..logins
      /\ ~store.user /\ ~jobs[r].retried
  BY <1>1, ClientAssumption DEF ClientInv, ClientTypeOK, SignInInv
<1>3. Pair(n, 0) \in Pairs /\ Pair(n, 0).session = n /\ Pair(n, 0).number = 0
  BY <1>2 DEF Pair, Pairs
<1>4. /\ q \in Job /\ q.op = "login" /\ q.pc = "answered" /\ q.answer = "OK" /\ ~q.retried
      /\ q.pair = Pair(n, 0)
  BY <1>1, <1>2, <1>3 DEF Job, Answers
<1>5. jobs' = [jobs EXCEPT ![r] = q]
  BY DEF ServeLogin, ClientInv, ClientTypeOK
<1> HIDE DEF q, n
<1>6. jobs'[r] = q /\ \A p \in Jobs \ {r} : jobs'[p] = jobs[p]
  BY <1>5 DEF ClientInv, ClientTypeOK
<1>7. Forward
  BY <1>1, <1>2 DEF Forward, n
<1>8. ClientTypeOK'
  <2>1. /\ jobs' \in [Jobs -> Job] /\ \A p \in Jobs : jobs'[p].pair.session <= n
    BY <1>2, <1>3, <1>4, <1>5, <1>6 DEF ClientInv, ClientTypeOK, n, Job, Pairs
  <2>2. \A o \in Jobs : flights[o].pair.session <= n
    BY <1>2, OneJob DEF Pairs, n
  <2>3. store.pair.session <= n
    BY <1>2 DEF ClientInv, ClientTypeOK, Pairs, n
  <2>4. \A s \in 1..MaxLogins : s > n => rotations[s] = 0
    BY <1>2 DEF ClientInv, ClientTypeOK, n
  <2>5. n \in 0..MaxLogins /\ live' \subseteq 1..n
    <3>1. 1..logins \subseteq 1..n /\ n \in 1..n
      BY <1>2 DEF n
    <3>2. n \in 0..MaxLogins
      BY <1>2, ClientAssumption
    <3>3. QED
      BY <1>1, <1>2, <3>1, <3>2
  <2>6. QED
    BY <1>1, <2>1, <2>2, <2>3, <2>4, <2>5 DEF ClientInv, ClientTypeOK
<1>9. ServerInv'
  BY <1>1 DEF ClientInv, ServerInv
<1>10. SignInInv'
  <2>1. NewSession(jobs[r])'
    <3>1. rotations[n] = 0
      BY <1>2 DEF ClientInv, ClientTypeOK, n
    <3>2. store.pair.session # n /\ \A o \in Jobs : flights[o].pair.session # n
      BY <1>2, OneJob DEF ClientInv, ClientTypeOK, Pairs, n
    <3>3. /\ jobs'[r].answer = "OK" /\ jobs'[r].pair.session = n /\ jobs'[r].pair.number = 0 /\ n # 0
      BY <1>2, <1>3, <1>4, <1>6 DEF n
    <3>4. QED
      BY <1>1, <3>1, <3>2, <3>3 DEF NewSession
  <2>2. \A p \in Jobs : jobs'[p].op = jobs[p].op
    BY <1>1, <1>4, <1>6
  <2>3. ASSUME NEW p \in Jobs, p # r
        PROVE  jobs[p].op # "login"
    BY <1>1, <2>3 DEF ClientInv, SignInInv
  <2>4. ASSUME NEW p \in Jobs
        PROVE  /\ jobs'[p].op = "none" => jobs'[p].pc = "idle"
               /\ jobs'[p].op = "login" =>
                      /\ ~store'.user /\ ~jobs'[p].retried /\ jobs'[p].pc \in {"sent", "answered"}
                      /\ jobs'[p].pc = "answered" => NewSession(jobs[p])'
    <3>1. CASE p = r
      BY <1>1, <1>2, <1>4, <1>6, <2>1, <3>1
    <3>2. CASE p # r
      BY <1>6, <2>2, <2>3, <3>2 DEF ClientInv, SignInInv
    <3>3. QED
      BY <3>1, <3>2
  <2>5. QED
    BY <1>1, <2>2, <2>4 DEF ClientInv, SignInInv
<1>11. AnswerInv'
  <2> SUFFICES ASSUME NEW p \in Jobs PROVE Truthful(jobs[p])'
    BY DEF AnswerInv
  <2>1. CASE p = r
    BY <1>4, <1>6, <2>1 DEF Truthful
  <2>2. CASE p # r
    <3>1. Over(jobs[p].pair.session) => Over(jobs[p].pair.session)'
      BY <1>1, <1>6, <1>7, <2>2, OneJob, OverStays DEF Pairs, Over
    <3>2. QED
      BY <1>1, <1>6, <2>2, <3>1, OneJob DEF Truthful, Over
  <2>3. QED
    BY <2>1, <2>2
<1>12. RefreshInv'
  <2>1. ASSUME NEW p \in Pairs, p.session <= logins, NEW m
        PROVE  /\ Over(p.session)' <=> Over(p.session)
               /\ Current(p.session, m)' <=> Current(p.session, m)
    BY <1>1, <1>2, <2>1 DEF Over, Current, n, Pairs
  <2>2. ASSUME NEW o \in Jobs PROVE Refreshing(flights[o])'
    <3>1. /\ flights' = flights /\ expired' = expired /\ lost' = lost
          /\ flights[o].pair \in Pairs /\ flights[o].pair.session <= logins /\ Refreshing(flights[o])
      BY <1>1, OneJob
    <3>2. QED
      BY <1>1, <2>1, <3>1 DEF Refreshing, Brings
  <2>3. StoredPair'
    <3>1. store.pair \in Pairs /\ store.pair.session <= logins
      BY OneJob DEF ClientInv, ClientTypeOK
    <3>2. StoredPair /\ store' = store /\ flights' = flights
      BY <1>1 DEF ClientInv, RefreshInv
    <3>3. Current(store.pair.session, store.pair.number)' <=> Current(store.pair.session, store.pair.number)
      BY <2>1, <3>1, <3>2
    <3>4. QED
      BY <3>2, <3>3 DEF StoredPair, Brings
  <2>4. QED
    BY <1>1, <2>2, <2>3 DEF ClientInv, RefreshInv, OneFlight
<1>13. QED
  BY <1>8, <1>9, <1>10, <1>11, <1>12 DEF ClientInv

\* How a refresh is answered: it tells that the session is over, or that it
\* failed, or the session goes on with the next pair.
LEMMA RefreshOutcome ==
    ASSUME ClientInv, NEW o \in Jobs, ServeRefresh(o), NEW s, s = flights[o].pair.session
    PROVE  /\ live' \subseteq live
           /\ \E a \in Answers :
                  /\ flights' = [flights EXCEPT ![o].pc = "answered", ![o].answer = a]
                  /\ \/ /\ rotations' = rotations /\ lost' = lost /\ a # "OK"
                        /\ a \in LoginRequiredCodes => Over(s) \/ s \in lost
                     \/ /\ s \in live /\ rotations[s] = flights[o].pair.number /\ live' = live
                        /\ rotations' = [rotations EXCEPT ![s] = flights[o].pair.number + 1]
                        /\ (a = "OK" /\ lost' = lost) \/ (a = "error" /\ lost' = lost \cup {s})
<1> DEFINE n == flights[o].pair.number
           Answered(a) == flights' = [flights EXCEPT ![o].pc = "answered", ![o].answer = a]
<1>1. /\ flights[o].pc = "sent" /\ s \in Nat /\ n \in Nat /\ Current(s, n) /\ 0 \notin live
  BY OneJob DEF ServeRefresh, Refreshing, Pairs, ClientInv, ClientTypeOK
<1>2. {"OK", "error", "SESSION_INVALID", "REFRESH_TOKEN_INVALID", "USER_DISABLED"} \subseteq Answers
      /\ "OK" \notin LoginRequiredCodes /\ "error" \notin LoginRequiredCodes
      /\ "OK" # "error" /\ "OK" # "SESSION_INVALID" /\ "OK" # "REFRESH_TOKEN_INVALID" /\ "OK" # "USER_DISABLED"
  BY DEF Answers, LoginRequiredCodes
<1>3. CASE s # 0 /\ s \notin live
  <2>1. Answered("SESSION_INVALID") /\ UNCHANGED <<live, rotations, lost>>
    BY <1>3, ToldCodes DEF ServeRefresh
  <2>2. QED
    BY <1>2, <1>3, <2>1 DEF Over
<1>4. CASE s = 0 \/ (s \in live /\ rotations[s] # n)
  <2>1. Answered("REFRESH_TOKEN_INVALID") /\ UNCHANGED <<live, rotations, lost>>
    BY <1>1, <1>4, ToldCodes DEF ServeRefresh
  <2>2. QED
    BY <1>1, <1>2, <1>4, <2>1 DEF Over, Current
<1>5. CASE s \in live /\ rotations[s] = n /\ ~enabled
  <2>1. Answered("USER_DISABLED") /\ live' \subseteq live /\ UNCHANGED <<rotations, lost>>
    BY <1>1, <1>5, ToldCodes DEF ServeRefresh
  <2>2. QED
    BY <1>2, <1>5, <2>1 DEF Over, ClientInv, ServerInv
<1>6. CASE s \in live /\ rotations[s] = n /\ enabled
  <2>1. /\ live' = live
        /\ \/ Answered("OK") /\ rotations' = [rotations EXCEPT ![s] = @ + 1] /\ lost' = lost
           \/ Answered("error") /\ UNCHANGED <<rotations, lost>>
           \/ Answered("error") /\ rotations' = [rotations EXCEPT ![s] = @ + 1] /\ lost' = lost \cup {s}
    BY <1>1, <1>6, ToldCodes DEF ServeRefresh
  <2>2. [rotations EXCEPT ![s] = @ + 1] = [rotations EXCEPT ![s] = n + 1]
    BY <1>6
  <2>3. QED
    BY <1>2, <1>6, <2>1, <2>2
<1>7. QED
  BY <1>1, <1>3, <1>4, <1>5, <1>6 DEF ClientInv, ClientTypeOK

LEMMA ServeRefreshInv ==
    ASSUME ClientInv, NEW o \in Jobs, ServeRefresh(o)
    PROVE  ClientInv'
<1>0. PICK s \in Nat, n \in Nat : flights[o].pair.session = s /\ flights[o].pair.number = n
  BY OneJob DEF Pairs
<1>1. PICK a \in Answers :
          /\ flights' = [flights EXCEPT ![o].pc = "answered", ![o].answer = a]
          /\ \/ /\ rotations' = rotations /\ lost' = lost /\ a # "OK"
                /\ a \in LoginRequiredCodes => Over(s) \/ s \in lost
             \/ /\ s \in live /\ rotations[s] = n /\ live' = live
                /\ rotations' = [rotations EXCEPT ![s] = n + 1]
                /\ (a = "OK" /\ lost' = lost) \/ (a = "error" /\ lost' = lost \cup {s})
  BY <1>0, RefreshOutcome
<1>2. /\ live' \subseteq live /\ flights[o].pc = "sent"
      /\ UNCHANGED <<store, jobs, enabled, expired, logins, suspended>>
  BY RefreshOutcome DEF ServeRefresh
<1> DEFINE f == [flights[o] EXCEPT !.pc = "answered", !.answer = a]
<1>3. /\ flights[o] \in Flight /\ s \in Nat /\ n \in Nat /\ s <= logins /\ logins \in Nat
      /\ Refreshing(flights[o]) /\ live \subseteq 1..logins /\ logins <= MaxLogins
      /\ rotations \in [1..MaxLogins -> Nat] /\ flights[o].pair = Pair(s, n)
      /\ flights[o].pair.session = s /\ flights[o].pair.number = n
  BY <1>0, OneJob, ClientAssumption DEF Pairs, Pair, ClientInv, ClientTypeOK
<1>4. f \in Flight /\ f.pc = "answered" /\ f.answer = a /\ f.pair = flights[o].pair
  BY <1>3 DEF Flight
<1>5. flights' = [flights EXCEPT ![o] = f]
  BY <1>1 DEF ClientInv, ClientTypeOK
<1> HIDE DEF f
<1>6. flights'[o] = f /\ \A p \in Jobs \ {o} : flights'[p] = flights[p] /\ flights[p].pc = "idle"
  BY <1>2, <1>5 DEF ClientInv, ClientTypeOK, RefreshInv, OneFlight
<1>7. Forward
  BY <1>1, <1>2, <1>3 DEF Forward
<1>8. \A t \in 1..MaxLogins : rotations'[t] \in Nat /\ rotations[t] <= rotations'[t]
                              /\ (t # s => rotations'[t] = rotations[t])
  <2>1. CASE rotations' = rotations
    BY <1>3, <2>1
  <2>2. CASE s \in live /\ rotations[s] = n /\ rotations' = [rotations EXCEPT ![s] = n + 1]
    <3>1. ASSUME NEW t \in 1..MaxLogins, t # s
          PROVE  rotations'[t] = rotations[t]
      BY <1>3, <2>2, <3>1
    <3>2. s \in 1..MaxLogins => rotations'[s] = n + 1 /\ rotations[s] = n
      BY <1>3, <2>2
    <3>3. QED
      BY <1>3, <3>1, <3>2
  <2>3. QED
    BY <1>1, <2>1, <2>2
<1>9. ClientTypeOK'
  <2>1. flights' \in [Jobs -> Flight] /\ \A p \in Jobs : flights'[p].pair.session <= logins
    BY <1>4, <1>5, <1>6 DEF ClientInv, ClientTypeOK
  <2>2. rotations' \in [1..MaxLogins -> Nat]
    BY <1>1, <1>3
  <2>3. \A t \in 1..MaxLogins : t > logins => rotations'[t] = 0
    BY <1>3, <1>8 DEF ClientInv, ClientTypeOK
  <2>4. QED
    BY <1>2, <2>1, <2>2, <2>3 DEF ClientInv, ClientTypeOK
<1>10. ServerInv'
  <2>1. \A p \in expired : \E t \in 1..MaxLogins : \E m \in 0..rotations'[t] : p = Pair(t, m)
    <3> SUFFICES ASSUME NEW p \in expired
                 PROVE  \E t \in 1..MaxLogins : \E m \in 0..rotations'[t] : p = Pair(t, m)
      OBVIOUS
    <3>1. PICK t \in 1..MaxLogins : \E m \in 0..rotations[t] : p = Pair(t, m)
      BY DEF ClientInv, ServerInv
    <3>2. 0..rotations[t] \subseteq 0..rotations'[t]
      BY <1>3, <1>8
    <3>3. QED
      BY <3>1, <3>2
  <2>2. QED
    BY <1>2, <2>1 DEF ClientInv, ServerInv
<1>11. SignInInv'
  <2>1. ASSUME NEW p \in Jobs, NewSession(jobs[p]), jobs[p].pair \in Pairs, jobs[p].pair.session <= logins
        PROVE  NewSession(jobs[p])'
    <3>1. jobs[p].pair.session # s /\ jobs[p].pair.session \in 1..MaxLogins
      <4>1. jobs[p].pair.session # s /\ jobs[p].pair.session # 0
        BY <1>2, <1>3, <2>1 DEF NewSession
      <4>2. MaxLogins \in Nat /\ logins \in Nat /\ logins <= MaxLogins /\ jobs[p].pair.session \in Nat
        BY <1>3, <2>1, ClientAssumption DEF Pairs
      <4>3. QED
        BY <2>1, <4>1, <4>2
    <3>2. \A q \in Jobs : flights'[q].pc # "idle" => flights'[q].pair.session # jobs[p].pair.session
      BY <1>3, <1>4, <1>6, <3>1 DEF NewSession
    <3>3. rotations'[jobs[p].pair.session] = rotations[jobs[p].pair.session]
      BY <1>8, <3>1
    <3>4. QED
      BY <1>2, <2>1, <3>2, <3>3 DEF NewSession
  <2>2. QED
    BY <1>2, <2>1, OneJob DEF ClientInv, SignInInv
<1>12. AnswerInv'
  <2> SUFFICES ASSUME NEW p \in Jobs PROVE Truthful(jobs[p])'
    BY DEF AnswerInv
  <2>1. QED
    BY <1>2, OneJob DEF Truthful, Over
<1>13. Refreshing(flights[o])'
  <2>1. a = "OK" => Current(s, n + 1)'
    <3> SUFFICES ASSUME a = "OK", s \in live PROVE rotations'[s] = n + 1
      BY <1>2 DEF Current
    <3>1. s \in 1..MaxLogins
      BY <1>3, ClientAssumption
    <3>2. QED
      BY <1>1, <1>3, <3>1
  <2>2. a = "OK" => Pair(s, n + 1) \notin expired
    <3> SUFFICES ASSUME a = "OK", Pair(s, n + 1) \in expired PROVE FALSE
      OBVIOUS
    <3>1. PICK t \in 1..MaxLogins : \E m \in 0..rotations[t] : Pair(s, n + 1) = Pair(t, m)
      BY DEF ClientInv, ServerInv
    <3>2. t = s /\ n + 1 \in 0..rotations[t]
      BY <3>1 DEF Pair
    <3>3. rotations[s] = n /\ n \in Nat
      BY <1>1, <1>3
    <3>4. QED
      BY <3>2, <3>3
  <2>3. a \in LoginRequiredCodes => Over(s)' \/ s \in lost'
    <3>1. "OK" \notin LoginRequiredCodes /\ "error" \notin LoginRequiredCodes
      BY DEF LoginRequiredCodes
    <3>2. QED
      BY <1>1, <1>2, <3>1 DEF Over
  <2>4. flights'[o].pc = "answered" /\ flights'[o].answer = a /\ flights'[o].pair.session = s
        /\ flights'[o].pair.number = n
    BY <1>3, <1>4, <1>6
  <2>6. QED
    BY <1>2, <2>1, <2>2, <2>3, <2>4 DEF Refreshing, Brings, Current, Over
<1>14. StoredPair'
  <2>1. store.pair \in Pairs /\ store.pair.session <= logins /\ Current(store.pair.session, store.pair.number)
    BY <1>2, <1>6, OneJob DEF ClientInv, RefreshInv, StoredPair, Brings, ClientTypeOK
  <2>2. CASE store.pair.session \notin live \/ store.pair.session \in lost
    BY <1>2, <1>7, <2>2 DEF StoredPair, Current, Forward
  <2>3. CASE store.pair.session \in live /\ rotations[store.pair.session] = store.pair.number
    <3>1. CASE rotations' = rotations
      BY <1>2, <2>3, <3>1 DEF StoredPair, Current
    <3>2. CASE rotations' # rotations /\ store.pair.session # s
      <4>1. store.pair.session \in 1..MaxLogins
        <5>1. 1..logins \subseteq 1..MaxLogins
          BY <1>3, ClientAssumption
        <5>2. QED
          BY <1>3, <2>3, <5>1
      <4>2. rotations'[store.pair.session] = rotations[store.pair.session]
        BY <1>8, <3>2, <4>1
      <4>3. QED
        BY <1>2, <2>3, <4>2 DEF StoredPair, Current
    <3>3. CASE rotations' # rotations /\ store.pair.session = s
      <4>1. store.pair = flights[o].pair
        <5>1. store.pair \in Pairs /\ flights[o].pair \in Pairs
          BY <2>1, OneJob
        <5>2. store.pair.session = flights[o].pair.session /\ store.pair.number = flights[o].pair.number
          BY <1>1, <1>3, <2>3, <3>3
        <5>3. QED
          BY <5>1, <5>2 DEF Pairs
      <4>2. CASE a = "OK"
        BY <1>2, <1>4, <1>6, <4>1, <4>2 DEF StoredPair, Brings
      <4>3. CASE a # "OK"
        BY <1>1, <1>2, <3>3, <4>3 DEF StoredPair, Current
      <4>4. QED
        BY <4>2, <4>3
    <3>4. QED
      BY <3>1, <3>2, <3>3
  <2>4. QED
    BY <2>1, <2>2, <2>3 DEF Current
<1>15. RefreshInv'
  <2>1. \A p \in Jobs : flights'[p].pc # "idle" => p = o
    BY <1>6
  <2>2. ASSUME NEW p \in Jobs PROVE Refreshing(flights[p])'
    BY <1>6, <1>13 DEF Refreshing, Brings
  <2>3. QED
    BY <1>14, <2>1, <2>2 DEF RefreshInv, OneFlight
<1>16. QED
  BY <1>9, <1>10, <1>11, <1>12, <1>15 DEF ClientInv

\* Nothing of the client changes: sessions end, accounts and tokens do.
LEMMA QuietStep ==
    ASSUME ClientInv, ServerInv', live' \subseteq live, suspended \subseteq suspended', enabled' \in BOOLEAN,
           UNCHANGED <<store, jobs, flights, rotations, logins, lost>>, expired \subseteq expired',
           \A r \in Jobs : jobs[r].retried => jobs[r].pair \notin expired',
           \A o \in Jobs : Brings(flights[o]) =>
                               Pair(flights[o].pair.session, flights[o].pair.number + 1) \notin expired'
    PROVE  ClientInv'
<1>1. ClientTypeOK'
  BY DEF ClientInv, ClientTypeOK
<1>2. SignInInv'
  BY DEF ClientInv, SignInInv, NewSession
<1>3. AnswerInv'
  <2> SUFFICES ASSUME NEW p \in Jobs PROVE Truthful(jobs[p])'
    BY DEF AnswerInv
  <2>1. QED
    BY OneJob DEF Truthful, Over
<1>4. ASSUME NEW o \in Jobs PROVE Refreshing(flights[o])'
  BY OneJob DEF Refreshing, Brings, Current, Over
<1>5. StoredPair'
  BY DEF ClientInv, RefreshInv, StoredPair, Brings, Current
<1>6. QED
  BY <1>1, <1>2, <1>3, <1>4, <1>5 DEF ClientInv, RefreshInv, OneFlight

LEMMA ServerStepInv ==
    ASSUME ClientInv,
           \/ \E s \in 1..MaxLogins : EndSession(s)
           \/ SetAccount
           \/ \E s \in live : ExpireAccess(Pair(s, rotations[s]))
    PROVE  ClientInv'
<1>1. /\ \A r \in Jobs : jobs[r].retried => jobs[r].pair \notin expired
      /\ \A o \in Jobs : Brings(flights[o]) =>
                             Pair(flights[o].pair.session, flights[o].pair.number + 1) \notin expired
  BY OneJob DEF Truthful, Refreshing
<1>2. ASSUME NEW s \in 1..MaxLogins, EndSession(s) PROVE ClientInv'
  <2>1. live' \subseteq live /\ UNCHANGED <<store, jobs, flights, rotations, enabled, expired, logins, lost, suspended>>
    BY <1>2 DEF EndSession
  <2>2. ServerInv' /\ enabled \in BOOLEAN
    BY <2>1 DEF ClientInv, ServerInv, ClientTypeOK
  <2>3. QED
    BY <1>1, <2>1, <2>2, QuietStep
<1>3. ASSUME SetAccount PROVE ClientInv'
  <2>1. /\ enabled' = ~enabled /\ suspended \subseteq suspended' /\ (enabled => live \subseteq suspended')
        /\ UNCHANGED <<store, jobs, flights, rotations, live, expired, logins, lost>>
    BY <1>3 DEF SetAccount
  <2>2. ServerInv' /\ enabled' \in BOOLEAN
    BY <2>1 DEF ClientInv, ServerInv, ClientTypeOK
  <2>3. QED
    BY <1>1, <2>1, <2>2, QuietStep
<1>4. ASSUME NEW s \in live, ExpireAccess(Pair(s, rotations[s])) PROVE ClientInv'
  <2> DEFINE pair == Pair(s, rotations[s])
  <2>1. /\ \A r \in Jobs : /\ jobs[r].pair = pair => ~jobs[r].retried
                           /\ flights[r].pc = "answered" => flights[r].pair.session # pair.session
        /\ expired' = expired \cup {pair}
        /\ UNCHANGED <<store, jobs, flights, rotations, live, enabled, logins, lost, suspended>>
    BY <1>4 DEF ExpireAccess
  <2>2. s \in 1..MaxLogins /\ rotations[s] \in 0..rotations[s] /\ pair.session = s
    <3>1. /\ live \subseteq 1..logins /\ logins \in Nat /\ logins <= MaxLogins
          /\ rotations \in [1..MaxLogins -> Nat]
      BY ClientAssumption DEF ClientInv, ClientTypeOK
    <3>2. 1..logins \subseteq 1..MaxLogins
      BY <3>1, ClientAssumption
    <3>3. QED
      BY <3>1, <3>2 DEF Pair
  <2>3. ServerInv'
    <3>1. \A p \in expired : \E t \in 1..MaxLogins : \E n \in 0..rotations[t] : p = Pair(t, n)
      BY DEF ClientInv, ServerInv
    <3>2. \E t \in 1..MaxLogins : \E n \in 0..rotations[t] : pair = Pair(t, n)
      BY <2>2
    <3> HIDE DEF pair
    <3>3. QED
      BY <2>1, <3>1, <3>2 DEF ClientInv, ServerInv
  <2>4. ASSUME NEW o \in Jobs, Brings(flights[o])
        PROVE  Pair(flights[o].pair.session, flights[o].pair.number + 1) \notin expired'
    <3>1. Pair(flights[o].pair.session, flights[o].pair.number + 1).session # pair.session
      BY <2>1, <2>4 DEF Brings, Pair
    <3> HIDE DEF pair
    <3>2. QED
      BY <1>1, <2>1, <2>4, <3>1
  <2>5. \A r \in Jobs : jobs[r].retried => jobs[r].pair \notin expired'
    BY <1>1, <2>1
  <2>6. enabled \in BOOLEAN
    BY DEF ClientInv, ClientTypeOK
  <2> HIDE DEF pair
  <2>7. QED
    BY <2>1, <2>3, <2>4, <2>5, <2>6, QuietStep
<1>5. QED
  BY <1>2, <1>3, <1>4

\* Requests and refreshes end, and with them perhaps what the store has; of a
\* refresh that brought a pair nobody took, the session is lost.
LEMMA EndingInv ==
    ASSUME ClientInv, UNCHANGED <<rotations, live, enabled, expired, logins, suspended>>,
           jobs' \in [Jobs -> Job], flights' \in [Jobs -> Flight], lost \subseteq lost',
           \A r \in Jobs : jobs'[r] \in {jobs[r], NoJob} /\ flights'[r] \in {flights[r], NoFlight},
           \A o \in Jobs : Brings(flights[o]) => flights'[o] = flights[o] \/ flights[o].pair.session \in lost',
           \/ store' \in {store, Cleared}
           \/ /\ store' = [store EXCEPT !.user = store.pair # NoPair]
              /\ \A r \in Jobs : jobs'[r].op # "login"
    PROVE  ClientInv'
<1>1. /\ NoPair \in Pairs /\ NoPair.session = 0 /\ Cleared.pair = NoPair /\ ~Cleared.user
      /\ Cleared \in [pair : Pairs, user : BOOLEAN]
  BY DEF Cleared, NoPair, Pair, Pairs
<1>2. /\ NoJob.op = "none" /\ NoJob.pc = "idle" /\ NoJob.pair = NoPair /\ ~NoJob.retried
      /\ NoFlight.pc = "idle" /\ NoFlight.pair = NoPair
  BY DEF NoJob, NoFlight
<1> HIDE DEF NoJob, NoFlight, NoPair, Cleared
<1>3. /\ store \in [pair : Pairs, user : BOOLEAN] /\ logins \in Nat /\ 0 \notin live
      /\ store.pair.session <= logins
  BY ClientAssumption DEF ClientInv, ClientTypeOK
<1>4. /\ store' \in [pair : Pairs, user : BOOLEAN] /\ store'.pair \in {store.pair, NoPair}
      /\ store'.user => store'.pair # NoPair
  <2>1. CASE store' \in {store, Cleared}
    BY <1>1, <1>3, <2>1 DEF ClientInv, SignInInv
  <2>2. CASE store' = [store EXCEPT !.user = store.pair # NoPair]
    BY <1>3, <2>2
  <2>3. QED
    BY <2>1, <2>2
<1>5. ClientTypeOK'
  <2>1. /\ \A r \in Jobs : jobs'[r].pair.session <= logins /\ flights'[r].pair.session <= logins
    BY <1>1, <1>2, <1>3, OneJob
  <2>2. store'.pair.session <= logins
    BY <1>1, <1>3, <1>4
  <2>3. QED
    BY <1>4, <2>1, <2>2 DEF ClientInv, ClientTypeOK
<1>6. ServerInv'
  BY DEF ClientInv, ServerInv
<1>7. SignInInv'
  <2>1. ASSUME NEW r \in Jobs, jobs'[r].op # "none" PROVE jobs'[r] = jobs[r]
    BY <1>2, <2>1
  <2>2. ASSUME NEW r \in Jobs, NEW q \in Jobs, jobs'[r].op \in {"login", "profile"}, jobs'[q].op \in {"login", "profile"}
        PROVE  r = q
    BY <2>1, <2>2 DEF ClientInv, SignInInv
  <2>3. ASSUME NEW r \in Jobs, jobs'[r].op = "none" PROVE jobs'[r].pc = "idle"
    BY <1>2, <2>3 DEF ClientInv, SignInInv
  <2>4. ASSUME NEW r \in Jobs, jobs'[r].op = "login"
        PROVE  /\ ~store'.user /\ ~jobs'[r].retried /\ jobs'[r].pc \in {"sent", "answered"}
               /\ jobs'[r].pc = "answered" => NewSession(jobs[r])'
    <3>1. /\ jobs'[r] = jobs[r] /\ ~store.user /\ ~jobs[r].retried /\ jobs[r].pc \in {"sent", "answered"}
          /\ jobs[r].pc = "answered" => NewSession(jobs[r])
      BY <2>1, <2>4 DEF ClientInv, SignInInv
    <3>2. ~store'.user
      BY <1>1, <2>4, <3>1
    <3>3. ASSUME NewSession(jobs[r]) PROVE NewSession(jobs[r])'
      <4>1. store'.pair.session # jobs[r].pair.session
        BY <1>1, <1>4, <3>3 DEF NewSession
      <4>2. \A o \in Jobs : flights'[o].pc # "idle" => flights'[o].pair.session # jobs[r].pair.session
        BY <1>2, <3>3 DEF NewSession
      <4>3. QED
        BY <3>1, <3>3, <4>1, <4>2 DEF NewSession
    <3>4. QED
      BY <3>1, <3>2, <3>3
  <2>5. QED
    BY <1>4, <2>2, <2>3, <2>4 DEF SignInInv
<1>8. AnswerInv'
  <2> SUFFICES ASSUME NEW r \in Jobs PROVE Truthful(jobs[r])'
    BY DEF AnswerInv
  <2>1. QED
    BY <1>2, OneJob DEF Truthful, Over
<1>9. ASSUME NEW o \in Jobs PROVE Refreshing(flights[o])'
  BY <1>2, OneJob DEF Refreshing, Brings, Current, Over
<1>10. StoredPair'
  <2>1. CASE store'.pair = NoPair
    BY <1>1, <1>3, <2>1 DEF StoredPair, Current
  <2>2. CASE store'.pair = store.pair /\ Current(store.pair.session, store.pair.number)
    BY <2>2 DEF StoredPair, Current
  <2>3. ASSUME NEW o \in Jobs, store'.pair = store.pair, Brings(flights[o]), flights[o].pair = store.pair
        PROVE  StoredPair'
    BY <2>3 DEF StoredPair, Current, Brings
  <2>4. QED
    BY <1>4, <2>1, <2>2, <2>3 DEF ClientInv, RefreshInv, StoredPair
<1>11. OneFlight'
  <2>1. \A o \in Jobs : flights'[o].pc # "idle" => flights[o].pc # "idle"
    BY <1>2
  <2>2. QED
    BY <2>1 DEF ClientInv, RefreshInv, OneFlight
<1>12. QED
  BY <1>5, <1>6, <1>7, <1>8, <1>9, <1>10, <1>11 DEF ClientInv, RefreshInv

LEMMA NothingLeft == NoJob \in Job /\ NoFlight \in Flight
<1>1. NoPair \in Pairs
  BY DEF NoPair, Pair, Pairs
<1>2. QED
  BY <1>1 DEF NoJob, NoFlight, Job, Flight, Answers

\* What is left in the store when a job ends.
LEMMA StoreAfter ==
    ASSUME NEW st, NEW op, NEW code, st \in {store, Cleared}
    PROVE  \/ AfterJob(st, op, code) \in {store, Cleared}
           \/ op = "profile" /\ code = "OK" /\ AfterJob(st, op, code) = [st EXCEPT !.user = st.pair # NoPair]
<1>1. CASE op = "profile" /\ code = "OK"
  BY <1>1 DEF AfterJob
<1>2. CASE ~(op = "profile" /\ code = "OK")
  BY <1>2 DEF AfterJob
<1>3. QED
  BY <1>1, <1>2

LEMMA JobEndsInv ==
    ASSUME ClientInv, NEW r \in Jobs, NEW st, st \in {store, Cleared}, NEW code,
           store' = AfterJob(st, jobs[r].op, code), jobs' = [jobs EXCEPT ![r] = NoJob],
           UNCHANGED <<flights, rotations, live, enabled, expired, logins, lost, suspended>>
    PROVE  ClientInv'
<1>1. jobs' \in [Jobs -> Job] /\ jobs'[r] = NoJob /\ \A p \in Jobs \ {r} : jobs'[p] = jobs[p]
  BY NothingLeft DEF ClientInv, ClientTypeOK
<1>2. flights' \in [Jobs -> Flight]
  BY DEF ClientInv, ClientTypeOK
<1>3. \/ store' \in {store, Cleared}
      \/ /\ store' = [store EXCEPT !.user = store.pair # NoPair]
         /\ \A p \in Jobs : jobs'[p].op # "login"
  <2>1. CASE jobs[r].op = "profile" /\ code = "OK" /\ store' = [st EXCEPT !.user = st.pair # NoPair]
    <3>1. \A p \in Jobs : jobs'[p].op # "login"
      BY <1>1, <2>1 DEF ClientInv, SignInInv, NoJob
    <3>2. CASE st = store
      BY <2>1, <3>1, <3>2
    <3>3. CASE st = Cleared
      BY <2>1, <3>3 DEF Cleared
    <3>4. QED
      BY <3>2, <3>3
  <2>2. QED
    BY <2>1, StoreAfter
<1>4. QED
  BY <1>1, <1>2, <1>3, EndingInv

LEMMA ReceiveInv ==
    ASSUME ClientInv, NEW r \in Jobs, Receive(r) \/ Fail(r)
    PROVE  ClientInv'
<1>1. CASE Receive(r)
  <2>1. AfterCode(store, jobs[r].answer) \in {store, Cleared}
    BY DEF AfterCode
  <2>2. QED
    BY <1>1, <2>1, JobEndsInv DEF Receive
<1>2. CASE Fail(r)
  BY <1>2, JobEndsInv DEF Fail
<1>3. QED
  BY <1>1, <1>2

\* A refresh that ends without a pair takes the requests that wait for it along.
LEMMA FlightEndsInv ==
    ASSUME ClientInv, NEW o \in Jobs, NEW code, Leave(o, store, code),
           flights' = [flights EXCEPT ![o] = NoFlight],
           jobs' = [r \in Jobs |-> IF r \in Waiting(o) THEN NoJob ELSE jobs[r]],
           lost \subseteq lost', Brings(flights[o]) => flights[o].pair.session \in lost',
           UNCHANGED <<rotations, live, enabled, expired, logins, suspended>>
    PROVE  ClientInv'
<1>1. jobs' \in [Jobs -> Job] /\ flights' \in [Jobs -> Flight]
  BY NothingLeft DEF ClientInv, ClientTypeOK
<1>2. \A r \in Jobs : jobs'[r] \in {jobs[r], NoJob} /\ flights'[r] \in {flights[r], NoFlight}
                      /\ (r # o => flights'[r] = flights[r])
  BY DEF ClientInv, ClientTypeOK
<1>3. store' \in {store, Cleared}
  BY DEF Leave, AfterCode
<1>4. QED
  BY <1>1, <1>2, <1>3, EndingInv

LEMMA FailRefreshInv ==
    ASSUME ClientInv, NEW o \in Jobs, FailRefresh(o)
    PROVE  ClientInv'
<1>1. lost \subseteq lost' /\ (Brings(flights[o]) => flights[o].pair.session \in lost')
  BY DEF FailRefresh, Lost, Brings
<1>2. QED
  BY <1>1, FlightEndsInv DEF FailRefresh

LEMMA ReloadInv ==
    ASSUME ClientInv, Reload
    PROVE  ClientInv'
<1>1. jobs' \in [Jobs -> Job] /\ flights' \in [Jobs -> Flight]
  BY NothingLeft DEF Reload
<1>2. \A r \in Jobs : jobs'[r] = NoJob /\ flights'[r] = NoFlight
  BY DEF Reload
<1>3. lost \subseteq lost' /\ store' \in {store, Cleared}
  BY DEF Reload
<1>4. ASSUME NEW o \in Jobs, Brings(flights[o]) PROVE flights[o].pair.session \in lost'
  <2>1. flights[o].pair.session \in Lost(o)
    BY <1>4 DEF Lost, Brings
  <2>2. QED
    BY <2>1 DEF Reload
<1>5. UNCHANGED <<rotations, live, enabled, expired, logins, suspended>>
  BY DEF Reload
<1>6. QED
  BY <1>1, <1>2, <1>3, <1>4, <1>5, EndingInv

\* The login is over: its pair is stored, and is the one of its session.
LEMMA ReceiveLoginInv ==
    ASSUME ClientInv, NEW r \in Jobs, ReceiveLogin(r)
    PROVE  ClientInv'
<1> DEFINE q == [jobs[r] EXCEPT !.op = "profile", !.pc = "sent", !.answer = "none"]
<1>1. /\ jobs[r].pc = "answered" /\ jobs[r].op = "login" /\ NewSession(jobs[r])
      /\ ~store.user /\ ~jobs[r].retried
      /\ UNCHANGED <<flights, rotations, live, enabled, expired, logins, lost, suspended>>
  BY DEF ReceiveLogin, ClientInv, SignInInv
<1>2. /\ jobs[r] \in Job /\ jobs[r].pair \in Pairs /\ jobs[r].pair.session <= logins
      /\ store \in [pair : Pairs, user : BOOLEAN]
  BY OneJob DEF ClientInv, ClientTypeOK
<1>3. /\ q \in Job /\ q.op = "profile" /\ q.pc = "sent" /\ q.pair = jobs[r].pair /\ ~q.retried
  BY <1>1, <1>2 DEF Job, Answers
<1>4. jobs' = [jobs EXCEPT ![r] = q]
  BY DEF ReceiveLogin, ClientInv, ClientTypeOK
<1> HIDE DEF q
<1>5. jobs'[r] = q /\ \A p \in Jobs \ {r} : jobs'[p] = jobs[p]
  BY <1>4 DEF ClientInv, ClientTypeOK
<1>6. store' \in [pair : Pairs, user : BOOLEAN] /\ ~store'.user /\ store'.pair = jobs[r].pair
  BY <1>1, <1>2 DEF ReceiveLogin
<1>7. ClientTypeOK'
  BY <1>1, <1>2, <1>3, <1>4, <1>5, <1>6 DEF ClientInv, ClientTypeOK
<1>8. ServerInv'
  BY <1>1 DEF ClientInv, ServerInv
<1>9. SignInInv'
  <2>1. \A p \in Jobs : p # r => jobs[p].op \notin {"login", "profile"}
    BY <1>1 DEF ClientInv, SignInInv
  <2>2. \A p \in Jobs : jobs'[p].op # "login"
    BY <1>3, <1>5, <2>1
  <2>3. \A p \in Jobs : jobs'[p].op = "none" => jobs'[p].pc = "idle"
    BY <1>3, <1>5 DEF ClientInv, SignInInv
  <2>4. \A p \in Jobs : jobs'[p].op \in {"login", "profile"} => p = r
    BY <1>3, <1>5, <2>1
  <2>5. QED
    BY <1>6, <2>2, <2>3, <2>4 DEF SignInInv
<1>10. AnswerInv'
  <2> SUFFICES ASSUME NEW p \in Jobs PROVE Truthful(jobs[p])'
    BY DEF AnswerInv
  <2>1. QED
    BY <1>1, <1>3, <1>5, OneJob DEF Truthful, Over
<1>11. RefreshInv'
  <2>1. Current(jobs[r].pair.session, jobs[r].pair.number)
    BY <1>1 DEF NewSession, Current
  <2>2. StoredPair'
    BY <1>1, <1>6, <2>1 DEF StoredPair, Current
  <2>3. QED
    BY <1>1, <2>2 DEF ClientInv, RefreshInv, OneFlight, Refreshing, Brings, Current, Over
<1>12. QED
  BY <1>7, <1>8, <1>9, <1>10, <1>11 DEF ClientInv

\* A request waits for the refresh in progress, or begins one with the pair in
\* the store, which then is the one to refresh with.
LEMMA ReceiveExpiredInv ==
    ASSUME ClientInv, NEW r \in Jobs, ReceiveExpired(r)
    PROVE  ClientInv'
<1> DEFINE o == FlightFor(r)
           q == [jobs[r] EXCEPT !.pc = "waiting", !.flight = o]
           f == [pc |-> "sent", pair |-> store.pair, answer |-> "none"]
<1>1. /\ jobs[r].pc = "answered" /\ ~jobs[r].retried /\ jobs[r].answer = "ACCESS_TOKEN_EXPIRED"
      /\ flights' = IF flights[o].pc # "idle" THEN flights ELSE [flights EXCEPT ![o] = f]
      /\ UNCHANGED <<store, rotations, live, enabled, expired, logins, lost, suspended>>
  BY DEF ReceiveExpired
<1>2. o \in Jobs /\ (flights[o].pc = "idle" => \A p \in Jobs : flights[p].pc = "idle")
  BY DEF FlightFor
<1>3. jobs[r].op # "login" /\ jobs[r].op # "none"
  BY <1>1 DEF ClientInv, SignInInv, NewSession
<1>4. /\ jobs[r] \in Job /\ jobs[r].pair \in Pairs /\ jobs[r].pair.session <= logins
      /\ store.pair \in Pairs /\ store.pair.session <= logins /\ jobs \in [Jobs -> Job]
      /\ flights \in [Jobs -> Flight]
  BY OneJob DEF ClientInv, ClientTypeOK
<1>5. jobs' = [jobs EXCEPT ![r] = q]
  BY <1>4 DEF ReceiveExpired
<1>6. /\ q \in Job /\ q.op = jobs[r].op /\ q.pc = "waiting" /\ q.pair = jobs[r].pair /\ ~q.retried
  BY <1>1, <1>2, <1>4 DEF Job
<1>7. f \in Flight /\ f.pc = "sent" /\ f.pair = store.pair
  BY <1>4 DEF Flight, Answers
<1> HIDE DEF q, f, o
<1>8. jobs'[r] = q /\ (\A p \in Jobs \ {r} : jobs'[p] = jobs[p]) /\ jobs' \in [Jobs -> Job]
  BY <1>4, <1>5, <1>6
<1>9. /\ flights' \in [Jobs -> Flight]
      /\ \/ flights' = flights
         \/ /\ \A p \in Jobs : flights[p].pc = "idle"
            /\ flights'[o] = f /\ \A p \in Jobs \ {o} : flights'[p] = flights[p]
  BY <1>1, <1>2, <1>4, <1>7
<1>10. ASSUME NEW p \in Jobs, flights'[p].pc # "idle"
       PROVE  \/ flights'[p] = flights[p] /\ flights[p].pc # "idle"
              \/ flights'[p] = f /\ p = o /\ \A t \in Jobs : flights[t].pc = "idle"
  BY <1>9, <1>10
<1>11. ClientTypeOK'
  <2>1. \A p \in Jobs : jobs'[p].pair.session <= logins
    BY <1>4, <1>6, <1>8, OneJob
  <2>2. \A p \in Jobs : flights'[p].pair.session <= logins
    BY <1>4, <1>7, <1>9, OneJob
  <2>3. QED
    BY <1>1, <1>8, <1>9, <2>1, <2>2 DEF ClientInv, ClientTypeOK
<1>12. ServerInv'
  BY <1>1 DEF ClientInv, ServerInv
<1>13. SignInInv'
  <2>1. \A p \in Jobs : jobs'[p].op = jobs[p].op /\ (p # r => jobs'[p] = jobs[p])
    BY <1>6, <1>8
  <2>2. jobs'[r].op # "login" /\ jobs'[r].op # "none"
    BY <1>3, <2>1
  <2>3. ASSUME NEW p \in Jobs, NewSession(jobs[p]), p # r PROVE NewSession(jobs[p])'
    <3>1. \A t \in Jobs : flights'[t].pc # "idle" => flights'[t].pair.session # jobs[p].pair.session
      BY <1>7, <1>10, <2>3 DEF NewSession
    <3>2. QED
      BY <1>1, <2>1, <2>3, <3>1 DEF NewSession
  <2>4. QED
    BY <1>1, <2>1, <2>2, <2>3 DEF ClientInv, SignInInv
<1>14. AnswerInv'
  <2> SUFFICES ASSUME NEW p \in Jobs PROVE Truthful(jobs[p])'
    BY DEF AnswerInv
  <2>1. QED
    BY <1>1, <1>6, <1>8, OneJob DEF Truthful, Over
<1>15. RefreshInv'
  <2>1. (\A t \in Jobs : flights[t].pc = "idle") => Current(store.pair.session, store.pair.number)
    BY DEF ClientInv, RefreshInv, StoredPair, Brings
  <2>2. ASSUME NEW p \in Jobs PROVE Refreshing(flights[p])'
    BY <1>1, <1>7, <1>10, <2>1, OneJob DEF Refreshing, Brings, Current, Over
  <2>3. OneFlight'
    BY <1>10 DEF ClientInv, RefreshInv, OneFlight
  <2>4. StoredPair'
    BY <1>1, <1>9 DEF ClientInv, RefreshInv, StoredPair, Current, Brings
  <2>5. QED
    BY <2>2, <2>3, <2>4 DEF RefreshInv
<1>16. QED
  BY <1>11, <1>12, <1>13, <1>14, <1>15 DEF ClientInv

\* The refresh brought a pair: it is stored, and its requests go out with it.
LEMMA NewPairInv ==
    ASSUME ClientInv, NEW o \in Jobs, ReceiveRefresh(o), flights[o].answer = "OK"
    PROVE  ClientInv'
<1>0. PICK s \in Nat, n \in Nat : flights[o].pair.session = s /\ flights[o].pair.number = n
  BY OneJob DEF Pairs
<1> DEFINE new == Pair(s, n + 1)
<1>1. /\ flights[o].pc = "answered" /\ flights' = [flights EXCEPT ![o] = NoFlight]
      /\ store' = [store EXCEPT !.pair = new]
      /\ jobs' = [r \in Jobs |-> IF r \in Waiting(o)
             THEN [jobs[r] EXCEPT !.pc = "sent", !.pair = new, !.retried = TRUE,
                                  !.flight = "none", !.answer = "none"]
             ELSE jobs[r]]
      /\ UNCHANGED <<rotations, live, enabled, expired, logins, lost, suspended>>
  BY <1>0 DEF ReceiveRefresh
<1>2. flights[o].pc = "answered" /\ UNCHANGED <<rotations, live, enabled, expired, logins, lost, suspended>>
  BY <1>1
<1>3. /\ flights[o].pair \in Pairs /\ s \in Nat /\ n \in Nat /\ s <= logins /\ logins \in Nat
      /\ store \in [pair : Pairs, user : BOOLEAN] /\ Refreshing(flights[o])
      /\ flights \in [Jobs -> Flight] /\ jobs \in [Jobs -> Job]
  BY <1>0, OneJob DEF ClientInv, ClientTypeOK
<1>4. /\ new \in Pairs /\ new.session = s /\ new.number = n + 1 /\ new # NoPair
      /\ new \notin expired /\ Current(s, n + 1)
  <2>1. new \in Pairs /\ new.session = s /\ new.number = n + 1 /\ NoPair.number = 0 /\ n + 1 # 0
    BY DEF Pair, Pairs, NoPair
  <2>2. Pair(flights[o].pair.session, flights[o].pair.number + 1) = new
    BY <1>0
  <2>3. new \notin expired /\ Current(s, n + 1)
    BY <1>0, <1>1, <1>3, <2>2 DEF Refreshing, Brings
  <2>4. QED
    BY <2>1, <2>3
<1>5. /\ NoFlight.pc = "idle" /\ NoFlight.pair \in Pairs /\ NoFlight.pair.session = 0
      /\ flights' \in [Jobs -> Flight] /\ flights'[o] = NoFlight
      /\ \A p \in Jobs \ {o} : flights'[p] = flights[p] /\ flights[p].pc = "idle"
  <2>1. NoFlight.pc = "idle" /\ NoFlight.pair \in Pairs /\ NoFlight.pair.session = 0
    BY DEF NoFlight, NoPair, Pair, Pairs
  <2>2. QED
    BY <1>1, <1>3, <2>1, NothingLeft DEF ClientInv, RefreshInv, OneFlight
<1> HIDE DEF new, NoFlight
<1>6. ASSUME NEW r \in Jobs
      PROVE  \/ jobs'[r] = jobs[r]
             \/ /\ jobs[r].pc = "waiting" /\ jobs'[r] \in Job /\ jobs'[r].op = jobs[r].op
                /\ jobs'[r].pc = "sent" /\ jobs'[r].pair = new
  <2> DEFINE q == [jobs[r] EXCEPT !.pc = "sent", !.pair = new, !.retried = TRUE,
                                  !.flight = "none", !.answer = "none"]
  <2>1. q \in Job /\ q.op = jobs[r].op /\ q.pc = "sent" /\ q.pair = new
    BY <1>3, <1>4 DEF Job, Answers
  <2>2. jobs'[r] = q \/ jobs'[r] = jobs[r]
    BY <1>1
  <2>3. jobs'[r] # jobs[r] => jobs[r].pc = "waiting"
    BY <1>1 DEF Waiting
  <2> HIDE DEF q
  <2>4. QED
    BY <2>1, <2>2, <2>3
<1>7. store' \in [pair : Pairs, user : BOOLEAN] /\ store'.user = store.user /\ store'.pair = new
  BY <1>1, <1>3, <1>4
<1>8. ClientTypeOK'
  <2>1. jobs' \in [Jobs -> Job]
    BY <1>1, <1>3, <1>6
  <2>2. \A r \in Jobs : jobs'[r].pair.session <= logins
    BY <1>3, <1>4, <1>6, OneJob
  <2>3. \A p \in Jobs : flights'[p].pair.session <= logins
    BY <1>3, <1>5, OneJob
  <2>4. QED
    BY <1>1, <1>3, <1>4, <1>5, <1>7, <2>1, <2>2, <2>3 DEF ClientInv, ClientTypeOK
<1>9. ServerInv'
  BY <1>1 DEF ClientInv, ServerInv
<1>10. SignInInv'
  <2>1. \A r \in Jobs : jobs'[r].op = jobs[r].op
    BY <1>6
  <2>2. ASSUME NEW r \in Jobs, jobs[r].op \in {"login", "none"} PROVE jobs'[r] = jobs[r]
    BY <1>6, <2>2 DEF ClientInv, SignInInv
  <2>3. ASSUME NEW r \in Jobs, NewSession(jobs[r]), jobs'[r] = jobs[r] PROVE NewSession(jobs[r])'
    <3>1. s # jobs[r].pair.session
      BY <1>0, <1>1, <2>3 DEF NewSession
    <3>2. \A t \in Jobs : flights'[t].pc = "idle"
      BY <1>5
    <3>3. QED
      BY <1>2, <1>4, <1>7, <2>3, <3>1, <3>2 DEF NewSession
  <2>4. QED
    BY <1>4, <1>7, <2>1, <2>2, <2>3 DEF ClientInv, SignInInv
<1>11. AnswerInv'
  <2> SUFFICES ASSUME NEW p \in Jobs PROVE Truthful(jobs[p])'
    BY DEF AnswerInv
  <2>1. CASE jobs'[p] = jobs[p]
    BY <1>2, <2>1, OneJob DEF Truthful, Over
  <2>2. CASE jobs'[p].pc = "sent" /\ jobs'[p].pair = new
    BY <1>2, <1>4, <2>2 DEF Truthful
  <2>3. QED
    BY <1>6, <2>1, <2>2
<1>12. RefreshInv'
  <2>1. \A t \in Jobs : flights'[t].pc = "idle"
    BY <1>5
  <2>2. StoredPair'
    BY <1>1, <1>4, <1>7 DEF StoredPair, Current
  <2>3. QED
    BY <2>1, <2>2 DEF RefreshInv, OneFlight, Refreshing, Brings
<1>13. QED
  BY <1>8, <1>9, <1>10, <1>11, <1>12 DEF ClientInv

LEMMA ReceiveRefreshInv ==
    ASSUME ClientInv, NEW o \in Jobs, ReceiveRefresh(o)
    PROVE  ClientInv'
<1>1. CASE flights[o].answer = "OK"
  BY <1>1, NewPairInv
<1>2. CASE flights[o].answer # "OK"
  BY <1>2, FlightEndsInv DEF ReceiveRefresh, Brings
<1>3. QED
  BY <1>1, <1>2

\* The invariant of the client and its server.
THEOREM ClientInvariance == ClientSpec => []ClientInv
<1>1. ClientInit => ClientInv
  BY ClientInitInv
<1>2. ASSUME ClientInv, [ClientNext]_clientVars PROVE ClientInv'
  <2>1. ASSUME NEW r \in Jobs,
               \/ Send(r) \/ Serve(r) \/ ServeLogin(r) \/ ServeRefresh(r) \/ ReceiveExpired(r)
               \/ Receive(r) \/ ReceiveLogin(r) \/ Fail(r) \/ ReceiveRefresh(r) \/ FailRefresh(r)
        PROVE  ClientInv'
    BY <1>2, <2>1, SendInv, ServeInv, ServeLoginInv, ServeRefreshInv, ReceiveExpiredInv, ReceiveInv,
       ReceiveLoginInv, ReceiveRefreshInv, FailRefreshInv
  <2>2. CASE UNCHANGED clientVars
    <3>1. UNCHANGED <<store, jobs, flights, rotations, live, enabled, expired, logins, lost, suspended>>
      BY <2>2 DEF clientVars
    <3>2. QED
      BY <1>2, <3>1 DEF ClientInv, ClientTypeOK, ServerInv, SignInInv, NewSession, AnswerInv, Truthful,
                        RefreshInv, OneFlight, Refreshing, StoredPair, Current, Brings, Over
  <2>3. QED
    BY <1>2, <2>1, <2>2, ServerStepInv, ReloadInv DEF ClientNext
<1>3. QED
  BY <1>1, <1>2, PTL DEF ClientSpec

\* The refresh ends without a pair, and the session of the store with it.
LEMMA LeaveReason ==
    ASSUME NEW o \in Jobs, NEW code, Leave(o, store, code), store'.pair # store.pair,
           jobs' = [r \in Jobs |-> IF r \in Waiting(o) THEN NoJob ELSE jobs[r]]
    PROVE  OwnEnd \/ code \in LoginRequiredCodes
<1>1. CASE \E r \in Waiting(o) : jobs[r].op \in {"logout", "profile"}
  BY <1>1 DEF OwnEnd, Waiting
<1>2. CASE ~\E r \in Waiting(o) : jobs[r].op \in {"logout", "profile"}
  BY <1>2 DEF Leave, AfterCode
<1>3. QED
  BY <1>1, <1>2

\* The client gives up a session only if it is over, its account was disabled or
\* a refresh of it was never answered, at its user's wish, or for the answer to
\* an earlier session: whatever the requests, refreshes and reloads in between.
THEOREM SessionsKept == ClientSpec => SignedOutOnlyWhenOver
<1> DEFINE s == store.pair.session
           Reason == s \notin live \/ s \in suspended \/ s \in lost \/ OwnEnd \/ LateAnswer
<1>1. ASSUME ClientInv, [ClientNext]_clientVars, store.user, store'.pair.session # s
      PROVE  Reason
  <2>1. store'.pair # store.pair
    BY <1>1
  <2>2. ASSUME NEW r \in Jobs, Receive(r) PROVE Reason
    <3>1. /\ jobs[r].pc = "answered" /\ jobs[r].op # "login" /\ jobs'[r] = NoJob
          /\ jobs[r].answer # "ACCESS_TOKEN_EXPIRED" \/ jobs[r].retried
          /\ store' = AfterJob(AfterCode(store, jobs[r].answer), jobs[r].op, jobs[r].answer)
      BY <1>1, <2>2 DEF Receive, ClientInv, ClientTypeOK
    <3>2. CASE jobs[r].op \in {"logout", "profile"}
      BY <3>1, <3>2 DEF OwnEnd
    <3>3. CASE jobs[r].op = "work"
      <4>1. jobs[r].answer \in LoginRequiredCodes
        BY <2>1, <3>1, <3>3 DEF AfterJob, AfterCode
      <4>2. Over(jobs[r].pair.session)
        BY <1>1, <3>1, <4>1, OneJob DEF Truthful
      <4>3. CASE jobs[r].pair.session = s
        BY <4>2, <4>3 DEF Over
      <4>4. CASE jobs[r].pair.session # s
        BY <3>1, <4>4 DEF LateAnswer
      <4>5. QED
        BY <4>3, <4>4
    <3>4. jobs[r].op \in {"logout", "profile", "work"}
      BY <1>1, <3>1, OneJob DEF Job, ClientInv, SignInInv
    <3>5. QED
      BY <3>2, <3>3, <3>4
  <2>3. ASSUME NEW r \in Jobs, Fail(r) PROVE Reason
    <3>1. /\ jobs[r].pc # "idle" /\ jobs'[r] = NoJob
          /\ store' = AfterJob(store, jobs[r].op, "error")
      BY <1>1, <2>3 DEF Fail, ClientInv, ClientTypeOK
    <3>2. jobs[r].op \in {"logout", "login", "profile"}
      BY <2>1, <3>1 DEF AfterJob
    <3>3. QED
      BY <3>1, <3>2 DEF OwnEnd
  <2>4. ASSUME NEW r \in Jobs, ReceiveLogin(r) PROVE Reason
    BY <1>1, <2>4 DEF ReceiveLogin, ClientInv, SignInInv
  <2>5. ASSUME NEW o \in Jobs, ReceiveRefresh(o) PROVE Reason
    <3>1. flights[o].pc = "answered" /\ flights'[o] = NoFlight
      BY <1>1, <2>5 DEF ReceiveRefresh, ClientInv, ClientTypeOK
    <3>2. CASE flights[o].pair.session # s
      BY <3>1, <3>2 DEF LateAnswer
    <3>3. CASE flights[o].pair.session = s /\ flights[o].answer = "OK"
      <4>1. store' = [store EXCEPT !.pair = Pair(s, flights[o].pair.number + 1)]
        BY <2>5, <3>3 DEF ReceiveRefresh
      <4>2. store'.pair.session = s
        BY <1>1, <4>1 DEF ClientInv, ClientTypeOK, Pair
      <4>3. QED
        BY <1>1, <4>2
    <3>4. CASE flights[o].pair.session = s /\ flights[o].answer # "OK"
      <4>1. OwnEnd \/ flights[o].answer \in LoginRequiredCodes
        BY <2>1, <2>5, <3>4, LeaveReason DEF ReceiveRefresh
      <4>2. flights[o].answer \in LoginRequiredCodes => Over(s) \/ s \in lost
        BY <1>1, <3>1, <3>4, OneJob DEF Refreshing
      <4>3. QED
        BY <4>1, <4>2 DEF Over
    <3>5. QED
      BY <3>2, <3>3, <3>4
  <2>6. ASSUME NEW o \in Jobs, FailRefresh(o) PROVE Reason
    <3>1. "error" \notin LoginRequiredCodes
      BY DEF LoginRequiredCodes
    <3>2. QED
      BY <2>1, <2>6, <3>1, LeaveReason DEF FailRefresh
  <2>7. ASSUME Reload PROVE Reason
    BY <1>1, <2>1, <2>7 DEF Reload
  <2>8. CASE store' = store
    BY <2>1, <2>8
  <2>9. QED
    BY <1>1, <2>2, <2>3, <2>4, <2>5, <2>6, <2>7, <2>8
    DEF ClientNext, Send, Serve, ServeLogin, ServeRefresh, ReceiveExpired, EndSession, SetAccount,
        ExpireAccess, clientVars
<1>2. ClientInv /\ [ClientNext]_clientVars =>
          [store.user /\ store'.pair.session # s => Reason]_clientVars
  BY <1>1
<1> HIDE DEF Reason
<1>3. ClientSpec => [][store.user /\ store'.pair.session # s => Reason]_clientVars
  BY <1>2, ClientInvariance, PTL DEF ClientSpec
<1>4. QED
  BY <1>3 DEF SignedOutOnlyWhenOver, Reason

=============================================================================
