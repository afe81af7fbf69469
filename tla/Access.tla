------------------------------- MODULE Access -------------------------------
(***************************************************************************)
(* Who may do what (packages/domain access/permissions.ts, the guards, the *)
(* sessions and the sign-in of the API, and the viewer of the web client). *)
(*                                                                         *)
(* One person with one browser and one membership.  The principal of a     *)
(* request is built once, when the request arrives; the resolver checks it *)
(* later.  Memberships are changed from outside: the repository has no     *)
(* operation that changes one.  Workers are not here: they ask for no      *)
(* permission, and the actions the system is denied (permissions.ts:185)   *)
(* are looked up by no job.                                                *)
(***************************************************************************)
EXTENDS Naturals, FiniteSets

CONSTANTS
    OwnProperty, ForeignProperty,  \* of the organization, and of another one
    Clicked,                       \* the controls a person tries: see Control
    MaxSessions, MaxChanges, MaxRequests  \* bounds

Property == OwnProperty \cup ForeignProperty

\* member: the membership and its user; session: [id -> row]; cookie: 0 or an
\* id; page: the viewer the client holds; request: what the API is handling;
\* did: what was done; refused: the last click was; sent: the requests.
VARIABLES member, session, cookie, page, request, did, refused, sent, changes
vars == <<member, session, cookie, page, request, did, refused, sent, changes>>

----------------------------------------------------------------------------
(* Roles                                                                   *)

READ_ONLY_FINANCIAL ==
  {"property:read", "tenant:read", "lease:read", "charge:read", "import:read",
   "transaction:read", "suggestion:read", "exception:read", "journal:read",
   "close_snapshot:read", "dashboard:read"}

ROLE_ACTIONS ==
  [ORG_ADMIN |->
     {"org:manage_members", "org:manage_integrations", "org:read_settings",
      "property:read", "property:manage", "tenant:read", "tenant:manage",
      "lease:read", "dashboard:read", "audit:read"},
   PORTFOLIO_CONTROLLER |-> READ_ONLY_FINANCIAL \cup
     {"org:read_settings", "audit:read", "charge:credit", "allocation:approve",
      "allocation:reverse", "exception:assign", "exception:resolve",
      "exception:classify_unapplied", "period:start_review", "period:close",
      "period:reopen", "assistant:invoke"},
   ACCOUNTANT |-> READ_ONLY_FINANCIAL \cup
     {"audit:read", "charge:generate", "charge:credit", "import:create",
      "import:confirm", "import:cancel", "import:download_file",
      "suggestion:regenerate", "allocation:approve", "allocation:reverse",
      "exception:assign", "exception:resolve", "period:start_review",
      "assistant:invoke"},
   PROPERTY_MANAGER |->
     {"property:read", "tenant:read", "lease:read", "charge:read",
      "transaction:read", "exception:read", "dashboard:read", "close_snapshot:read"},
   AUDITOR |-> READ_ONLY_FINANCIAL \cup {"audit:read", "org:read_settings"}]
Role == DOMAIN ROLE_ACTIONS

isOrganizationScoped(role) == role \in {"ORG_ADMIN", "PORTFOLIO_CONTROLLER", "AUDITOR"}

\* A control of a page: the action it asks for, and the resolution that was
\* chosen when it resolves an exception.
Control(action, resolution) == [action |-> action, resolution |-> resolution]
CONTROLLER_ONLY_RESOLUTIONS == {"WRITTEN_OFF", "CLASSIFIED_UNAPPLIED"}

----------------------------------------------------------------------------
(* Principals                                                              *)

Anonymous == [role |-> "none", status |-> "none", assigned |-> {}]

can(access, action) ==
  /\ access.status = "ACTIVE"
  /\ action \in ROLE_ACTIONS[access.role]

hasPropertyAccess(access, p) ==
  /\ access.status = "ACTIVE"
  /\ isOrganizationScoped(access.role) \/ p \in access.assigned

authorizeProperty(access, action, p) ==
  /\ access # Anonymous /\ can(access, action)
  /\ p \in OwnProperty /\ hasPropertyAccess(access, p)

\* What the rules of exceptions ask of the actor besides.
mayChoose(role, control) ==
  (control.action = "exception:resolve" /\ control.resolution \in CONTROLLER_ONLY_RESOLUTIONS)
    => role = "PORTFOLIO_CONTROLLER"

Allowed(access, control, p) ==
  authorizeProperty(access, control.action, p) /\ mayChoose(access.role, control)

\* No membership, or a disabled user: the request becomes anonymous.
buildAccessContext ==
  IF member.disabled THEN Anonymous
  ELSE [role |-> member.role, status |-> member.status, assigned |-> member.assigned]

NoSession == [state |-> "none", expired |-> FALSE]
(* A mutation: a row resolves until it is purged, expired or not. *)
ResolvesForEver(s) == s # 0 /\ session[s].state = "live"
Resolves(s) == s # 0 /\ session[s].state = "live" /\ ~session[s].expired
resolve == IF Resolves(cookie) THEN buildAccessContext ELSE Anonymous

\* The list of a query: what is asked for narrows what may be seen.
resolvePropertyScope(access, requested) ==
  IF requested = {} THEN IF isOrganizationScoped(access.role) THEN Property ELSE access.assigned
  ELSE requested
ScopeRefused(access, requested) == \E p \in requested: ~hasPropertyAccess(access, p)

----------------------------------------------------------------------------
NoPage == [permissions |-> {}, properties |-> {}, changes |-> 0]
NoRequest == [control |-> "none"]
\* Nobody's session: signed out, expired or purged.
Over == cookie = 0 \/ session[cookie].state # "live" \/ session[cookie].expired

Init ==
  /\ \E r \in Role, a \in SUBSET OwnProperty:
       member = [role |-> r, status |-> "ACTIVE", assigned |-> a, disabled |-> FALSE, tenure |-> 0]
  /\ session = [s \in 1 .. MaxSessions |-> NoSession]
  /\ cookie = 0 /\ page = NoPage /\ request = NoRequest
  /\ did = {} /\ refused = NoRequest /\ sent = 0 /\ changes = 0

\* What the page has a button for; an exception's has every resolution, those
\* of a controller too.
Offered(control, p) == control.action \in page.permissions /\ p \in page.properties
Created(s) == [session EXCEPT ![s].state = "live"]
Revoked(s) == [session EXCEPT ![s].state = "revoked"]

Viewed(access) ==
  IF access = Anonymous THEN NoPage
  ELSE [permissions |-> ROLE_ACTIONS[access.role], changes |-> changes,
        properties |-> IF isOrganizationScoped(access.role) THEN OwnProperty
                       ELSE access.assigned]

\* The session is made before the audit event; when that fails, the error page
\* comes with the cookie of a session that lives.
SignIn(s, recorded) ==
  /\ session[s] = NoSession /\ \A t \in 1 .. s - 1: session[t] # NoSession
  /\ member.status = "ACTIVE" /\ ~member.disabled
  /\ session' = Created(s)
  /\ cookie' = s
  /\ page' = IF recorded THEN Viewed(buildAccessContext) ELSE NoPage
  /\ UNCHANGED <<member, request, did, refused, sent, changes>>

\* The row may fail to be revoked; the cookie is cleared all the same.
SignOut(revoked) ==
  /\ cookie # 0 /\ resolve # Anonymous
  /\ session' = IF revoked THEN Revoked(cookie) ELSE session
  /\ cookie' = 0 /\ page' = NoPage
  /\ UNCHANGED <<member, request, did, refused, sent, changes>>

LoadPage ==
  /\ cookie # 0 /\ page' = Viewed(resolve)
  /\ UNCHANGED <<member, session, cookie, request, did, refused, sent, changes>>

\* A button of a page, or (typed) a request the page has no button for.
Arrive(control, p, typed) ==
  /\ request = NoRequest /\ sent < MaxRequests
  /\ typed \/ Offered(control, p)
  /\ request' = [control |-> control, property |-> p, access |-> resolve, typed |-> typed,
                 then |-> member, over |-> Over,
                 stale |-> page.changes # changes]
  /\ sent' = sent + 1 /\ refused' = NoRequest
  /\ UNCHANGED <<member, session, cookie, page, did, changes>>

\* The resolver, on the principal of the arrival.
Act ==
  /\ request # NoRequest
  /\ Allowed(request.access, request.control, request.property)
  /\ did' = did \cup {[control |-> request.control, property |-> request.property,
                       then |-> request.then, over |-> request.over]}
  /\ request' = NoRequest
  /\ UNCHANGED <<member, session, cookie, page, refused, sent, changes>>

Refuse ==
  /\ request # NoRequest
  /\ ~Allowed(request.access, request.control, request.property)
  /\ refused' = request
  /\ request' = NoRequest
  /\ UNCHANGED <<member, session, cookie, page, did, sent, changes>>

\* A list query over properties, answered at once.
Reading == Control("transaction:read", "none")
List(requested) ==
  /\ request = NoRequest /\ sent < MaxRequests /\ resolve # Anonymous
  /\ can(resolve, "transaction:read") /\ ~ScopeRefused(resolve, requested)
  /\ did' = did \cup {[control |-> Reading, property |-> p, then |-> member, over |-> Over]:
                        p \in resolvePropertyScope(resolve, requested) \cap OwnProperty}
  /\ sent' = sent + 1
  /\ UNCHANGED <<member, session, cookie, page, request, refused, changes>>

Expire(s) ==
  /\ session[s].state \in {"live", "revoked"} /\ ~session[s].expired
  /\ session' = [session EXCEPT ![s].expired = TRUE]
  /\ UNCHANGED <<member, cookie, page, request, did, refused, sent, changes>>

\* purgeExpired: expired rows, and rows revoked a week ago.
PurgeSession(s) ==
  /\ session[s].expired \/ session[s].state = "revoked"
  /\ session' = [session EXCEPT ![s] = [state |-> "gone", expired |-> FALSE]]
  /\ UNCHANGED <<member, cookie, page, request, did, refused, sent, changes>>

\* External: another role, other properties, a suspension, a disabled user.
Change(new) ==
  /\ changes < MaxChanges /\ member' = new /\ new # member
  /\ changes' = changes + 1
  /\ UNCHANGED <<session, cookie, page, request, did, refused, sent>>
ChangeRole(r) == r # member.role /\ Change([member EXCEPT !.role = r, !.tenure = @ + 1])
Assign(a) == Change([member EXCEPT !.assigned = a])
Suspend == Change([member EXCEPT !.status = "SUSPENDED"])
Disable == Change([member EXCEPT !.disabled = TRUE])

Next ==
  \/ \E s \in 1 .. MaxSessions:
       \/ \E recorded \in BOOLEAN: SignIn(s, recorded)
       \/ Expire(s) \/ PurgeSession(s)
  \/ \E revoked \in BOOLEAN: SignOut(revoked)
  \/ LoadPage \/ Act \/ Refuse
  \/ \E c \in Clicked, p \in Property, typed \in BOOLEAN: Arrive(c, p, typed)
  \/ \E ps \in SUBSET Property: List(ps)
  \/ \E r \in Role: ChangeRole(r)
  \/ \E a \in SUBSET OwnProperty: Assign(a)
  \/ Suspend \/ Disable

----------------------------------------------------------------------------
(* Properties                                                              *)

\* What a person did, the membership allowed when the request arrived, through
\* a session that nobody had ended; a write-off was a controller's.
ActsByMembership ==
  \A d \in did:
    /\ d.then.status = "ACTIVE" /\ ~d.then.disabled /\ ~d.over
    /\ d.control.action \in ROLE_ACTIONS[d.then.role]
    /\ mayChoose(d.then.role, d.control)
    /\ d.property \in OwnProperty
    /\ isOrganizationScoped(d.then.role) \/ d.property \in d.then.assigned

\* In one role nobody both makes charges and closes the month they are in, and
\* who administers the organization does neither.
DutiesSeparated ==
  \A d, e \in did: d.then.tenure = e.then.tenure =>
    /\ ~(d.control.action = "charge:generate" /\ e.control.action = "period:close")
    /\ d.then.role = "ORG_ADMIN" =>
         d.control.action \notin {"charge:generate", "allocation:approve", "period:close"}

\* A button is refused only when something changed since its page was loaded,
\* the session is over, or the membership is suspended; or when an accountant
\* chose one of the two resolutions that the page offers to every role and the
\* rules keep for a controller.
NoDeadButtons ==
  refused # NoRequest =>
    \/ refused.typed \/ refused.stale \/ refused.over
    \/ refused.then.status # "ACTIVE" \/ refused.then.disabled
    \/ refused.then.role = "ACCOUNTANT" /\ refused.control.resolution \in CONTROLLER_ONLY_RESOLUTIONS

ActsWithinAccess == ActsByMembership /\ DutiesSeparated /\ NoDeadButtons
=============================================================================
