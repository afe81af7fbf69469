---------------------------- MODULE OfficeProofs ----------------------------
(***************************************************************************)
(* Theorems about the parts of the office that share no state: who may act *)
(* (Access), what an answer may cite (Assistant), what the page of imports *)
(* queues (ImportPage), how often the page of a month closes it            *)
(* (ClosePage), how a prorated rent is rounded (Decimals), and what a      *)
(* lease is billed (Billing, which this module extends).                   *)
(***************************************************************************)
EXTENDS Billing, FiniteSums, SequenceTheorems

CONSTANTS OwnProperty, ForeignProperty, Clicked, MaxSessions, MaxChanges, MaxRequests
VARIABLES member, session, cookie, page, request, did, refused, sent, changes
A == INSTANCE Access

CONSTANTS Payment, Allocation, ChargesByDue, PropertyOf, AllocationOf, Open, ChargeLimit, Invented,
          MaxToolCalls, MaxCitations, MaxNotes, Scopes, Turns
VARIABLES run, called, rows, pending, retrieved, answer, audited, late
S == INSTANCE Assistant

CONSTANTS Import, Bytes, Valid, MaxUploads
VARIABLES batch, stored, importId, detail, validatedHash, validating, wanted, uploads, seen, queued
I == INSTANCE ImportPage

CONSTANTS Month, Code, NeedsReason, Rows, MaxVersions, MaxTicks, MaxPresses, MaxChoices
VARIABLES period, month, readiness, record, asking, acknowledged, made, confirming, pressed, settled,
          presses, closes, choices
C == INSTANCE ClosePage

----------------------------------------------------------------------------
(* Access.  What was done keeps the membership of the moment its request   *)
(* arrived; the invariant says that this moment allowed it, and that two   *)
(* moments of one tenure had one role.                                     *)

Member == [role: A!Role, status: {"ACTIVE", "SUSPENDED"}, assigned: SUBSET OwnProperty,
           disabled: BOOLEAN, tenure: Nat]

\* What a membership that is in force lets its user do.
Lets(m, action, p) ==
  /\ action \in A!ROLE_ACTIONS[m.role]
  /\ p \in OwnProperty
  /\ A!isOrganizationScoped(m.role) \/ p \in m.assigned

\* The memberships somebody acted with, may still act with, or has now.
Known == {member} \cup {d.then: d \in did} \cup {request.then: r \in {request} \ {A!NoRequest}}

TenuresFit ==
  /\ changes \in Nat
  /\ Known \subseteq Member
  /\ \A m \in Known: m.tenure <= member.tenure
  /\ \A m, n \in Known: m.tenure = n.tenure => m.role = n.role

\* As long as nothing has changed, the page has buttons for what is allowed.
PageFits ==
  /\ page.changes \in Nat /\ page.changes <= changes
  /\ page.changes = changes =>
       \A action \in page.permissions, p \in page.properties: Lets(member, action, p)

\* The principal of a request is made of the membership at its arrival, and a
\* button that is not stale was for something this membership allows.
RequestFits ==
  request # A!NoRequest =>
    /\ request.access = IF request.over \/ request.then.disabled THEN A!Anonymous
                        ELSE [role |-> request.then.role, status |-> request.then.status,
                              assigned |-> request.then.assigned]
    /\ (~request.typed /\ ~request.stale) =>
         Lets(request.then, request.control.action, request.property)

DeedsFit ==
  \A d \in did:
    /\ d.then.status = "ACTIVE" /\ ~d.then.disabled /\ ~d.over
    /\ Lets(d.then, d.control.action, d.property)
    /\ A!mayChoose(d.then.role, d.control)

AInv == TenuresFit /\ PageFits /\ RequestFits /\ DeedsFit /\ A!NoDeadButtons

(* Charges are generated by accountants, months closed by controllers, and *)
(* an administrator of the organization approves nothing.                  *)
LEMMA DutiesAreOfOneRole ==
  ASSUME NEW r \in A!Role
  PROVE  /\ "charge:generate" \in A!ROLE_ACTIONS[r] => r = "ACCOUNTANT"
         /\ "period:close" \in A!ROLE_ACTIONS[r] => r = "PORTFOLIO_CONTROLLER"
         /\ r = "ORG_ADMIN" => "allocation:approve" \notin A!ROLE_ACTIONS[r]
         /\ "exception:resolve" \in A!ROLE_ACTIONS[r] => r \in {"ACCOUNTANT", "PORTFOLIO_CONTROLLER"}
BY DEF A!Role, A!ROLE_ACTIONS, A!READ_ONLY_FINANCIAL

(* The invariant says what the property does.                              *)
LEMMA AccessFollows == AInv => A!ActsWithinAccess
<1> SUFFICES ASSUME AInv PROVE A!ActsWithinAccess
  OBVIOUS
<1> USE DEF AInv
<1>1. A!ActsByMembership
  BY DEF A!ActsByMembership, DeedsFit, Lets
<1>2. A!DutiesSeparated
  <2> SUFFICES ASSUME NEW d \in did, NEW e \in did, d.then.tenure = e.then.tenure
               PROVE  /\ ~(d.control.action = "charge:generate" /\ e.control.action = "period:close")
                      /\ d.then.role = "ORG_ADMIN" =>
                           d.control.action \notin {"charge:generate", "allocation:approve",
                                                    "period:close"}
    BY DEF A!DutiesSeparated
  <2>1. d.then \in Known /\ e.then \in Known
    BY DEF Known
  <2>2. d.then.role \in A!Role /\ e.then.role = d.then.role
    BY <2>1 DEF TenuresFit, Member
  <2>3. /\ d.control.action \in A!ROLE_ACTIONS[d.then.role]
        /\ e.control.action \in A!ROLE_ACTIONS[d.then.role]
    BY <2>2 DEF DeedsFit, Lets
  <2> QED
    BY <2>2, <2>3, DutiesAreOfOneRole
<1> QED
  BY <1>1, <1>2 DEF A!ActsWithinAccess

(* A step that adds nothing to what is known but the membership of now,    *)
(* which has its old tenure and role or a new tenure.                      *)
LEMMA KnownGrows ==
  ASSUME TenuresFit, Known' \subseteq Known \cup {member'}, member' \in Member, changes' \in Nat,
         \/ member'.tenure = member.tenure /\ member'.role = member.role
         \/ member'.tenure = member.tenure + 1
  PROVE  TenuresFit'
<1>1. /\ member \in Known
      /\ \A m \in Known: m \in Member /\ m.tenure \in Nat /\ m.tenure <= member.tenure
  BY DEF TenuresFit, Member, Known
<1>2. \A m \in Known': m \in Member /\ m.tenure <= member'.tenure
  BY <1>1 DEF Member
<1>3. ASSUME NEW m \in Known', NEW n \in Known', m.tenure = n.tenure
      PROVE  m.role = n.role
  <2>1. CASE m \in Known /\ n \in Known
    BY <2>1, <1>3 DEF TenuresFit
  <2>2. CASE m = member' /\ n \in Known
    BY <2>2, <1>1, <1>3 DEF TenuresFit
  <2>3. CASE m \in Known /\ n = member'
    BY <2>3, <1>1, <1>3 DEF TenuresFit
  <2>4. CASE m = member' /\ n = member'
    BY <2>4
  <2> QED BY <2>1, <2>2, <2>3, <2>4
<1> QED
  BY <1>2, <1>3 DEF TenuresFit

(* A step that leaves the membership and what was done alone, and takes on *)
(* no request but one that arrives now.                                    *)
LEMMA NobodyNew ==
  ASSUME AInv, UNCHANGED <<member, did, changes>>,
         request' = request \/ request' = A!NoRequest \/ request'.then = member
  PROVE  TenuresFit' /\ DeedsFit'
<1>1. Known' \subseteq Known \cup {member'}
  BY DEF Known
<1>2. member' \in Member /\ changes' \in Nat
  BY DEF AInv, TenuresFit, Known
<1> QED
  BY <1>1, <1>2, KnownGrows DEF AInv, DeedsFit

(* What a page shows of a principal is what this principal is allowed.     *)
LEMMA ViewedFits ==
  ASSUME AInv, NEW access, access = A!Anonymous \/ access = A!buildAccessContext,
         page' = A!Viewed(access), UNCHANGED <<member, changes>>
  PROVE  PageFits'
<1>1. changes \in Nat /\ member \in Member
  BY DEF AInv, TenuresFit, Known
<1>2. CASE access = A!Anonymous
  BY <1>1, <1>2 DEF A!Viewed, A!NoPage, PageFits
<1>3. CASE access # A!Anonymous
  <2>1. access.role = member.role /\ access.assigned = member.assigned
    BY <1>3 DEF A!buildAccessContext
  <2>2. /\ page'.permissions = A!ROLE_ACTIONS[member.role] /\ page'.changes = changes
        /\ page'.properties = IF A!isOrganizationScoped(member.role) THEN OwnProperty
                              ELSE member.assigned
    BY <1>3, <2>1 DEF A!Viewed
  <2> QED BY <1>1, <2>2 DEF PageFits, Lets, Member
<1> QED BY <1>2, <1>3

(* The invariant holds at the beginning.                                   *)
LEMMA InitAInv == A!Init => AInv
<1> SUFFICES ASSUME A!Init PROVE AInv
  OBVIOUS
<1>1. /\ member \in Member /\ changes = 0 /\ did = {} /\ request = A!NoRequest
      /\ page = A!NoPage /\ refused = A!NoRequest
  BY DEF A!Init, Member
<1>2. TenuresFit
  BY <1>1 DEF TenuresFit, Known, Member
<1> QED
  BY <1>1, <1>2 DEF AInv, PageFits, A!NoPage, RequestFits, DeedsFit, A!NoDeadButtons

(* Signing in and out and loading a page.                                  *)
LEMMA SessionsAInv ==
  ASSUME AInv, \/ \E s \in 1 .. MaxSessions, recorded \in BOOLEAN: A!SignIn(s, recorded)
               \/ \E revoked \in BOOLEAN: A!SignOut(revoked)
               \/ A!LoadPage
  PROVE  AInv'
<1>1. UNCHANGED <<member, request, did, refused, changes>>
  BY DEF A!SignIn, A!SignOut, A!LoadPage
<1>2. \/ page' = A!NoPage
      \/ \E access \in {A!Anonymous, A!buildAccessContext}: page' = A!Viewed(access)
  BY DEF A!SignIn, A!SignOut, A!LoadPage, A!resolve
<1>3. A!Viewed(A!Anonymous) = A!NoPage
  BY DEF A!Viewed
<1>4. PageFits'
  BY <1>1, <1>2, <1>3, ViewedFits
<1>5. RequestFits'
  BY <1>1 DEF AInv, RequestFits
<1> QED
  BY <1>1, <1>4, <1>5, NobodyNew DEF AInv, A!NoDeadButtons

(* A request arrives.                                                      *)
LEMMA ArriveAInv ==
  ASSUME AInv, NEW control, NEW p, NEW typed \in BOOLEAN, A!Arrive(control, p, typed)
  PROVE  AInv'
<1>1. /\ UNCHANGED <<member, page, did, changes>> /\ refused' = A!NoRequest
      /\ request'.control = control /\ request'.property = p /\ request'.access = A!resolve
      /\ request'.typed = typed /\ request'.then = member /\ request'.over = A!Over
      /\ request'.stale = (page.changes # changes)
      /\ typed \/ A!Offered(control, p)
  BY DEF A!Arrive
<1>2. A!resolve = IF A!Over THEN A!Anonymous ELSE A!buildAccessContext
  BY DEF A!resolve, A!Resolves, A!Over
<1>3. request'.access = IF request'.over \/ member.disabled THEN A!Anonymous
                        ELSE [role |-> member.role, status |-> member.status,
                              assigned |-> member.assigned]
  BY <1>1, <1>2 DEF A!buildAccessContext
<1>4. (~typed /\ page.changes = changes) => Lets(member, control.action, p)
  BY <1>1 DEF AInv, PageFits, A!Offered
<1>5. RequestFits'
  BY <1>1, <1>3, <1>4 DEF RequestFits, Lets
<1> QED
  BY <1>1, <1>5, NobodyNew DEF AInv, PageFits, Lets, A!NoDeadButtons

(* A request is answered: done, or refused.                                *)
LEMMA AnswerAInv ==
  ASSUME AInv, A!Act \/ A!Refuse
  PROVE  AInv'
<1>1. UNCHANGED <<member, page, changes>> /\ request' = A!NoRequest
  BY DEF A!Act, A!Refuse
<1>2. PageFits' /\ RequestFits'
  BY <1>1 DEF AInv, PageFits, RequestFits
<1>3. request.then \in Known /\ request # A!NoRequest
  BY DEF A!Act, A!Refuse, Known
<1>4. /\ request.access = IF request.over \/ request.then.disabled THEN A!Anonymous
                          ELSE [role |-> request.then.role, status |-> request.then.status,
                                assigned |-> request.then.assigned]
      /\ (~request.typed /\ ~request.stale) =>
           Lets(request.then, request.control.action, request.property)
  BY <1>3 DEF AInv, RequestFits
<1>5. CASE A!Act
  <2> DEFINE deed == [control |-> request.control, property |-> request.property,
                      then |-> request.then, over |-> request.over]
  <2>1. did' = did \cup {deed} /\ refused' = refused
    BY <1>5 DEF A!Act
  <2>2. /\ A!authorizeProperty(request.access, request.control.action, request.property)
        /\ A!mayChoose(request.access.role, request.control)
    BY <1>5 DEF A!Act, A!Allowed
  <2>3. /\ ~request.over /\ ~request.then.disabled
        /\ request.access.role = request.then.role /\ request.access.status = request.then.status
        /\ request.access.assigned = request.then.assigned
    BY <1>4, <2>2 DEF A!authorizeProperty
  <2>4. /\ request.then.status = "ACTIVE"
        /\ Lets(request.then, request.control.action, request.property)
    BY <2>2, <2>3 DEF A!authorizeProperty, A!can, A!hasPropertyAccess, Lets
  <2>5. DeedsFit'
    BY <2>1, <2>2, <2>3, <2>4 DEF AInv, DeedsFit, Lets, A!mayChoose
  <2>6. Known' \subseteq Known \cup {member'}
    BY <1>1, <1>3, <2>1 DEF Known
  <2>7. TenuresFit'
    BY <1>1, <2>6, KnownGrows DEF AInv, TenuresFit, Known
  <2>8. A!NoDeadButtons'
    BY <2>1 DEF AInv, A!NoDeadButtons
  <2> QED BY <1>2, <2>5, <2>7, <2>8 DEF AInv
<1>6. CASE A!Refuse
  <2>1. /\ did' = did /\ refused' = request
        /\ ~A!Allowed(request.access, request.control, request.property)
    BY <1>6 DEF A!Refuse
  <2>2. A!NoDeadButtons'
    <3> SUFFICES ASSUME ~request.typed, ~request.stale, ~request.over,
                        request.then.status = "ACTIVE", ~request.then.disabled
                 PROVE  /\ request.then.role = "ACCOUNTANT"
                        /\ request.control.resolution \in A!CONTROLLER_ONLY_RESOLUTIONS
      BY <2>1 DEF A!NoDeadButtons
    <3>1. /\ Lets(request.then, request.control.action, request.property)
          /\ request.access.role = request.then.role /\ request.access.status = "ACTIVE"
          /\ request.access.assigned = request.then.assigned
      BY <1>4
    <3>2. request.access # A!Anonymous
      BY <3>1 DEF A!Anonymous
    <3>3. A!authorizeProperty(request.access, request.control.action, request.property)
      BY <3>1, <3>2 DEF A!authorizeProperty, A!can, A!hasPropertyAccess, Lets
    <3>4. ~A!mayChoose(request.then.role, request.control)
      BY <2>1, <3>1, <3>3 DEF A!Allowed
    <3>5. request.then.role \in A!Role
      BY <1>3 DEF AInv, TenuresFit, Member
    <3> QED BY <3>1, <3>4, <3>5, DutiesAreOfOneRole DEF A!mayChoose, Lets
  <2>3. TenuresFit' /\ DeedsFit'
    BY <1>1, <2>1, NobodyNew
  <2> QED BY <1>2, <2>2, <2>3 DEF AInv
<1> QED BY <1>5, <1>6

(* A list is shown.                                                        *)
LEMMA ListAInv ==
  ASSUME AInv, NEW requested \in SUBSET A!Property, A!List(requested)
  PROVE  AInv'
<1> DEFINE scope == A!resolvePropertyScope(A!resolve, requested) \cap OwnProperty
           deed(p) == [control |-> A!Reading, property |-> p, then |-> member, over |-> A!Over]
<1>1. /\ UNCHANGED <<member, page, request, refused, changes>>
      /\ did' = did \cup {deed(p): p \in scope}
      /\ A!resolve # A!Anonymous /\ A!can(A!resolve, "transaction:read")
      /\ ~A!ScopeRefused(A!resolve, requested)
  BY DEF A!List
<1>2. /\ ~A!Over /\ ~member.disabled /\ A!resolve.role = member.role
      /\ A!resolve.status = member.status /\ A!resolve.assigned = member.assigned
  BY <1>1 DEF A!resolve, A!Resolves, A!Over, A!buildAccessContext
<1>3. member.status = "ACTIVE" /\ "transaction:read" \in A!ROLE_ACTIONS[member.role]
  BY <1>1, <1>2 DEF A!can
<1>4. ASSUME NEW p \in scope PROVE Lets(member, "transaction:read", p)
  <2>1. CASE requested = {}
    BY <1>2, <1>3, <2>1 DEF A!resolvePropertyScope, Lets
  <2>2. CASE requested # {}
    BY <1>1, <1>2, <1>3, <2>2 DEF A!resolvePropertyScope, A!ScopeRefused, A!hasPropertyAccess, Lets
  <2> QED BY <2>1, <2>2
<1>5. DeedsFit'
  <2> SUFFICES ASSUME NEW p \in scope
               PROVE  /\ deed(p).then.status = "ACTIVE" /\ ~deed(p).then.disabled /\ ~deed(p).over
                      /\ Lets(deed(p).then, deed(p).control.action, deed(p).property)
                      /\ A!mayChoose(deed(p).then.role, deed(p).control)
    BY <1>1 DEF AInv, DeedsFit, Lets, A!mayChoose
  <2> QED
    BY <1>2, <1>3, <1>4 DEF A!Reading, A!Control, A!mayChoose
<1>6. Known' \subseteq Known \cup {member'}
  BY <1>1 DEF Known
<1>7. TenuresFit'
  BY <1>1, <1>6, KnownGrows DEF AInv, TenuresFit, Known
<1>8. PageFits' /\ RequestFits' /\ A!NoDeadButtons'
  BY <1>1 DEF AInv, PageFits, RequestFits, A!NoDeadButtons
<1> QED BY <1>5, <1>7, <1>8 DEF AInv

(* Sessions end by themselves.                                             *)
LEMMA ClockAInv ==
  ASSUME AInv, \E s \in 1 .. MaxSessions: A!Expire(s) \/ A!PurgeSession(s)
  PROVE  AInv'
<1>1. UNCHANGED <<member, page, request, did, refused, changes>>
  BY DEF A!Expire, A!PurgeSession
<1>2. TenuresFit' /\ DeedsFit'
  BY <1>1, NobodyNew
<1> QED BY <1>1, <1>2 DEF AInv, PageFits, RequestFits, A!NoDeadButtons

(* The membership changes: every page is out of date.                      *)
LEMMA ChangeAInv ==
  ASSUME AInv, \/ \E r \in A!Role: A!ChangeRole(r)
               \/ \E a \in SUBSET OwnProperty: A!Assign(a)
               \/ A!Suspend \/ A!Disable
  PROVE  AInv'
<1>1. UNCHANGED <<page, request, did, refused>> /\ changes' = changes + 1
  BY DEF A!ChangeRole, A!Assign, A!Suspend, A!Disable, A!Change
<1>2. member \in Member /\ changes \in Nat
  BY DEF AInv, TenuresFit, Known
<1>3. /\ member' \in Member
      /\ \/ member'.tenure = member.tenure /\ member'.role = member.role
         \/ member'.tenure = member.tenure + 1
  <2>1. ASSUME NEW r \in A!Role, A!ChangeRole(r)
        PROVE  member' \in Member /\ member'.tenure = member.tenure + 1
    <3>1. member' = [member EXCEPT !.role = r, !.tenure = @ + 1]
      BY <2>1 DEF A!ChangeRole, A!Change
    <3> DEFINE renamed == [member EXCEPT !.role = r]
    <3>2. renamed \in Member /\ renamed.tenure = member.tenure
      BY <1>2 DEF Member
    <3>3. member' = [renamed EXCEPT !.tenure = @ + 1]
      BY <1>2, <3>1 DEF Member
    <3> HIDE DEF renamed
    <3> QED BY <3>2, <3>3 DEF Member
  <2>2. ASSUME NEW a \in SUBSET OwnProperty, A!Assign(a)
        PROVE  member' \in Member /\ member'.tenure = member.tenure /\ member'.role = member.role
    BY <1>2, <2>2 DEF A!Assign, A!Change, Member
  <2>3. ASSUME A!Suspend
        PROVE  member' \in Member /\ member'.tenure = member.tenure /\ member'.role = member.role
    BY <1>2, <2>3 DEF A!Suspend, A!Change, Member
  <2>4. ASSUME A!Disable
        PROVE  member' \in Member /\ member'.tenure = member.tenure /\ member'.role = member.role
    BY <1>2, <2>4 DEF A!Disable, A!Change, Member
  <2> QED BY <2>1, <2>2, <2>3, <2>4
<1>4. Known' \subseteq Known \cup {member'}
  BY <1>1 DEF Known
<1>5. TenuresFit'
  BY <1>1, <1>2, <1>3, <1>4, KnownGrows DEF AInv
<1>6. PageFits'
  BY <1>1, <1>2 DEF AInv, PageFits
<1> QED BY <1>1, <1>5, <1>6 DEF AInv, RequestFits, DeedsFit, A!NoDeadButtons

(* Every step keeps the invariant.                                         *)
LEMMA NextAInv == AInv /\ [A!Next]_A!vars => AInv'
<1> SUFFICES ASSUME AInv, [A!Next]_A!vars PROVE AInv'
  OBVIOUS
<1>1. CASE UNCHANGED A!vars
  <2>1. UNCHANGED <<member, page, request, did, refused, changes>>
    BY <1>1 DEF A!vars
  <2>2. TenuresFit' /\ DeedsFit'
    BY <2>1, NobodyNew
  <2> QED BY <2>1, <2>2 DEF AInv, PageFits, RequestFits, A!NoDeadButtons
<1>2. CASE A!Next
  <2>1. CASE \/ \E s \in 1 .. MaxSessions, recorded \in BOOLEAN: A!SignIn(s, recorded)
             \/ \E revoked \in BOOLEAN: A!SignOut(revoked)
             \/ A!LoadPage
    BY <2>1, SessionsAInv
  <2>2. CASE \E control \in Clicked, p \in A!Property, typed \in BOOLEAN: A!Arrive(control, p, typed)
    BY <2>2, ArriveAInv
  <2>3. CASE A!Act \/ A!Refuse
    BY <2>3, AnswerAInv
  <2>4. CASE \E requested \in SUBSET A!Property: A!List(requested)
    BY <2>4, ListAInv
  <2>6. CASE \E s \in 1 .. MaxSessions: A!Expire(s) \/ A!PurgeSession(s)
    BY <2>6, ClockAInv
  <2>7. CASE \/ \E r \in A!Role: A!ChangeRole(r)
             \/ \E a \in SUBSET OwnProperty: A!Assign(a)
             \/ A!Suspend \/ A!Disable
    BY <2>7, ChangeAInv
  <2> QED BY <1>2, <2>1, <2>2, <2>3, <2>4, <2>6, <2>7 DEF A!Next
<1> QED BY <1>1, <1>2

(* Whoever acts was allowed to by the membership of the moment the request *)
(* arrived and through a session nobody had ended; no role both makes      *)
(* charges and closes months; write-offs are controllers'; and no button   *)
(* is refused without a change of the access, but an accountant's choice   *)
(* of a resolution that is a controller's, which the page does offer.      *)
(* For every number of properties, sessions, changes and requests.         *)
THEOREM AccessIsRespected == A!Init /\ [][A!Next]_A!vars => []A!ActsWithinAccess
<1>1. A!Init /\ [][A!Next]_A!vars => []AInv
  BY InitAInv, NextAInv, PTL
<1> QED BY <1>1, AccessFollows, PTL

----------------------------------------------------------------------------
(* Assistant.  What tools have returned may be seen, whatever was asked    *)
(* for; the answer is cut to it.  Each call of the mock provider is a step *)
(* of its plan that it has not tried.                                      *)

PlanTools == {S!Plan[i]: i \in DOMAIN S!Plan}
Denials == {i \in DOMAIN rows: rows[i] # "allowed"}
Outcomes == {"allowed", "denied", "failed"}

RunTyped ==
  /\ run \in [status: {"RUNNING", "SUCCEEDED", "FAILED", "BUDGET_EXCEEDED"},
              phase: {"turn", "denying", "completing", "ended"}, scope: Scopes,
              provider: {"mock", "model"}, linked: BOOLEAN]
  /\ rows \in Seq(Outcomes) /\ IsFiniteSet(retrieved)
  /\ audited \in [denials: Nat, completed: BOOLEAN]
  /\ run.phase \in {"turn", "denying"} => run.status = "RUNNING"
  /\ pending # <<>> => run.phase \in {"turn", "denying"}

MaySee(r) ==
  /\ r \in S!Record
  /\ r \in Payment => S!Visible(r)
  /\ r \in Allocation => S!Visible(AllocationOf[r])
  /\ r \in Open => S!Here \in run.scope

AnswerFits ==
  /\ answer.cited \subseteq retrieved
  /\ S!GapsAreTold

\* What the mock provider asks for next: a step of the plan, with a payment
\* that an earlier result named.
Planned(c) ==
  /\ c.tool \in PlanTools \ called
  /\ c.tool \in S!NeedsPayment => c.payment \in retrieved \cap Payment
MockFits ==
  run.provider = "mock" =>
    /\ pending # <<>> => pending = <<Head(pending)>> /\ Planned(Head(pending))
    /\ called \subseteq PlanTools /\ Len(rows) = Cardinality(called)

\* While a denial waits for its event, it is the one refusal that has none.
DenyingCounts == run.phase = "denying" => S!Refusals = audited.denials + 1

SInv == /\ RunTyped /\ DenyingCounts
        /\ \A r \in retrieved: MaySee(r)
        /\ AnswerFits /\ S!CallsAccounted /\ MockFits /\ S!MockBehaves

(* Assistant counts as this module does.                                   *)
LEMMA SameCounts == \A X: (S!IsFiniteSet(X) <=> IsFiniteSet(X)) /\ S!Cardinality(X) = Cardinality(X)
<1>1. ASSUME NEW X PROVE S!IsFiniteSet(X) <=> IsFiniteSet(X)
  BY DEF S!IsFiniteSet, IsFiniteSet
<1>2. ASSUME NEW X PROVE S!Cardinality(X) = Cardinality(X)
  BY DEF S!Cardinality, Cardinality
<1> QED BY <1>1, <1>2

(* There are finitely many ids.                                            *)
LEMMA FiniteIds ==
  ASSUME S!AssistantAssumption
  PROVE  IsFiniteSet(Payment) /\ IsFiniteSet(Allocation) /\ IsFiniteSet(Open)
BY SameCounts DEF S!AssistantAssumption

(* The plan has four steps.                                                *)
LEMMA PlanHasFour == /\ PlanTools = {"get_exception", "get_transaction", "get_match_evidence",
                                     "list_candidate_charges"}
                     /\ PlanTools \subseteq S!Tools
                     /\ IsFiniteSet(PlanTools) /\ Cardinality(PlanTools) = 4 /\ Len(S!Plan) = 4
<1>1. DOMAIN S!Plan = 1 .. 4 /\ Len(S!Plan) = 4
  BY DEF S!Plan
<1>2. PlanTools = {S!Plan[1], S!Plan[2], S!Plan[3], S!Plan[4]}
  BY <1>1 DEF PlanTools
<1>3. PlanTools = {"get_exception", "get_transaction", "get_match_evidence",
                   "list_candidate_charges"}
  BY <1>2 DEF S!Plan
<1>4. /\ IsFiniteSet({"get_exception"}) /\ Cardinality({"get_exception"}) = 1
  BY FS_Singleton
<1>5. /\ IsFiniteSet({"get_exception"} \cup {"get_transaction"})
      /\ Cardinality({"get_exception"} \cup {"get_transaction"}) = 2
  BY <1>4, FS_AddElement
<1>6. /\ IsFiniteSet({"get_exception", "get_transaction"} \cup {"get_match_evidence"})
      /\ Cardinality({"get_exception", "get_transaction"} \cup {"get_match_evidence"}) = 3
  <2>1. {"get_exception"} \cup {"get_transaction"} = {"get_exception", "get_transaction"}
    OBVIOUS
  <2> QED BY <1>5, <2>1, FS_AddElement
<1>7. /\ IsFiniteSet(PlanTools) /\ Cardinality(PlanTools) = 4
  <2>1. /\ {"get_exception", "get_transaction"} \cup {"get_match_evidence"}
             = {"get_exception", "get_transaction", "get_match_evidence"}
        /\ PlanTools = {"get_exception", "get_transaction", "get_match_evidence"}
                       \cup {"list_candidate_charges"}
    BY <1>3
  <2> QED BY <1>6, <2>1, FS_AddElement
<1> QED
  BY <1>1, <1>3, <1>7 DEF S!Tools

(* What a tool that is not refused returns may be seen.                    *)
LEMMA ReturnedMayBeSeen ==
  ASSUME S!AssistantAssumption, NEW c, ~S!Denied(c)
  PROVE  IsFiniteSet(S!Returned(c)) /\ \A r \in S!Returned(c): MaySee(r)
<1> USE DEF S!AssistantAssumption, MaySee, S!Record
<1>1. c.tool \in S!Tools
  BY DEF S!Denied
<1>2. CASE c.tool = "get_exception"
  <2> DEFINE own == CHOOSE p \in Payment: PropertyOf[p] = S!Here
  <2>1. own \in Payment /\ PropertyOf[own] = S!Here
    OBVIOUS
  <2>2. S!Here \in run.scope
    BY <1>2 DEF S!Denied
  <2>3. S!Returned(c) = {S!Case, S!TenantId} \cup (IF run.linked THEN {own} ELSE {})
    BY <1>2 DEF S!Returned, S!getException
  <2> HIDE DEF own
  <2>4. IsFiniteSet({S!Case} \cup {S!TenantId} \cup (IF run.linked THEN {own} ELSE {}))
    <3>1. IsFiniteSet({S!Case}) /\ IsFiniteSet({S!TenantId}) /\ IsFiniteSet(IF run.linked THEN {own} ELSE {})
      BY FS_Singleton, FS_EmptySet
    <3> QED BY <3>1, FS_Union
  <2>5. S!Returned(c) = {S!Case} \cup {S!TenantId} \cup (IF run.linked THEN {own} ELSE {})
    BY <2>3
  <2>6. IsFiniteSet(S!Returned(c))
    BY <2>4, <2>5
  <2> QED BY <2>1, <2>2, <2>3, <2>6 DEF S!Visible
<1>3. CASE c.tool = "list_candidate_charges"
  <2>1. S!Here \in run.scope
    BY <1>3 DEF S!Denied
  <2>2. S!Returned(c) \subseteq Open
    BY <1>3 DEF S!Returned, S!CandidateCharges
  <2>3. IsFiniteSet(S!Returned(c))
    BY <2>2, FiniteIds, FS_Subset
  <2> QED BY <2>1, <2>2, <2>3
<1>4. CASE c.tool = "get_tenant_payment_history"
  <2>1. S!Returned(c) = {S!TenantId} \cup S!VisibleHistory
    BY <1>4 DEF S!Returned
  <2>2. S!VisibleHistory \subseteq Payment /\ \A p \in S!VisibleHistory: S!Visible(p)
    BY DEF S!VisibleHistory, S!HistoryOf
  <2>3. IsFiniteSet({S!TenantId}) /\ IsFiniteSet(S!VisibleHistory)
    BY <2>2, FiniteIds, FS_Singleton, FS_Subset
  <2>4. IsFiniteSet({S!TenantId} \cup S!VisibleHistory)
    BY <2>3, FS_Union
  <2>5. IsFiniteSet(S!Returned(c))
    BY <2>1, <2>4
  <2> QED BY <2>1, <2>2, <2>5
<1>5. CASE c.tool \in S!NeedsPayment
  <2>1. c.payment \in Payment /\ S!Visible(c.payment)
    BY <1>5 DEF S!Denied
  <2>2. CASE c.tool = "list_allocations"
    <3>1. S!Returned(c) = {c.payment} \cup {a \in Allocation: AllocationOf[a] = c.payment}
      BY <2>2 DEF S!Returned, S!listAllocations
    <3> DEFINE drawn == {a \in Allocation: AllocationOf[a] = c.payment}
    <3>2. drawn \subseteq Allocation
      OBVIOUS
    <3>3. IsFiniteSet({c.payment}) /\ IsFiniteSet(drawn)
      BY <3>2, FiniteIds, FS_Singleton, FS_Subset
    <3>4. IsFiniteSet({c.payment} \cup drawn)
      BY <3>3, FS_Union
    <3>5. IsFiniteSet(S!Returned(c))
      BY <3>1, <3>4
    <3> QED BY <2>1, <3>1, <3>5
  <2>3. CASE c.tool # "list_allocations"
    <3>1. S!Returned(c) = {c.payment}
      BY <1>5, <2>3 DEF S!Returned, S!NeedsPayment
    <3>2. IsFiniteSet({c.payment})
      BY FS_Singleton
    <3>3. IsFiniteSet(S!Returned(c))
      BY <3>1, <3>2
    <3> QED BY <2>1, <3>1, <3>3
  <2> QED BY <2>2, <2>3
<1> QED BY <1>1, <1>2, <1>3, <1>4, <1>5 DEF S!Tools, S!NeedsPayment

(* What may be seen stays so.                                              *)
LEMMA StillSeen ==
  ASSUME run'.scope = run.scope, NEW r, MaySee(r)
  PROVE  MaySee(r)'
BY DEF MaySee, S!Visible

(* A step that runs no tool and gives no answer: the run may end, over its *)
(* budget only when it is late or has used every call.                     *)
LEMMA QuietSInv ==
  ASSUME SInv, UNCHANGED <<called, rows, retrieved, answer>>, audited'.denials = audited.denials,
         run'.scope = run.scope, run'.provider = run.provider, RunTyped',
         \/ pending' = pending \/ pending' = <<>>
         \/ run.provider = "mock" => pending' = <<Head(pending')>> /\ Planned(Head(pending')),
         late => late',
         run'.phase = "denying" => run.phase = "denying",
         \/ run.phase \in {"turn", "completing"} \/ run' = run
         \/ run'.phase = "ended" /\ run'.status \in {"RUNNING", "FAILED"},
         run'.status = "SUCCEEDED" => run.status = "SUCCEEDED",
         run'.status = "BUDGET_EXCEEDED" =>
           \/ run.status = "BUDGET_EXCEEDED" \/ late'
           \/ Len(rows) = MaxToolCalls /\ (run.provider = "mock" => MaxToolCalls < Len(S!Plan))
  PROVE  SInv'
<1>1. \A r \in retrieved': MaySee(r)'
  BY StillSeen DEF SInv
<1>2. AnswerFits'
  BY DEF SInv, AnswerFits, S!GapsAreTold
<1>3. S!CallsAccounted'
  BY DEF SInv, S!CallsAccounted, S!Refusals
<1>4. MockFits'
  BY DEF SInv, MockFits, Planned
<1>5. S!MockBehaves'
  BY DEF SInv, S!MockBehaves
<1>6. DenyingCounts'
  BY DEF SInv, DenyingCounts, S!Refusals
<1> QED BY <1>1, <1>2, <1>3, <1>4, <1>5, <1>6 DEF SInv

(* While a planned call waits, the mock provider has not used all its      *)
(* calls.                                                                  *)
LEMMA PlannedIsWithin ==
  ASSUME SInv, run.provider = "mock", pending # <<>>
  PROVE  Len(rows) < Len(S!Plan)
<1> DEFINE c == Head(pending)
<1>1. c.tool \in PlanTools /\ c.tool \notin called /\ called \subseteq PlanTools
      /\ Len(rows) = Cardinality(called)
  BY DEF SInv, MockFits, Planned
<1> HIDE DEF c
<1>2. /\ IsFiniteSet(PlanTools \ {c.tool})
      /\ Cardinality(PlanTools \ {c.tool}) = 3
  <2>1. IsFiniteSet(PlanTools) /\ Cardinality(PlanTools) = 4
    BY PlanHasFour
  <2>2. /\ IsFiniteSet(PlanTools \ {c.tool})
        /\ Cardinality(PlanTools \ {c.tool})
             = IF c.tool \in PlanTools THEN Cardinality(PlanTools) - 1 ELSE Cardinality(PlanTools)
    BY <2>1, FS_RemoveElement, Zenon
  <2> QED BY <1>1, <2>1, <2>2
<1>3. called \subseteq PlanTools \ {c.tool}
  BY <1>1
<1>4. Cardinality(called) <= 3 /\ Cardinality(called) \in Nat
  BY <1>2, <1>3, FS_Subset, FS_CardinalityType
<1> QED BY <1>1, <1>4, PlanHasFour

(* The run ends, or its time passes.                                       *)
LEMMA EndsSInv ==
  ASSUME SInv, S!AssistantAssumption,
         \/ S!TimePasses \/ S!OutOfTime \/ S!ProviderFails \/ S!OverBudget \/ S!WriteFails
         \/ S!Complete \/ S!CompletionFails \/ S!Crash
  PROVE  SInv'
<1>1. RunTyped
  BY DEF SInv
<1>2. /\ UNCHANGED <<called, rows, retrieved, answer>> /\ audited'.denials = audited.denials
      /\ audited' \in [denials: Nat, completed: BOOLEAN]
      /\ late => late'
  <2>1. CASE S!Complete
    <3>1. /\ UNCHANGED <<called, rows, retrieved, answer, late>>
          /\ audited' = [audited EXCEPT !.completed = TRUE]
      BY <2>1 DEF S!Complete, S!callVars
    <3> QED BY <1>1, <3>1 DEF RunTyped
  <2>2. CASE S!TimePasses
    BY <1>1, <2>2 DEF RunTyped, S!TimePasses, S!callVars
  <2>3. CASE S!Crash \/ \E status \in {"FAILED", "BUDGET_EXCEEDED"}: S!End(status)
    BY <1>1, <2>3 DEF RunTyped, S!Crash, S!End
  <2> QED
    BY <2>1, <2>2, <2>3
       DEF S!OutOfTime, S!ProviderFails, S!OverBudget, S!WriteFails, S!CompletionFails
<1>3. CASE S!TimePasses
  <2>1. UNCHANGED <<run, pending>>
    BY <1>3 DEF S!TimePasses, S!callVars
  <2>2. RunTyped'
    BY <1>1, <1>2, <2>1 DEF RunTyped
  <2> QED BY <1>2, <2>1, <2>2, QuietSInv
<1>4. ASSUME NEW status \in {"FAILED", "BUDGET_EXCEEDED"}, S!End(status),
             status = "FAILED" \/ run.phase = "turn",
             status = "BUDGET_EXCEEDED" =>
               late \/ (Len(rows) = MaxToolCalls /\ (run.provider = "mock" => MaxToolCalls < Len(S!Plan)))
      PROVE  SInv'
  <2>1. run' = [run EXCEPT !.status = status, !.phase = "ended"] /\ pending' = <<>>
    BY <1>4 DEF S!End
  <2>2. RunTyped' /\ run'.scope = run.scope /\ run'.provider = run.provider /\ run'.status = status
    BY <1>1, <1>2, <2>1 DEF RunTyped
  <2> QED BY <1>2, <1>4, <2>1, <2>2, QuietSInv
<1>5. CASE S!OutOfTime
  BY <1>4, <1>5 DEF S!OutOfTime, S!AtTurn
<1>6. CASE S!ProviderFails \/ S!WriteFails \/ S!CompletionFails
  BY <1>4, <1>6 DEF S!ProviderFails, S!WriteFails, S!CompletionFails
<1>7. CASE S!OverBudget
  <2>1. /\ S!End("BUDGET_EXCEEDED") /\ pending # <<>> /\ Len(rows) >= MaxToolCalls
        /\ run.phase = "turn"
    BY <1>7 DEF S!OverBudget
  <2>2. Len(rows) = MaxToolCalls
    BY <1>1, <2>1, LenProperties DEF SInv, S!CallsAccounted, S!AssistantAssumption, RunTyped
  <2> QED BY <1>4, <2>1, <2>2, PlannedIsWithin
<1>8. CASE S!Complete \/ S!Crash
  <2>1. /\ run' = [run EXCEPT !.phase = "ended"] /\ pending' \in {pending, <<>>}
        /\ pending' = <<>> \/ run.phase = "completing"
        /\ run.phase # "ended"
    BY <1>8 DEF S!Complete, S!Crash, S!callVars
  <2>2. RunTyped' /\ run'.scope = run.scope /\ run'.provider = run.provider /\ run'.status = run.status
    BY <1>1, <1>2, <2>1 DEF RunTyped
  <2>3. run.phase = "denying" => run'.phase = "ended" /\ run'.status = "RUNNING"
    BY <1>1, <2>1 DEF RunTyped
  <2>4. run.phase \in {"turn", "denying", "completing"}
    BY <1>1, <2>1 DEF RunTyped
  <2> QED BY <1>2, <2>1, <2>2, <2>3, <2>4, QuietSInv
<1> QED BY <1>3, <1>5, <1>6, <1>7, <1>8

(* A provider asks for calls.                                              *)
LEMMA AsksSInv ==
  ASSUME SInv, S!MockAsks \/ S!ModelAsks
  PROVE  SInv'
<1>1. UNCHANGED <<run, called, rows, retrieved, answer, audited, late>> /\ run.phase = "turn"
  BY DEF S!MockAsks, S!ModelAsks, S!Ask, S!AtTurn
<1>2. ASSUME run.provider = "mock"
      PROVE  pending' = <<Head(pending')>> /\ Planned(Head(pending'))
  <2>1. S!MockAsks /\ S!PlanSteps # {}
    BY <1>2 DEF S!MockAsks, S!ModelAsks
  <2>2. PICK p \in S!KnownPayments \cup (IF S!KnownPayments = {} THEN {Invented} ELSE {}):
          pending' = <<[tool |-> S!Plan[S!NextStep], payment |-> p]>>
    BY <2>1 DEF S!MockAsks, S!Ask
  <2>3. S!NextStep \in S!PlanSteps
    <3>1. S!PlanSteps \subseteq 1 .. 4
      BY DEF S!PlanSteps, S!Plan
    <3>2. \E i \in S!PlanSteps: \A j \in S!PlanSteps: i <= j
      <4>1. 1 \in S!PlanSteps \/ 2 \in S!PlanSteps \/ 3 \in S!PlanSteps \/ 4 \in S!PlanSteps
        <5>1. PICK i \in S!PlanSteps: TRUE
          BY <2>1
        <5>2. i = 1 \/ i = 2 \/ i = 3 \/ i = 4
          BY <3>1
        <5> QED BY <5>1, <5>2
      <4> QED BY <3>1, <4>1
    <3> QED BY <3>2 DEF S!NextStep
  <2>4. /\ S!Plan[S!NextStep] \in PlanTools \ called
        /\ S!Plan[S!NextStep] \in S!NeedsPayment => S!KnownPayments # {}
    BY <2>3 DEF S!PlanSteps, PlanTools
  <2> QED BY <2>2, <2>4 DEF Planned, S!KnownPayments
<1>3. RunTyped'
  BY <1>1 DEF SInv, RunTyped
<1> QED BY <1>1, <1>2, <1>3, QuietSInv

(* A call is executed and has its row.                                     *)
LEMMA ExecuteSInv ==
  ASSUME SInv, S!AssistantAssumption, NEW broken \in BOOLEAN, S!ExecuteOne(broken)
  PROVE  SInv'
<1> DEFINE c == Head(pending)
           outcome == S!Outcome(c, broken)
           allowed == outcome = "allowed"
<1>1. /\ pending # <<>> /\ Len(rows) < MaxToolCalls /\ run.phase = "turn"
      /\ called' = IF run.provider = "mock" THEN called \cup {c.tool} ELSE called
      /\ rows' = Append(rows, outcome)
      /\ retrieved' = IF allowed THEN retrieved \cup S!Returned(c) ELSE retrieved
      /\ run' = IF allowed THEN run ELSE [run EXCEPT !.phase = "denying"]
      /\ pending' = Tail(pending)
      /\ UNCHANGED <<answer, audited, late>>
  BY DEF S!ExecuteOne
<1>2. RunTyped /\ run.status = "RUNNING"
  BY <1>1 DEF SInv, RunTyped
<1>3. allowed => IsFiniteSet(S!Returned(c)) /\ \A r \in S!Returned(c): MaySee(r)
  BY ReturnedMayBeSeen DEF S!Outcome
<1>4. outcome \in Outcomes /\ (outcome = "denied" => S!Denied(c))
  BY DEF S!Outcome, Outcomes
<1> HIDE DEF c, outcome
<1>5. /\ rows' \in Seq(Outcomes) /\ Len(rows') = Len(rows) + 1 /\ Len(rows) \in Nat
      /\ rows'[Len(rows) + 1] = outcome /\ \A i \in 1 .. Len(rows): rows'[i] = rows[i]
      /\ DOMAIN rows = 1 .. Len(rows) /\ DOMAIN rows' = 1 .. Len(rows) + 1
  BY <1>1, <1>2, <1>4, AppendProperties, LenProperties DEF RunTyped
<1>6. IsFiniteSet(retrieved')
  BY <1>1, <1>2, <1>3, FS_Union DEF RunTyped
<1>7. /\ run'.scope = run.scope /\ run'.provider = run.provider /\ run'.status = "RUNNING"
      /\ run'.phase = IF allowed THEN "turn" ELSE "denying"
      /\ run' \in [status: {"RUNNING", "SUCCEEDED", "FAILED", "BUDGET_EXCEEDED"},
                   phase: {"turn", "denying", "completing", "ended"}, scope: Scopes,
                   provider: {"mock", "model"}, linked: BOOLEAN]
  BY <1>1, <1>2 DEF RunTyped
<1>8. RunTyped'
  BY <1>1, <1>2, <1>5, <1>6, <1>7 DEF RunTyped
<1>9. \A r \in retrieved': MaySee(r)'
  BY <1>1, <1>3, <1>7, StillSeen DEF SInv
<1>10. AnswerFits'
  BY <1>1, <1>2, <1>7 DEF SInv, AnswerFits, S!GapsAreTold
<1>11. /\ Cardinality(Denials) = audited.denials /\ audited.denials \in Nat
       /\ IsFiniteSet(Denials)
  <2>1. Cardinality(Denials) = audited.denials
    BY <1>1, SameCounts DEF SInv, S!CallsAccounted, S!Refusals, Denials
  <2>2. Denials \subseteq 1 .. Len(rows) /\ IsFiniteSet(1 .. Len(rows))
    BY <1>5, FS_Interval DEF Denials
  <2> QED BY <1>2, <2>1, <2>2, FS_Subset DEF RunTyped
<1>12. Cardinality(Denials') = IF allowed THEN audited.denials ELSE audited.denials + 1
  <2>1. Denials' = IF allowed THEN Denials ELSE Denials \cup {Len(rows) + 1}
    BY <1>4, <1>5 DEF Denials
  <2>2. Len(rows) + 1 \notin Denials
    BY <1>5 DEF Denials
  <2>3. Cardinality(Denials \cup {Len(rows) + 1}) = Cardinality(Denials) + 1
    BY <1>11, <2>2, FS_AddElement
  <2> QED BY <1>11, <2>1, <2>3
<1>13. S!CallsAccounted'
  <2>1. S!Refusals' = IF allowed THEN audited.denials ELSE audited.denials + 1
    BY <1>12, SameCounts DEF S!Refusals, Denials
  <2>2. Len(rows') <= MaxToolCalls
    BY <1>1, <1>5 DEF S!AssistantAssumption
  <2> QED BY <1>1, <1>5, <1>7, <2>1, <2>2 DEF S!CallsAccounted
<1>14. ASSUME run.provider = "mock"
       PROVE  /\ pending = <<c>> /\ c.tool \in PlanTools \ called /\ called \subseteq PlanTools
              /\ c.tool \in S!NeedsPayment => c.payment \in retrieved \cap Payment
              /\ Len(rows) = Cardinality(called)
  BY <1>1, <1>14 DEF SInv, MockFits, Planned, c
<1>15. MockFits'
  <2> SUFFICES ASSUME run.provider = "mock"
               PROVE  /\ pending' = <<>>
                      /\ called' \subseteq PlanTools /\ Len(rows') = Cardinality(called')
    BY <1>7 DEF MockFits
  <2>1. pending' = <<>>
    <3>1. Tail(<<c>>) = <<>>
      OBVIOUS
    <3> QED BY <1>1, <1>14, <3>1
  <2>2. IsFiniteSet(called)
    BY <1>14, PlanHasFour, FS_Subset
  <2>3. Cardinality(called \cup {c.tool}) = Cardinality(called) + 1
    BY <1>14, <2>2, FS_AddElement
  <2> QED BY <1>1, <1>5, <1>14, <2>1, <2>3
<1>16. S!MockBehaves'
  <2> SUFFICES ASSUME run.provider = "mock", S!Here \in run.scope
               PROVE  \A i \in DOMAIN rows': rows'[i] # "denied"
    BY <1>7 DEF S!MockBehaves
  <2>1. c.tool \in S!Tools
    BY <1>14, PlanHasFour
  <2>2. c.tool \in S!NeedsPayment => c.payment \in Payment /\ S!Visible(c.payment)
    BY <1>14 DEF SInv, MaySee
  <2>3. outcome # "denied"
    BY <1>4, <2>1, <2>2 DEF S!Denied
  <2> QED BY <1>5, <2>3 DEF SInv, S!MockBehaves
<1>17. DenyingCounts'
  BY <1>1, <1>7, <1>12, SameCounts DEF DenyingCounts, S!Refusals, Denials
<1> QED BY <1>8, <1>9, <1>10, <1>13, <1>15, <1>16, <1>17 DEF SInv

(* The event of a denial is written.                                       *)
LEMMA RecordSInv ==
  ASSUME SInv, S!RecordDenial
  PROVE  SInv'
<1>1. /\ run.phase = "denying" /\ run' = [run EXCEPT !.phase = "turn"]
      /\ audited' = [audited EXCEPT !.denials = @ + 1]
      /\ UNCHANGED <<called, rows, pending, retrieved, answer, late>>
  BY DEF S!RecordDenial, S!callVars
<1>2. RunTyped /\ run.status = "RUNNING"
  BY <1>1 DEF SInv, RunTyped
<1>3. /\ run'.scope = run.scope /\ run'.provider = run.provider /\ run'.status = "RUNNING"
      /\ run'.phase = "turn" /\ audited'.denials = audited.denials + 1
  BY <1>1, <1>2 DEF RunTyped
<1>4. RunTyped'
  BY <1>1, <1>2 DEF RunTyped
<1>5. S!Refusals' = audited.denials + 1
  BY <1>1 DEF SInv, DenyingCounts, S!Refusals
<1>6. S!CallsAccounted'
  BY <1>1, <1>3, <1>5 DEF SInv, S!CallsAccounted
<1>7. MockFits'
  BY <1>1, <1>3 DEF SInv, MockFits, Planned
<1>8. AnswerFits' /\ S!MockBehaves'
  BY <1>1, <1>2, <1>3 DEF SInv, AnswerFits, S!GapsAreTold, S!MockBehaves
<1>9. \A r \in retrieved': MaySee(r)'
  BY <1>1, <1>3, StillSeen DEF SInv
<1> QED BY <1>3, <1>4, <1>6, <1>7, <1>8, <1>9 DEF SInv, DenyingCounts

(* What is attached to an answer was retrieved, and is something if        *)
(* anything was.                                                           *)
LEMMA AttachedWasRetrieved ==
  ASSUME S!AssistantAssumption, IsFiniteSet(retrieved), NEW cited, NEW kept \in S!Attached(cited)
  PROVE  kept \subseteq retrieved /\ (retrieved # {} => kept # {})
<1>1. CASE S!Grounded(cited) = {}
  <2>1. /\ kept \subseteq retrieved
        /\ Cardinality(kept) = IF Cardinality(retrieved) < MaxCitations
                               THEN Cardinality(retrieved) ELSE MaxCitations
    BY <1>1, SameCounts DEF S!Attached
  <2>2. retrieved # {} => Cardinality(retrieved) # 0
    BY FS_EmptySet
  <2>3. Cardinality({}) = 0
    BY FS_EmptySet
  <2> QED BY <2>1, <2>2, <2>3 DEF S!AssistantAssumption
<1>2. CASE S!Grounded(cited) # {}
  <2>1. kept = cited \cap retrieved /\ kept # {}
    BY <1>2 DEF S!Attached, S!Grounded
  <2> QED BY <2>1
<1> QED BY <1>1, <1>2

(* An answer is submitted and cut to what was retrieved.                   *)
LEMMA SubmitSInv ==
  ASSUME SInv, S!AssistantAssumption, NEW cited, IsFiniteSet(cited), NEW notes \in Nat,
         S!Submit(cited, notes)
  PROVE  SInv'
<1>1. /\ UNCHANGED <<called, rows, pending, retrieved, audited, late>>
      /\ pending = <<>> /\ run.phase = "turn"
      /\ run' = [run EXCEPT !.status = "SUCCEEDED", !.phase = "completing"]
  BY DEF S!Submit, S!AtTurn, S!callVars
<1>2. PICK kept \in S!Attached(cited):
        answer' = [cited |-> kept, dropped |-> Cardinality(cited \ retrieved),
                   notes |-> S!NotesWith(cited, notes)]
  BY SameCounts DEF S!Submit
<1>3. kept \subseteq retrieved /\ (retrieved # {} => kept # {})
  BY <1>2, AttachedWasRetrieved DEF SInv, RunTyped
<1>4. Cardinality(cited \ retrieved) > 0 => S!NotesWith(cited, notes) > 0
  <2>1. Cardinality({}) = 0
    BY FS_EmptySet
  <2>2. cited \subseteq retrieved => cited \ retrieved = {}
    OBVIOUS
  <2>3. ~(cited \subseteq retrieved) => S!NotesWith(cited, notes) > 0
    BY DEF S!NotesWith, S!AssistantAssumption
  <2> QED BY <2>1, <2>2, <2>3
<1>5. /\ RunTyped' /\ run'.scope = run.scope /\ run'.provider = run.provider
      /\ run'.status = "SUCCEEDED"
  BY <1>1 DEF SInv, RunTyped
<1>6. AnswerFits'
  BY <1>1, <1>2, <1>3, <1>4 DEF AnswerFits, S!GapsAreTold
<1>7. \A r \in retrieved': MaySee(r)'
  BY <1>1, <1>5, StillSeen DEF SInv
<1>8. S!CallsAccounted' /\ MockFits' /\ S!MockBehaves' /\ DenyingCounts'
  BY <1>1, <1>5 DEF SInv, S!CallsAccounted, S!Refusals, MockFits, S!MockBehaves, DenyingCounts, RunTyped
<1> QED BY <1>5, <1>6, <1>7, <1>8 DEF SInv

(* Every step keeps the invariant.                                         *)
LEMMA NextSInv ==
  ASSUME S!AssistantAssumption
  PROVE  SInv /\ [S!Next]_S!vars => SInv'
<1> SUFFICES ASSUME SInv, [S!Next]_S!vars PROVE SInv'
  OBVIOUS
<1>1. CASE UNCHANGED S!vars
  <2>1. UNCHANGED <<run, called, rows, pending, retrieved, answer, audited, late>>
    BY <1>1 DEF S!vars
  <2>2. RunTyped'
    BY <2>1 DEF SInv, RunTyped
  <2> QED BY <2>1, <2>2, QuietSInv
<1>2. CASE \/ S!TimePasses \/ S!OutOfTime \/ S!ProviderFails \/ S!OverBudget \/ S!WriteFails
           \/ S!Complete \/ S!CompletionFails \/ S!Crash
  BY <1>2, EndsSInv
<1>3. CASE S!MockAsks \/ S!ModelAsks
  BY <1>3, AsksSInv
<1>4. CASE \E broken \in BOOLEAN: S!ExecuteOne(broken)
  BY <1>4, ExecuteSInv
<1>7. CASE S!RecordDenial
  BY <1>7, RecordSInv
<1>5. CASE S!MockAnswers
  <2>1. S!Submit({}, 0)
    BY <1>5 DEF S!MockAnswers
  <2> QED BY <2>1, FS_EmptySet, SubmitSInv
<1>6. CASE S!ModelAnswers
  <2>1. PICK cited \in SUBSET (Payment \cup Open \cup {Invented}), notes \in {0, MaxNotes}:
          S!Submit(cited, notes)
    BY <1>6 DEF S!ModelAnswers
  <2>2. IsFiniteSet(Payment \cup Open \cup {Invented})
    BY FiniteIds, FS_Union, FS_Singleton
  <2>3. IsFiniteSet(cited) /\ notes \in Nat
    BY <2>2, FS_Subset DEF S!AssistantAssumption
  <2> QED BY <2>1, <2>3, SubmitSInv
<1> QED BY <1>1, <1>2, <1>3, <1>4, <1>5, <1>6, <1>7 DEF S!Next

(* The invariant holds at the beginning.                                   *)
LEMMA InitSInv ==
  ASSUME S!AssistantAssumption, S!Init
  PROVE  SInv
<1>1. /\ run \in [status: {"RUNNING"}, phase: {"turn"}, scope: Scopes,
                  provider: {"mock", "model"}, linked: BOOLEAN]
      /\ called = {} /\ rows = <<>> /\ pending = <<>> /\ retrieved = {}
      /\ answer.cited = {} /\ audited = [denials |-> 0, completed |-> FALSE]
  BY DEF S!Init, S!NoAnswer
<1>2. Cardinality({}) = 0 /\ IsFiniteSet({})
  BY FS_EmptySet
<1>3. RunTyped
  BY <1>1, <1>2 DEF RunTyped
<1>4. S!Refusals = 0
  <2>1. {i \in DOMAIN rows: rows[i] # "allowed"} = {}
    BY <1>1
  <2> QED BY <1>2, <2>1, SameCounts DEF S!Refusals
<1>5. S!CallsAccounted
  BY <1>1, <1>4 DEF S!CallsAccounted, S!AssistantAssumption
<1>6. AnswerFits /\ MockFits /\ S!MockBehaves
  BY <1>1, <1>2 DEF AnswerFits, S!GapsAreTold, MockFits, S!MockBehaves
<1> QED BY <1>1, <1>3, <1>5, <1>6 DEF SInv, DenyingCounts

(* An answer cites nothing its caller may not see, whatever the model      *)
(* claimed; what is taken out leaves a note; every denial has its event,   *)
(* but the last one of a run that broke off between the two commits; and   *)
(* the mock provider is never denied.  For every set of records, scope,    *)
(* budget and sequence of calls.                                           *)
THEOREM AssistantIsGrounded ==
  ASSUME S!AssistantAssumption
  PROVE  S!Init /\ [][S!Next]_S!vars => []S!AnswersAreGrounded
<1>1. SInv => S!AnswersAreGrounded
  BY DEF SInv, AnswerFits, MaySee, S!CitesWhatIsSeen, S!AnswersAreGrounded
<1>2. S!Init /\ [][S!Next]_S!vars => []SInv
  BY InitSInv, NextSInv, PTL
<1> QED BY <1>1, <1>2, PTL

----------------------------------------------------------------------------
(* ImportPage.  A hash the page offers has reached it; a confirmation that *)
(* has looked is of the hash its import has, until somebody validates.     *)

Reached == seen \cup {I!NoHash}

BatchesFit ==
  /\ DOMAIN batch = Import /\ DOMAIN detail = Import /\ DOMAIN queued = Import
  /\ \A i \in Import: DOMAIN batch[i] = {"status", "fileHash"}
  /\ \A i \in Import: batch[i].status = "READY" => batch[i].fileHash \in Valid

PageKnows ==
  /\ importId \in Import \cup {0}
  /\ validatedHash \in Reached
  /\ \A i \in Import: detail[i].fileHash \in Reached
  /\ validating # I!NotValidating => validating.import \in Import

WantedFits ==
  /\ DOMAIN wanted = {"import", "fileHash", "looked", "anew"}
  /\ wanted # I!NotWanted => wanted.import \in Import /\ wanted.fileHash \in seen
  /\ wanted.looked => wanted # I!NotWanted
  /\ wanted.looked /\ ~wanted.anew => batch[wanted.import].fileHash = wanted.fileHash

IInv == BatchesFit /\ PageKnows /\ WantedFits /\ I!QueuedBytesWereSeen

(* The status of an import changes, to anything but READY.                 *)
LEMMA StatusIInv ==
  ASSUME IInv, NEW i \in Import, NEW s, s # "READY", I!Status(i, s),
         UNCHANGED <<queued, importId, detail, validatedHash, seen, validating>>,
         wanted' = wanted \/ wanted' = I!NotWanted
  PROVE  IInv'
<1>1. batch' = [batch EXCEPT ![i].status = s]
  BY DEF I!Status
<1>2. /\ DOMAIN batch' = Import
      /\ \A j \in Import: /\ DOMAIN batch'[j] = {"status", "fileHash"}
                          /\ batch'[j].fileHash = batch[j].fileHash
                          /\ batch'[j].status = "READY" => batch[j].status = "READY"
  BY <1>1 DEF IInv, BatchesFit
<1>3. BatchesFit'
  BY <1>2 DEF IInv, BatchesFit
<1>4. PageKnows'
  BY DEF IInv, PageKnows, Reached
<1>5. WantedFits'
  BY <1>2 DEF IInv, WantedFits, I!NotWanted
<1> QED BY <1>3, <1>4, <1>5 DEF IInv, I!QueuedBytesWereSeen

(* A step that leaves the imports alone.                                   *)
LEMMA KnowsMoreIInv ==
  ASSUME IInv, UNCHANGED <<batch, queued, detail>>, seen \subseteq seen',
         PageKnows', wanted' = wanted \/ WantedFits'
  PROVE  IInv'
<1>1. WantedFits'
  BY DEF IInv, WantedFits
<1>2. BatchesFit'
  BY DEF IInv, BatchesFit
<1>3. I!QueuedBytesWereSeen'
  BY DEF IInv, I!QueuedBytesWereSeen
<1> QED BY <1>1, <1>2, <1>3 DEF IInv

(* An import is validated, by this page or by another.                     *)
LEMMA ValidatedIInv ==
  ASSUME IInv, NEW i \in Import, batch' = I!Validated(i), I!Overtakes(i),
         UNCHANGED <<queued, importId, detail, validatedHash, seen>>, PageKnows'
  PROVE  IInv'
<1>1. /\ DOMAIN batch' = Import
      /\ \A j \in Import: /\ DOMAIN batch'[j] = {"status", "fileHash"}
                          /\ batch'[j].status = "READY" => batch'[j].fileHash \in Valid
                          /\ j # i => batch'[j] = batch[j]
  BY DEF IInv, BatchesFit, I!Validated
<1>2. BatchesFit'
  BY <1>1 DEF IInv, BatchesFit
<1>3. WantedFits'
  <2>1. CASE wanted.import = i /\ wanted.looked
    <3>1. wanted' = [wanted EXCEPT !.anew = TRUE]
      BY <2>1 DEF I!Overtakes
    <3>2. /\ DOMAIN wanted' = {"import", "fileHash", "looked", "anew"} /\ wanted'.anew
          /\ wanted'.import = wanted.import /\ wanted'.fileHash = wanted.fileHash
      BY <3>1 DEF IInv, WantedFits
    <3>3. wanted' # I!NotWanted
      BY <3>2 DEF I!NotWanted
    <3> QED BY <2>1, <3>2, <3>3 DEF IInv, WantedFits
  <2>2. CASE ~(wanted.import = i /\ wanted.looked)
    <3>1. wanted' = wanted
      BY <2>2 DEF I!Overtakes
    <3> QED BY <1>1, <2>2, <3>1 DEF IInv, WantedFits
  <2> QED BY <2>1, <2>2
<1> QED BY <1>2, <1>3 DEF IInv, I!QueuedBytesWereSeen

(* The page's own steps: it asks, gets answers, selects, forgets.          *)
LEMMA PageIInv ==
  ASSUME IInv, \/ I!PressValidate \/ I!ValidationAnswered \/ I!ValidationLost \/ I!Poll \/ I!Reload
               \/ \E i \in Import: \/ I!OtherValidates(i) \/ I!Select(i)
                                   \/ \E b \in Bytes: I!Put(i, b) \/ I!PutAgain(i, b)
  PROVE  IInv'
<1> USE DEF I!serverVars, I!pageVars
<1>1. PageKnows
  BY DEF IInv
<1>2. CASE I!PressValidate
  <2>1. /\ importId \in Import /\ batch' = I!Validated(importId) /\ I!Overtakes(importId)
        /\ validating' = [import |-> importId, fileHash |-> stored[importId]]
        /\ UNCHANGED <<stored, queued, importId, detail, validatedHash, seen>>
    BY <1>1, <1>2 DEF I!PressValidate, PageKnows
  <2>2. PageKnows'
    BY <1>1, <2>1 DEF PageKnows, Reached
  <2> QED BY <2>1, <2>2, ValidatedIInv
<1>3. CASE I!ValidationAnswered
  <2>1. /\ validating.import \in Import
        /\ detail' = [detail EXCEPT ![validating.import] = batch[validating.import]]
        /\ validatedHash' = IF validating.fileHash # I!NoHash THEN validating.fileHash ELSE validatedHash
        /\ seen' = seen \cup {validating.fileHash, batch[validating.import].fileHash}
        /\ validating' = I!NotValidating /\ UNCHANGED <<batch, stored, queued, importId, wanted>>
    BY <1>1, <1>3 DEF I!ValidationAnswered, PageKnows
  <2>2. DOMAIN detail = Import
    BY DEF IInv, BatchesFit
  <2>3. \A i \in Import: detail'[i].fileHash \in Reached'
    BY <1>1, <2>1, <2>2 DEF PageKnows, Reached
  <2>4. PageKnows'
    BY <1>1, <2>1, <2>3 DEF PageKnows, Reached
  <2>5. BatchesFit' /\ WantedFits' /\ I!QueuedBytesWereSeen'
    BY <2>1, <2>2 DEF IInv, BatchesFit, WantedFits, I!QueuedBytesWereSeen
  <2> QED BY <2>4, <2>5 DEF IInv
<1>4. CASE I!Poll
  <2>1. /\ importId \in Import /\ detail' = [detail EXCEPT ![importId] = batch[importId]]
        /\ seen' = seen \cup {batch[importId].fileHash}
        /\ UNCHANGED <<batch, stored, queued, importId, validatedHash, validating, wanted>>
    BY <1>1, <1>4 DEF I!Poll, PageKnows
  <2>2. DOMAIN detail = Import
    BY DEF IInv, BatchesFit
  <2>3. \A i \in Import: detail'[i].fileHash \in Reached'
    BY <1>1, <2>1, <2>2 DEF PageKnows, Reached
  <2>4. PageKnows'
    BY <1>1, <2>1, <2>3 DEF PageKnows, Reached
  <2>5. BatchesFit' /\ WantedFits' /\ I!QueuedBytesWereSeen'
    BY <2>1, <2>2 DEF IInv, BatchesFit, WantedFits, I!QueuedBytesWereSeen
  <2> QED BY <2>4, <2>5 DEF IInv
<1>5. CASE I!ValidationLost \/ I!Reload
  <2>1. /\ UNCHANGED <<batch, queued, importId, detail, seen, wanted>>
        /\ validating' = I!NotValidating /\ validatedHash' \in {validatedHash, I!NoHash}
    BY <1>5 DEF I!ValidationLost, I!Reload
  <2>2. PageKnows'
    BY <1>1, <2>1 DEF PageKnows, Reached
  <2> QED BY <2>1, <2>2, KnowsMoreIInv
<1>6. CASE \E i \in Import: I!OtherValidates(i)
  <2>1. PICK i \in Import: I!OtherValidates(i)
    BY <1>6
  <2>2. /\ batch' = I!Validated(i) /\ I!Overtakes(i)
        /\ UNCHANGED <<queued, importId, detail, validatedHash, seen, validating>>
    BY <2>1 DEF I!OtherValidates
  <2>3. PageKnows'
    BY <1>1, <2>2 DEF PageKnows, Reached
  <2> QED BY <2>2, <2>3, ValidatedIInv
<1>7. CASE \E i \in Import: \/ I!Select(i) \/ \E b \in Bytes: I!Put(i, b) \/ I!PutAgain(i, b)
  <2>1. /\ UNCHANGED <<batch, queued, detail, validatedHash, seen, validating, wanted>>
        /\ importId' \in Import \cup {importId}
    BY <1>7 DEF I!Select, I!Put, I!PutAgain
  <2>2. PageKnows'
    BY <1>1, <2>1 DEF PageKnows, Reached
  <2> QED BY <2>1, <2>2, KnowsMoreIInv
<1> QED BY <1>2, <1>3, <1>4, <1>5, <1>6, <1>7

(* A confirmation: pressed, looked into, carried out, refused or lost.     *)
LEMMA ConfirmIInv ==
  ASSUME IInv, I!PressConfirm \/ I!Look \/ I!Confirm \/ I!RefuseConfirm \/ I!ConfirmLost
  PROVE  IInv'
<1> USE DEF I!serverVars, I!pageVars
<1>1. PageKnows /\ WantedFits /\ BatchesFit
  BY DEF IInv
<1>2. CASE I!PressConfirm
  <2>1. /\ importId \in Import /\ wanted' = [I!NotWanted EXCEPT !.import = importId, !.fileHash = I!Offered]
        /\ I!Offered # I!NoHash /\ UNCHANGED <<batch, queued, importId, detail, validatedHash, seen, validating>>
    BY <1>1, <1>2 DEF I!PressConfirm, PageKnows
  <2>2. I!Offered \in seen
    BY <1>1, <2>1 DEF I!Offered, PageKnows, Reached
  <2>3. WantedFits'
    BY <2>1, <2>2 DEF WantedFits, I!NotWanted
  <2>4. PageKnows'
    BY <1>1, <2>1 DEF PageKnows, Reached
  <2> QED BY <2>1, <2>3, <2>4, KnowsMoreIInv
<1>3. CASE I!Look
  <2>1. /\ wanted # I!NotWanted /\ wanted' = [wanted EXCEPT !.looked = TRUE]
        /\ batch[wanted.import].fileHash = wanted.fileHash
        /\ UNCHANGED <<batch, queued, importId, detail, validatedHash, seen, validating>>
    BY <1>3 DEF I!Look, I!Allowed, I!Hashed
  <2>2. /\ DOMAIN wanted' = {"import", "fileHash", "looked", "anew"} /\ wanted'.looked
        /\ wanted'.import = wanted.import /\ wanted'.fileHash = wanted.fileHash
    BY <1>1, <2>1 DEF WantedFits
  <2>3. wanted' # I!NotWanted
    BY <2>2 DEF I!NotWanted
  <2>4. WantedFits'
    BY <1>1, <2>1, <2>2, <2>3 DEF WantedFits
  <2>5. PageKnows'
    BY <1>1, <2>1 DEF PageKnows, Reached
  <2> QED BY <2>1, <2>4, <2>5, KnowsMoreIInv
<1>4. CASE I!Confirm
  <2> DEFINE i == wanted.import
  <2>1. /\ wanted.looked /\ batch[i].status = "READY" /\ I!Status(i, "QUEUED")
        /\ queued' = [queued EXCEPT ![i] = [fileHash |-> batch[i].fileHash, anew |-> wanted.anew]]
        /\ wanted' = I!NotWanted
        /\ UNCHANGED <<importId, detail, validatedHash, seen, validating>>
    BY <1>4 DEF I!Confirm
  <2>2. i \in Import /\ batch[i].fileHash \in Valid
        /\ (wanted.anew \/ batch[i].fileHash \in seen)
    BY <1>1, <2>1 DEF WantedFits, BatchesFit
  <2> HIDE DEF i
  <2>3. batch' = [batch EXCEPT ![i].status = "QUEUED"]
    BY <2>1 DEF I!Status
  <2>4. BatchesFit'
    <3>1. /\ DOMAIN batch' = Import /\ DOMAIN queued' = Import
          /\ \A j \in Import: /\ DOMAIN batch'[j] = {"status", "fileHash"}
                              /\ batch'[j].fileHash = batch[j].fileHash
                              /\ batch'[j].status = "READY" => batch[j].status = "READY"
      BY <1>1, <2>1, <2>3 DEF BatchesFit
    <3> QED BY <1>1, <2>1, <3>1 DEF BatchesFit
  <2>5. PageKnows' /\ WantedFits'
    BY <1>1, <2>1 DEF PageKnows, Reached, WantedFits, I!NotWanted
  <2>6. \A j \in Import: IF j = i THEN /\ queued'[j].fileHash = batch[i].fileHash
                                       /\ queued'[j].anew = wanted.anew
                         ELSE queued'[j] = queued[j]
    BY <1>1, <2>1, <2>2 DEF BatchesFit
  <2>7. I!QueuedBytesWereSeen'
    BY <2>1, <2>2, <2>6 DEF IInv, I!QueuedBytesWereSeen
  <2> QED BY <2>4, <2>5, <2>7 DEF IInv
<1>5. CASE I!RefuseConfirm
  <2>1. /\ wanted # I!NotWanted /\ wanted' = I!NotWanted
        /\ I!Status(wanted.import, "VALIDATION_FAILED") \/ UNCHANGED batch
        /\ UNCHANGED <<queued, importId, detail, validatedHash, seen, validating>>
    BY <1>5 DEF I!RefuseConfirm
  <2>2. wanted.import \in Import
    BY <1>1, <2>1 DEF WantedFits
  <2>3. PageKnows' /\ (UNCHANGED batch => WantedFits')
    BY <1>1, <2>1 DEF PageKnows, Reached, WantedFits, I!NotWanted
  <2>4. CASE I!Status(wanted.import, "VALIDATION_FAILED")
    BY <2>1, <2>2, <2>4, StatusIInv
  <2>5. CASE UNCHANGED batch
    BY <2>1, <2>3, <2>5, KnowsMoreIInv
  <2> QED BY <2>1, <2>4, <2>5
<1>6. CASE I!ConfirmLost
  <2>1. wanted' = I!NotWanted /\ UNCHANGED <<batch, queued, importId, detail, validatedHash, seen, validating>>
    BY <1>6 DEF I!ConfirmLost
  <2>2. PageKnows' /\ WantedFits'
    BY <1>1, <2>1 DEF PageKnows, Reached, WantedFits, I!NotWanted
  <2> QED BY <2>1, <2>2, KnowsMoreIInv
<1> QED BY <1>2, <1>3, <1>4, <1>5, <1>6

(* Every step keeps the invariant.                                         *)
LEMMA NextIInv == IInv /\ [I!Next]_I!vars => IInv'
<1> SUFFICES ASSUME IInv, [I!Next]_I!vars PROVE IInv'
  OBVIOUS
<1>1. CASE UNCHANGED I!vars
  <2>1. UNCHANGED <<batch, queued, importId, detail, validatedHash, seen, validating, wanted>>
    BY <1>1 DEF I!vars, I!serverVars, I!pageVars
  <2> QED BY <2>1 DEF IInv, BatchesFit, PageKnows, Reached, WantedFits, I!QueuedBytesWereSeen
<1>2. CASE \/ I!PressValidate \/ I!ValidationAnswered \/ I!ValidationLost \/ I!Poll \/ I!Reload
           \/ \E i \in Import: \/ I!OtherValidates(i) \/ I!Select(i)
                               \/ \E b \in Bytes: I!Put(i, b) \/ I!PutAgain(i, b)
  BY <1>2, PageIInv
<1>3. CASE I!PressConfirm \/ I!Look \/ I!Confirm \/ I!RefuseConfirm \/ I!ConfirmLost
  BY <1>3, ConfirmIInv
<1>4. CASE \/ I!PressCancel \/ I!PressRetry
           \/ \E i \in Import: \/ I!createUpload(i)
                               \/ \E s \in {"COMPLETED", "FAILED"}: I!WorkerEnds(i, s)
  <2>1. importId # 0 => importId \in Import
    BY DEF IInv, PageKnows
  <2>2. PICK i \in Import, s \in {"DRAFT", "CANCELLED", "QUEUED", "COMPLETED", "FAILED"}:
          I!Status(i, s)
    BY <1>4, <2>1 DEF I!PressCancel, I!PressRetry, I!createUpload, I!WorkerEnds
  <2>3. UNCHANGED <<queued, importId, detail, validatedHash, seen, validating, wanted>>
    BY <1>4 DEF I!PressCancel, I!PressRetry, I!createUpload, I!WorkerEnds, I!pageVars
  <2> QED BY <2>2, <2>3, StatusIInv
<1> QED BY <1>1, <1>2, <1>3, <1>4 DEF I!Next

(* The bytes an import is queued with are without errors, and their hash   *)
(* had reached the page that confirmed them, unless somebody validated     *)
(* between the checks of the confirmation and its update.  For every       *)
(* number of imports, files and uploads.                                   *)
THEOREM QueuedIsSeen == I!Init /\ [][I!Next]_I!vars => []I!QueuedBytesWereSeen
<1>1. I!Init => IInv
  BY DEF I!Init, I!NoBatch, I!NotQueued, I!NotWanted, IInv, BatchesFit, PageKnows, Reached, WantedFits,
         I!QueuedBytesWereSeen
<1>2. IInv => I!QueuedBytesWereSeen
  BY DEF IInv
<1> QED BY <1>1, <1>2, NextIInv, PTL

----------------------------------------------------------------------------
(* ClosePage.  The ticks of a press are younger than the last close the    *)
(* page saw succeed; a period moves three versions on before it can be     *)
(* closed again.                                                           *)

Steps == [CLOSED |-> 1, OPEN |-> 2, IN_REVIEW |-> 3]

FormFits ==
  /\ made \in Nat /\ settled \in Nat /\ settled <= made
  /\ DOMAIN acknowledged = Code
  /\ \A c \in Code: /\ DOMAIN acknowledged[c] = {"n", "reason"}
                    /\ acknowledged[c].n \in 0 .. made
                    /\ acknowledged[c].n = 0 \/ acknowledged[c].n > settled

PressRow == [month: Month, version: Nat, ticks: SUBSET Nat, settled: Nat]
PressesFit ==
  /\ presses \in Seq(PressRow)
  /\ \A p \in DOMAIN presses: /\ presses[p].settled <= settled
                              /\ \A n \in presses[p].ticks: n > presses[p].settled /\ n <= made
  /\ pressed # C!Nobody => pressed.press = Len(presses) /\ presses # <<>>

RowsFit ==
  /\ DOMAIN period = Month
  /\ \A m \in Month: /\ DOMAIN period[m] = {"status", "version", "facts"}
                     /\ period[m].status \in {"OPEN", "IN_REVIEW", "CLOSED"}
                     /\ period[m].version \in Nat

\* Where a close was made, its period stands at least as many versions later as
\* its status is steps away.
CloseRow == [press: Nat, told: BOOLEAN]
ClosesFit ==
  /\ closes \in Seq(CloseRow)
  /\ \A k \in DOMAIN closes:
       /\ closes[k].press \in DOMAIN presses
       /\ LET r == presses[closes[k].press]
          IN /\ period[r.month].version >= r.version + Steps[period[r.month].status]
             /\ closes[k].told => \A n \in r.ticks: n <= settled
  /\ \A j, k \in DOMAIN closes: j < k => closes[j].press < closes[k].press
  /\ \A j, k \in DOMAIN closes: (j < k /\ closes[j].told) =>
       \A n \in presses[closes[j].press].ticks: n <= presses[closes[k].press].settled
  /\ \A j, k \in DOMAIN closes:
       (j < k /\ presses[closes[j].press].month = presses[closes[k].press].month) =>
       presses[closes[k].press].version >= presses[closes[j].press].version + 3

CacheFits ==
  /\ month \in Month /\ DOMAIN record = Month
  /\ \A m \in Month: record[m] \in Nat
  /\ \A q \in asking: q[2] \in Month

CInv == FormFits /\ PressesFit /\ RowsFit /\ ClosesFit /\ CacheFits

(* A press has the columns of one.                                         *)
LEMMA PressTyped ==
  ASSUME CInv
  PROVE  /\ DOMAIN presses = 1 .. Len(presses) /\ Len(presses) \in Nat
         /\ \A p \in DOMAIN presses: presses[p] \in PressRow
         /\ pressed # C!Nobody => pressed.press \in DOMAIN presses
<1>1. presses \in Seq(PressRow)
  BY DEF CInv, PressesFit
<1>2. /\ DOMAIN presses = 1 .. Len(presses) /\ Len(presses) \in Nat
      /\ presses # <<>> => Len(presses) # 0
  BY <1>1, LenProperties, EmptySeq
<1>3. \A p \in 1 .. Len(presses): presses[p] \in PressRow
  BY <1>1, ElementOfSeq
<1> QED BY <1>2, <1>3 DEF CInv, PressesFit

(* A period moves on to its next status.                                   *)
LEMMA MovesKeep ==
  ASSUME CInv, NEW m \in Month, NEW from, NEW to,
         <<from, to>> \in {<<"OPEN", "IN_REVIEW">>, <<"IN_REVIEW", "CLOSED">>, <<"CLOSED", "OPEN">>},
         C!Transition(m, from, to), UNCHANGED <<closes, presses, settled>>
  PROVE  RowsFit' /\ ClosesFit'
<1>1. RowsFit /\ ClosesFit
  BY DEF CInv
<1>2. period' = IF period[m].status = from THEN [period EXCEPT ![m] = C!Moved(@, to)] ELSE period
  BY DEF C!Transition
<1>3. CASE period[m].status # from
  BY <1>1, <1>2, <1>3 DEF RowsFit, ClosesFit
<1>4. CASE period[m].status = from
  <2>1. \/ from = "OPEN" /\ to = "IN_REVIEW"
        \/ from = "IN_REVIEW" /\ to = "CLOSED"
        \/ from = "CLOSED" /\ to = "OPEN"
    OBVIOUS
  <2>2. /\ DOMAIN period' = Month
        /\ \A n \in Month: n # m => period'[n] = period[n]
        /\ period'[m] = C!Moved(period[m], to)
    BY <1>1, <1>2, <1>4 DEF RowsFit
  <2>3. /\ DOMAIN period'[m] = {"status", "version", "facts"}
        /\ period'[m].status = to /\ period'[m].version = period[m].version + 1
    BY <1>1, <2>2 DEF RowsFit, C!Moved
  <2>4. RowsFit'
    BY <1>1, <2>1, <2>2, <2>3 DEF RowsFit
  <2>5. ASSUME NEW v \in Nat, period[m].version >= v + Steps[period[m].status]
        PROVE  period'[m].version >= v + Steps[period'[m].status]
    BY <1>1, <1>4, <2>1, <2>3, <2>5 DEF Steps, RowsFit
  <2>6. ASSUME NEW k \in DOMAIN closes
        PROVE  LET r == presses[closes[k].press]
               IN period'[r.month].version >= r.version + Steps[period'[r.month].status]
    <3> DEFINE r == presses[closes[k].press]
    <3>1. r.month \in Month /\ r.version \in Nat
          /\ period[r.month].version >= r.version + Steps[period[r.month].status]
      BY <1>1, PressTyped DEF ClosesFit, PressRow
    <3> HIDE DEF r
    <3>2. period'[r.month].version >= r.version + Steps[period'[r.month].status]
      BY <2>2, <2>5, <3>1
    <3> QED BY <3>2 DEF r
  <2> QED BY <1>1, <2>4, <2>6 DEF ClosesFit
<1> QED BY <1>3, <1>4

(* The transitions that are not closes of this page.                       *)
LEMMA TransitionsCInv ==
  ASSUME CInv, C!startReview \/ C!reopenPeriod \/ \E m \in Month: C!Colleague(m)
  PROVE  CInv'
<1> USE DEF C!serverVars, C!cacheVars, C!formVars
<1>1. month \in Month
  BY DEF CInv, CacheFits
<1>2. /\ UNCHANGED <<closes, month, record, acknowledged, made, pressed, settled, presses>>
      /\ asking' = asking \/ C!AskAgain(month)
  BY DEF C!startReview, C!reopenPeriod, C!Colleague
<1>3. \/ UNCHANGED period
      \/ \E m \in Month: \/ C!Transition(m, "OPEN", "IN_REVIEW")
                         \/ C!Transition(m, "IN_REVIEW", "CLOSED")
                         \/ C!Transition(m, "CLOSED", "OPEN")
  BY <1>1 DEF C!startReview, C!reopenPeriod, C!Colleague
<1>4. RowsFit' /\ ClosesFit'
  <2>1. CASE UNCHANGED period
    BY <1>2, <2>1 DEF CInv, RowsFit, ClosesFit
  <2>2. CASE \E m \in Month: C!Transition(m, "OPEN", "IN_REVIEW")
    BY <1>2, <2>2, MovesKeep
  <2>3. CASE \E m \in Month: C!Transition(m, "IN_REVIEW", "CLOSED")
    BY <1>2, <2>3, MovesKeep
  <2>4. CASE \E m \in Month: C!Transition(m, "CLOSED", "OPEN")
    BY <1>2, <2>4, MovesKeep
  <2> QED BY <1>3, <2>1, <2>2, <2>3, <2>4
<1>5. CacheFits'
  BY <1>1, <1>2 DEF CInv, CacheFits, C!AskAgain
<1>6. FormFits' /\ PressesFit'
  BY <1>2 DEF CInv, FormFits, PressesFit
<1> QED BY <1>4, <1>5, <1>6 DEF CInv

(* What is done on the page without a request that closes.                 *)
LEMMA FormCInv ==
  ASSUME CInv, \/ \E c \in Code: C!Tick(c) \/ C!Untick(c) \/ C!GiveReason(c)
               \/ C!OpenBox \/ C!Cancel \/ C!Lose \/ C!Disappoint
               \/ \E m \in Month: C!Choose(m)
               \/ \E q \in asking: C!Answer(q)
  PROVE  CInv'
<1> USE DEF C!serverVars, C!cacheVars, C!formVars
<1>1. /\ UNCHANGED <<period, closes, settled, presses>>
      /\ pressed' = pressed \/ pressed' = C!Nobody
      /\ UNCHANGED <<acknowledged, made>>
         \/ \E c \in Code: C!Tick(c) \/ C!Untick(c) \/ C!GiveReason(c)
  BY DEF C!Tick, C!Untick, C!GiveReason, C!OpenBox, C!Cancel, C!Lose, C!Disappoint, C!Choose, C!Answer
<1>2. FormFits' /\ made <= made'
  <2>1. CASE UNCHANGED <<acknowledged, made>>
    BY <1>1, <2>1 DEF CInv, FormFits
  <2>2. CASE \E c \in Code: C!Tick(c) \/ C!Untick(c) \/ C!GiveReason(c)
    <3>1. PICK c \in Code: C!Tick(c) \/ C!Untick(c) \/ C!GiveReason(c)
      BY <2>2
    <3>2. CASE C!Tick(c)
      <4>1. acknowledged' = [acknowledged EXCEPT ![c] = [n |-> made + 1, reason |-> FALSE]]
            /\ made' = made + 1
        BY <3>2 DEF C!Tick
      <4> QED BY <1>1, <4>1 DEF CInv, FormFits
    <3>3. CASE C!Untick(c)
      <4>1. acknowledged' = [acknowledged EXCEPT ![c] = C!NoTick] /\ made' = made
        BY <3>3 DEF C!Untick
      <4> QED BY <1>1, <4>1 DEF CInv, FormFits, C!NoTick
    <3>4. CASE C!GiveReason(c)
      <4>1. acknowledged' = [acknowledged EXCEPT ![c].reason = TRUE] /\ made' = made
        BY <3>4 DEF C!GiveReason
      <4> QED BY <1>1, <4>1 DEF CInv, FormFits
    <3> QED BY <3>1, <3>2, <3>3, <3>4
  <2> QED BY <1>1, <2>1, <2>2
<1>3. PressesFit'
  <2>1. \A p \in DOMAIN presses: \A n \in presses[p].ticks: n <= made => n <= made'
    BY <1>2, PressTyped DEF CInv, FormFits, PressRow
  <2> QED BY <1>1, <2>1 DEF CInv, PressesFit
<1>4. RowsFit' /\ ClosesFit'
  BY <1>1 DEF CInv, RowsFit, ClosesFit
<1>5. CacheFits'
  <2>1. month' \in Month
    BY DEF CInv, CacheFits, C!Tick, C!Untick, C!GiveReason, C!OpenBox, C!Cancel, C!Lose, C!Disappoint,
           C!Choose, C!Answer
  <2>2. DOMAIN record' = Month /\ \A m \in Month: record'[m] \in Nat
    <3>1. CASE UNCHANGED record
      BY <3>1 DEF CInv, CacheFits
    <3>2. CASE \E q \in asking: record' = [record EXCEPT ![q[2]] = period[q[2]].version]
      BY <3>2 DEF CInv, CacheFits, RowsFit
    <3> QED BY <3>1, <3>2 DEF C!Tick, C!Untick, C!GiveReason, C!OpenBox, C!Cancel, C!Lose,
                              C!Disappoint, C!Choose, C!Answer
  <2>3. \A q \in asking': q[2] \in Month
    <3>1. CASE C!Disappoint
      <4>1. pressed # C!Nobody /\ C!AskAgain(presses[pressed.press].month)
        BY <3>1 DEF C!Disappoint, C!Nobody
      <4>2. presses[pressed.press].month \in Month
        BY <4>1, PressTyped DEF PressRow
      <4> QED BY <4>1, <4>2 DEF CInv, CacheFits, C!AskAgain
    <3>2. CASE \E m \in Month: C!Choose(m)
      BY <3>2 DEF C!Choose
    <3>3. CASE asking' \subseteq asking
      BY <3>3 DEF CInv, CacheFits
    <3> QED BY <3>1, <3>2, <3>3 DEF C!Tick, C!Untick, C!GiveReason, C!OpenBox, C!Cancel, C!Lose, C!Answer
  <2> QED BY <2>1, <2>2, <2>3 DEF CacheFits
<1> QED BY <1>2, <1>3, <1>4, <1>5 DEF CInv

(* A close is pressed: it is served at once, or refused.                   *)
LEMMA PressCInv ==
  ASSUME CInv, C!Press
  PROVE  CInv'
<1> DEFINE r == [month |-> month, version |-> record[month], ticks |-> C!Given, settled |-> settled]
           p == Len(presses) + 1
<1>1. /\ presses' = Append(presses, r) /\ pressed = C!Nobody
      /\ pressed'.press = p
      /\ IF C!Allowed(r)
           THEN /\ period' = [period EXCEPT ![month] = C!Moved(@, "CLOSED")]
                /\ closes' = Append(closes, [press |-> p, told |-> FALSE])
           ELSE UNCHANGED <<period, closes>>
      /\ UNCHANGED <<month, record, asking, acknowledged, made, settled>>
  BY DEF C!Press, C!cacheVars
<1>2. FormFits /\ PressesFit /\ RowsFit /\ ClosesFit /\ CacheFits
  BY DEF CInv
<1>3. \A n \in C!Given: n \in Nat /\ n > settled /\ n <= made
  BY <1>2 DEF C!Given, FormFits
<1>4. r \in PressRow /\ r.month = month /\ r.version = record[month] /\ r.settled = settled
      /\ r.ticks = C!Given
  BY <1>2, <1>3 DEF PressRow, CacheFits, FormFits
<1>5. month \in Month /\ (C!Allowed(r) => C!canClose(period[month]) /\ period[month].version = record[month])
  BY <1>2 DEF CacheFits, C!Allowed
<1> HIDE DEF r
<1>6. /\ presses' \in Seq(PressRow) /\ Len(presses') = p
      /\ presses'[p] = r /\ \A q \in DOMAIN presses: presses'[q] = presses[q]
      /\ DOMAIN presses = 1 .. Len(presses) /\ DOMAIN presses' = 1 .. p /\ Len(presses) \in Nat
      /\ presses' # <<>>
  BY <1>1, <1>2, <1>4, AppendProperties, LenProperties DEF PressesFit
<1> HIDE DEF p
<1>7. p = Len(presses) + 1
  BY DEF p
<1>8. PressesFit'
  <2>1. ASSUME NEW q \in DOMAIN presses'
        PROVE  /\ presses'[q].settled <= settled
               /\ \A n \in presses'[q].ticks: n > presses'[q].settled /\ n <= made
    <3>1. CASE q \in DOMAIN presses
      BY <1>2, <1>6, <3>1 DEF PressesFit
    <3>2. CASE q = p
      BY <1>2, <1>3, <1>4, <1>6, <3>2 DEF FormFits
    <3> QED BY <1>6, <1>7, <3>1, <3>2
  <2> QED BY <1>1, <1>6, <2>1 DEF PressesFit
<1>9. FormFits' /\ CacheFits'
  BY <1>1, <1>2 DEF FormFits, CacheFits
<1>10. CASE ~C!Allowed(r)
  <2>1. UNCHANGED <<period, closes, settled>>
    BY <1>1, <1>10
  <2>2. \A k \in DOMAIN closes: presses'[closes[k].press] = presses[closes[k].press]
    BY <1>2, <1>6 DEF ClosesFit
  <2>3. RowsFit'
    BY <1>2, <2>1 DEF RowsFit
  <2>4. \A k \in DOMAIN closes: closes[k].press \in DOMAIN presses'
    BY <1>2, <1>6, <1>7 DEF ClosesFit
  <2>5. ClosesFit'
    BY <1>2, <2>1, <2>2, <2>4 DEF ClosesFit
  <2> QED BY <1>8, <1>9, <2>3, <2>5 DEF CInv
<1>11. CASE C!Allowed(r)
  <2> DEFINE c == [press |-> p, told |-> FALSE]
             N == Len(closes) + 1
  <2>1. /\ period' = [period EXCEPT ![month] = C!Moved(@, "CLOSED")]
        /\ closes' = Append(closes, c) /\ UNCHANGED settled
    BY <1>1, <1>11
  <2>2. c \in CloseRow /\ c.press = p /\ c.told = FALSE
    BY <1>6, <1>7 DEF CloseRow
  <2> HIDE DEF c
  <2>3. closes \in Seq(CloseRow)
    BY <1>2 DEF ClosesFit
  <2>4. DOMAIN closes = 1 .. Len(closes) /\ Len(closes) \in Nat
    BY <2>3, LenProperties
  <2>5. /\ closes' \in Seq(CloseRow) /\ DOMAIN closes' = 1 .. N
        /\ closes'[N] = c /\ \A k \in DOMAIN closes: closes'[k] = closes[k]
    BY <2>1, <2>2, <2>3, <2>4, AppendProperties, LenProperties
  <2> HIDE DEF N
  <2>6. N = Len(closes) + 1
    BY DEF N
  <2>7. \A k \in DOMAIN closes': (k \in DOMAIN closes /\ k < N) \/ (k = N /\ k \notin DOMAIN closes)
    BY <2>4, <2>5, <2>6
  <2>8. period[month].status = "IN_REVIEW" /\ period[month].version = record[month]
    BY <1>5, <1>11 DEF C!canClose
  <2>9. /\ DOMAIN period' = Month /\ \A m \in Month: m # month => period'[m] = period[m]
        /\ DOMAIN period'[month] = {"status", "version", "facts"}
        /\ period'[month].status = "CLOSED" /\ period'[month].version = record[month] + 1
    BY <1>2, <1>5, <2>1, <2>8 DEF RowsFit, C!Moved
  <2>10. RowsFit'
    BY <1>2, <2>9 DEF RowsFit, CacheFits
  <2>11. \A k \in DOMAIN closes: /\ closes[k].press \in DOMAIN presses
                                 /\ presses'[closes[k].press] = presses[closes[k].press]
                                 /\ closes[k].press < p
    BY <1>2, <1>6, <1>7 DEF ClosesFit
  <2>12. \A k \in DOMAIN closes: LET s == presses[closes[k].press]
                                 IN s.month \in Month /\ s.version \in Nat /\ s.settled \in Nat
    BY <2>11, PressTyped DEF PressRow
  <2>13. ASSUME NEW k \in DOMAIN closes'
         PROVE  /\ closes'[k].press \in DOMAIN presses'
                /\ LET s == presses'[closes'[k].press]
                   IN /\ period'[s.month].version >= s.version + Steps[period'[s.month].status]
                      /\ closes'[k].told => \A n \in s.ticks: n <= settled'
    <3>1. CASE k = N
      <4>1. closes'[k].press = p /\ closes'[k].told = FALSE /\ p \in DOMAIN presses'
        BY <1>6, <1>7, <2>2, <2>5, <3>1
      <4>2. presses'[closes'[k].press] = r
        BY <1>6, <4>1
      <4>3. period'[r.month].version >= r.version + Steps[period'[r.month].status]
        BY <1>2, <1>4, <1>5, <2>9 DEF Steps, CacheFits
      <4> QED BY <4>1, <4>2, <4>3
    <3>2. CASE k \in DOMAIN closes
      <4> DEFINE s == presses[closes[k].press]
      <4>1. closes'[k] = closes[k] /\ presses'[closes'[k].press] = s
        BY <2>5, <2>11, <3>2
      <4>2. /\ s.month \in Month /\ s.version \in Nat
            /\ period[s.month].version >= s.version + Steps[period[s.month].status]
            /\ closes[k].told => \A n \in s.ticks: n <= settled
        BY <1>2, <2>12, <3>2 DEF ClosesFit
      <4> HIDE DEF s
      <4>3. CASE s.month # month
        BY <1>6, <1>7, <2>1, <2>9, <2>11, <3>2, <4>1, <4>2, <4>3
      <4>4. CASE s.month = month
        <5>1. period'[s.month].version >= s.version + Steps[period'[s.month].status]
          BY <1>2, <2>8, <2>9, <4>2, <4>4 DEF Steps, CacheFits
        <5> QED BY <1>6, <1>7, <2>1, <2>11, <3>2, <4>1, <4>2, <5>1
      <4> QED BY <4>3, <4>4
    <3> QED BY <2>7, <3>1, <3>2
  <2>14. ASSUME NEW j \in DOMAIN closes', NEW k \in DOMAIN closes', j < k
         PROVE  /\ closes'[j].press < closes'[k].press
                /\ closes'[j].told => \A n \in presses'[closes'[j].press].ticks:
                                         n <= presses'[closes'[k].press].settled
                /\ presses'[closes'[j].press].month = presses'[closes'[k].press].month =>
                     presses'[closes'[k].press].version >= presses'[closes'[j].press].version + 3
    <3>1. j \in DOMAIN closes /\ closes'[j] = closes[j]
          /\ presses'[closes'[j].press] = presses[closes[j].press]
      BY <2>4, <2>5, <2>6, <2>7, <2>11, <2>14
    <3>2. CASE k \in DOMAIN closes
      <4>1. closes'[k] = closes[k] /\ presses'[closes'[k].press] = presses[closes[k].press]
        BY <2>5, <2>11, <3>2
      <4> QED BY <1>2, <2>14, <3>1, <3>2, <4>1 DEF ClosesFit
    <3>3. CASE k = N
      <4>1. closes'[k].press = p /\ presses'[closes'[k].press] = r
        BY <1>6, <2>2, <2>5, <3>3
      <4>2. closes[j].press < p
        BY <2>11, <3>1
      <4>3. closes[j].told => \A n \in presses[closes[j].press].ticks: n <= settled
        BY <1>2, <3>1 DEF ClosesFit
      <4>4. ASSUME presses[closes[j].press].month = month
            PROVE  record[month] >= presses[closes[j].press].version + 3
        BY <1>2, <2>8, <2>12, <3>1, <4>4 DEF ClosesFit, Steps
      <4> QED BY <1>4, <3>1, <4>1, <4>2, <4>3, <4>4
    <3> QED BY <2>7, <3>2, <3>3
  <2>15. ClosesFit'
    BY <2>5, <2>13, <2>14 DEF ClosesFit
  <2> QED BY <1>8, <1>9, <2>10, <2>15 DEF CInv
<1> QED BY <1>10, <1>11

(* The rows of a list, changed one by one, are a list.                     *)
LEMMA RowsAreSeq ==
  ASSUME NEW n \in Nat, NEW T, NEW f \in [1 .. n -> T]
  PROVE  f \in Seq(T) /\ Len(f) = n /\ DOMAIN f = 1 .. n
OBVIOUS

(* A close is seen to succeed: its ticks are spent.                        *)
LEMMA SucceedCInv ==
  ASSUME CInv, C!Succeed
  PROVE  CInv'
<1> DEFINE t(k) == closes[k].told \/ closes[k].press = pressed.press
           f == [k \in DOMAIN closes |-> [closes[k] EXCEPT !.told = @ \/ closes[k].press = pressed.press]]
<1>1. /\ closes' = f
      /\ acknowledged' = C!Cleared /\ settled' = made /\ pressed' = C!Nobody
      /\ \E m \in Month: record' = [record EXCEPT ![m] = period[m].version]
      /\ pressed # C!Nobody
      /\ UNCHANGED <<period, month, asking, made, presses>>
  <2>1. pressed # C!Nobody
    BY DEF C!Succeed, C!Nobody
  <2>2. presses[pressed.press].month \in Month
    BY <2>1, PressTyped DEF PressRow
  <2> QED BY <2>1, <2>2 DEF C!Succeed, C!Swept
<1>2. FormFits /\ PressesFit /\ RowsFit /\ ClosesFit /\ CacheFits
  BY DEF CInv
<1>3. pressed.press = Len(presses) /\ DOMAIN presses = 1 .. Len(presses) /\ Len(presses) \in Nat
  BY <1>1, <1>2, PressTyped DEF PressesFit
<1>4. closes \in Seq(CloseRow) /\ DOMAIN closes = 1 .. Len(closes) /\ Len(closes) \in Nat
  BY <1>2, LenProperties DEF ClosesFit
<1>5. \A k \in DOMAIN closes: closes[k] \in CloseRow
  BY <1>4, ElementOfSeq
<1>6. \A k \in DOMAIN closes:
        [closes[k] EXCEPT !.told = @ \/ closes[k].press = pressed.press] \in CloseRow
  BY <1>5 DEF CloseRow
<1>7. f \in [1 .. Len(closes) -> CloseRow]
  BY <1>4, <1>6
<1>8. closes' \in Seq(CloseRow) /\ DOMAIN closes' = DOMAIN closes
  BY <1>1, <1>4, <1>7, RowsAreSeq
<1>9. \A k \in DOMAIN closes: /\ closes'[k].press = closes[k].press
                              /\ closes'[k].told <=> t(k)
  <2> TAKE k \in DOMAIN closes
  <2>1. closes'[k] = [closes[k] EXCEPT !.told = @ \/ closes[k].press = pressed.press]
    BY <1>1
  <2>2. closes[k] \in CloseRow
    BY <1>5
  <2> QED BY <2>1, <2>2 DEF CloseRow
<1> HIDE DEF f, t
<1>10. \A k \in DOMAIN closes: closes[k].press \in DOMAIN presses
  BY <1>2 DEF ClosesFit
<1>11. FormFits'
  BY <1>1, <1>2 DEF FormFits, C!Cleared, C!NoTick
<1>12. PressesFit'
  <2>1. \A q \in DOMAIN presses: /\ presses[q].settled <= made
                                 /\ \A n \in presses[q].ticks: n > presses[q].settled /\ n <= made
    BY <1>2, PressTyped DEF PressesFit, FormFits, PressRow
  <2> QED BY <1>1, <1>2, <2>1 DEF PressesFit
<1>13. RowsFit' /\ CacheFits'
  BY <1>1, <1>2 DEF RowsFit, CacheFits
<1>14. \A q \in DOMAIN presses: \A n \in presses[q].ticks: n <= made
  BY <1>2 DEF PressesFit
<1>15. \A j, k \in DOMAIN closes: j < k => closes[j].press < closes[k].press
  BY <1>2 DEF ClosesFit
<1>16. ASSUME NEW j \in DOMAIN closes, NEW k \in DOMAIN closes, j < k
       PROVE  t(j) => closes[j].told
  <2>1. closes[j].press < closes[k].press /\ closes[k].press <= pressed.press
        /\ closes[j].press \in Nat /\ closes[k].press \in Nat
    BY <1>3, <1>10, <1>15, <1>16
  <2> QED BY <2>1 DEF t
<1>17. ClosesFit'
  <2>1. \A k \in DOMAIN closes': LET s == presses[closes'[k].press]
           IN /\ closes'[k].press \in DOMAIN presses
              /\ period[s.month].version >= s.version + Steps[period[s.month].status]
              /\ \A n \in s.ticks: n <= made
    BY <1>2, <1>8, <1>9, <1>14 DEF ClosesFit
  <2>2. \A j, k \in DOMAIN closes': j < k => closes'[j].press < closes'[k].press
    BY <1>8, <1>9, <1>15
  <2>3. \A j, k \in DOMAIN closes': (j < k /\ closes'[j].told) =>
          \A n \in presses[closes'[j].press].ticks: n <= presses[closes'[k].press].settled
    <3>1. \A j, k \in DOMAIN closes: (j < k /\ closes[j].told) =>
            \A n \in presses[closes[j].press].ticks: n <= presses[closes[k].press].settled
      BY <1>2 DEF ClosesFit
    <3> QED BY <1>8, <1>9, <1>16, <3>1
  <2>4. \A j, k \in DOMAIN closes':
          (j < k /\ presses[closes'[j].press].month = presses[closes'[k].press].month) =>
          presses[closes'[k].press].version >= presses[closes'[j].press].version + 3
    <3>1. \A j, k \in DOMAIN closes:
            (j < k /\ presses[closes[j].press].month = presses[closes[k].press].month) =>
            presses[closes[k].press].version >= presses[closes[j].press].version + 3
      BY <1>2 DEF ClosesFit
    <3> QED BY <1>8, <1>9, <3>1
  <2>5. presses' = presses /\ period' = period /\ settled' = made
    BY <1>1
  <2>6. \A k \in DOMAIN closes':
          /\ closes'[k].press \in DOMAIN presses'
          /\ LET r == presses'[closes'[k].press]
             IN /\ period'[r.month].version >= r.version + Steps[period'[r.month].status]
                /\ closes'[k].told => \A n \in r.ticks: n <= settled'
    BY <2>1, <2>5
  <2>7. \A j, k \in DOMAIN closes': (j < k /\ closes'[j].told) =>
          \A n \in presses'[closes'[j].press].ticks: n <= presses'[closes'[k].press].settled
    BY <2>3, <2>5
  <2>8. \A j, k \in DOMAIN closes':
          (j < k /\ presses'[closes'[j].press].month = presses'[closes'[k].press].month) =>
          presses'[closes'[k].press].version >= presses'[closes'[j].press].version + 3
    BY <2>4, <2>5
  <2> QED BY Zenon, <1>8, <2>2, <2>6, <2>7, <2>8 DEF ClosesFit
<1> QED BY <1>11, <1>12, <1>13, <1>17 DEF CInv

(* Nothing is ticked, nothing pressed.                                     *)
LEMMA InitCInv ==
  ASSUME C!ClosePageAssumption, C!Init
  PROVE  CInv
<1>1. /\ period \in [Month -> [status: {"OPEN", "IN_REVIEW", "CLOSED"}, version: Nat,
                               facts: SUBSET (Code \cup {"blocker"})]]
      /\ month \in Month /\ record = [m \in Month |-> 0]
      /\ asking = {<<"readiness", month>>, <<"record", month>>}
      /\ acknowledged = [c \in Code |-> [n |-> 0, reason |-> FALSE]]
      /\ made = 0 /\ settled = 0 /\ pressed = C!Nobody /\ presses = <<>> /\ closes = <<>>
  BY DEF C!Init, C!ClosePageAssumption, C!Cleared, C!NoTick
<1>2. FormFits /\ CacheFits
  BY <1>1 DEF FormFits, CacheFits
<1>3. RowsFit
  BY <1>1 DEF RowsFit
<1>4. /\ presses \in Seq(PressRow) /\ DOMAIN presses = {}
      /\ closes \in Seq(CloseRow) /\ DOMAIN closes = {}
  BY <1>1, EmptySeq
<1>5. PressesFit /\ ClosesFit
  BY <1>1, <1>4 DEF PressesFit, ClosesFit
<1> QED BY <1>2, <1>3, <1>5 DEF CInv

(* Every step of the page and of its colleagues keeps the invariant.       *)
LEMMA NextCInv == CInv /\ [C!Next]_C!vars => CInv'
<1> SUFFICES ASSUME CInv, [C!Next]_C!vars PROVE CInv'
  OBVIOUS
<1>1. CASE UNCHANGED C!vars
  BY <1>1 DEF C!vars, C!serverVars, C!cacheVars, C!formVars, CInv, FormFits, PressesFit, RowsFit,
              ClosesFit, CacheFits
<1>2. CASE C!startReview \/ C!reopenPeriod \/ \E m \in Month: C!Colleague(m)
  BY <1>2, TransitionsCInv
<1>3. CASE \/ \E c \in Code: C!Tick(c) \/ C!Untick(c) \/ C!GiveReason(c)
           \/ C!OpenBox \/ C!Cancel \/ C!Lose \/ C!Disappoint
           \/ \E m \in Month: C!Choose(m)
           \/ \E q \in asking: C!Answer(q)
  BY <1>3, FormCInv
<1>4. CASE C!Press
  BY <1>4, PressCInv
<1>5. CASE C!Succeed
  BY <1>5, SucceedCInv
<1> QED BY <1>1, <1>2, <1>3, <1>4, <1>5 DEF C!Next

(* The invariant keeps the ticks of closes apart.                          *)
LEMMA CInvSpends == CInv => C!TicksSpentOnce
<1> SUFFICES ASSUME CInv PROVE C!TicksSpentOnce
  OBVIOUS
<1>1. C!SpentOnce
  BY DEF CInv, PressesFit, C!SpentOnce
<1>2. ASSUME NEW j \in DOMAIN closes, NEW k \in DOMAIN closes, j < k
      PROVE  LET first == presses[closes[j].press]
                 second == presses[closes[k].press]
             IN /\ closes[j].press # closes[k].press
                /\ (first.month = second.month /\ first.ticks \cap second.ticks # {})
                     => ~closes[j].told /\ second.version >= first.version + 3
  <2> DEFINE first == presses[closes[j].press]
             second == presses[closes[k].press]
  <2>1. closes[j].press \in DOMAIN presses /\ closes[k].press \in DOMAIN presses
    BY DEF CInv, ClosesFit
  <2>2. closes[j].press \in Nat /\ closes[k].press \in Nat /\ closes[j].press < closes[k].press
    BY <1>2, <2>1, PressTyped DEF CInv, ClosesFit
  <2>3. first.month = second.month => second.version >= first.version + 3
    BY <1>2 DEF CInv, ClosesFit
  <2>4. closes[j].told => \A n \in first.ticks: n <= second.settled
    BY <1>2 DEF CInv, ClosesFit
  <2>5. \A n \in second.ticks: n > second.settled
    BY <2>1 DEF CInv, PressesFit
  <2>6. second.ticks \subseteq Nat /\ second.settled \in Nat
    BY <2>1, PressTyped DEF PressRow
  <2> HIDE DEF first, second
  <2>7. closes[j].told => first.ticks \cap second.ticks = {}
    BY <2>4, <2>5, <2>6
  <2>8. /\ closes[j].press # closes[k].press
        /\ (first.month = second.month /\ first.ticks \cap second.ticks # {})
             => ~closes[j].told /\ second.version >= first.version + 3
    BY <2>2, <2>3, <2>7
  <2> QED BY <2>8 DEF first, second
<1> QED BY <1>1, <1>2 DEF C!TicksSpentOnce, C!ClosedOncePerPress

(* TicksSpentOnce on every close page, whatever its months, its codes and  *)
(* its periods: an acceptance is spent by the close seen to succeed, and   *)
(* the same ticks close a month again only after it was reopened and when  *)
(* the first answer never arrived whole (CloseWorkspace.tsx).              *)
THEOREM TicksAreSpentOnce ==
  ASSUME C!ClosePageAssumption
  PROVE  C!Init /\ [][C!Next]_C!vars => []C!TicksSpentOnce
<1>1. C!Init => CInv
  BY InitCInv
<1> QED BY <1>1, NextCInv, CInvSpends, PTL

----------------------------------------------------------------------------
(* Decimals.  A prorated rent is rounded twice, to the intermediate scale  *)
(* and to cents, and comes out as if it had been rounded once.             *)

(* A factor above zero is cancelled. *)
LEMMA Cancelled ==
  ASSUME NEW d \in Nat \ {0}, NEW a \in Int, NEW b \in Int
  PROVE  /\ d * a < d * b => a < b
         /\ d * a <= d * b => a <= b
BY SMT

(* A factor of a hundred moves outside a product. *)
LEMMA HundredOutside ==
  ASSUME NEW a \in Nat, NEW b \in Nat
  PROVE  a * (100 * b) = 100 * (a * b) /\ (a * 100) * b = 100 * (a * b)
  OBVIOUS

(* There is one quotient rounded to the nearest, halves upwards. *)
LEMMA NearestIsUnique ==
  ASSUME NEW n \in Nat, NEW d \in Nat \ {0}, NEW a \in Int, NEW b \in Int,
         2 * (d * a) <= 2 * n + d, 2 * n + d < 2 * (d * a) + 2 * d,
         2 * (d * b) <= 2 * n + d, 2 * n + d < 2 * (d * b) + 2 * d
  PROVE  a = b
<1>1. d * a < d * (b + 1) /\ d * b < d * (a + 1)
  BY SMT
<1>2. a < b + 1 /\ b < a + 1
  BY <1>1, Cancelled
<1> QED
  BY <1>2

(* Of amounts that are not negative, the quotient is rounded down or up. *)
LEMMA RoundedToNeighbour ==
  ASSUME NEW n \in Nat, NEW d \in Nat \ {0}, NEW mode
  PROVE  LET q == n \div d
             r == n % d
         IN divideRounded(n, d, mode) =
              IF r # 0 /\ Away(q, 2 * r, d, FALSE, mode) THEN q + 1 ELSE q
<1>1. abs(n) = n /\ abs(d) = d
  BY DEF abs
<1>2. ((n < 0) # (d < 0)) = FALSE
  OBVIOUS
<1> QED
  BY <1>1, <1>2 DEF divideRounded

(* HALF_UP gives the multiple of the divisor that is nearest. *)
LEMMA HalfUpIsNearest ==
  ASSUME NEW n \in Nat, NEW d \in Nat \ {0}
  PROVE  LET h == divideRounded(n, d, "HALF_UP")
         IN /\ h \in Nat
            /\ 2 * (d * h) <= 2 * n + d
            /\ 2 * n + d < 2 * (d * h) + 2 * d
<1> DEFINE q == n \div d
           r == n % d
           h == divideRounded(n, d, "HALF_UP")
<1>1. q \in Nat /\ r \in Nat /\ r < d /\ n = d * q + r
  BY DivisionFacts
<1>2. h = IF r # 0 /\ 2 * r >= d THEN q + 1 ELSE q
  BY RoundedToNeighbour DEF Away
<1> HIDE DEF q, r, h
<1>3. CASE r # 0 /\ 2 * r >= d
  <2>1. h = q + 1 /\ d * h = d * q + d
    BY <1>1, <1>2, <1>3
  <2> QED
    BY <1>1, <1>3, <2>1 DEF h
<1>4. CASE ~(r # 0 /\ 2 * r >= d)
  <2>1. h = q
    BY <1>2, <1>4
  <2> QED
    BY <1>1, <1>4, <2>1 DEF h
<1> QED
  BY <1>3, <1>4

(* HALF_EVEN misses the quotient by half a unit at most. *)
LEMMA HalfEvenIsNear ==
  ASSUME NEW n \in Nat, NEW d \in Nat \ {0}
  PROVE  LET h == divideRounded(n, d, "HALF_EVEN")
         IN /\ h \in Nat
            /\ 2 * (d * h) <= 2 * n + d
            /\ 2 * n <= 2 * (d * h) + d
<1> DEFINE q == n \div d
           r == n % d
           away == 2 * r > d \/ (2 * r = d /\ q % 2 = 1)
           h == divideRounded(n, d, "HALF_EVEN")
<1>1. q \in Nat /\ r \in Nat /\ r < d /\ n = d * q + r
  BY DivisionFacts
<1>2. h = IF r # 0 /\ away THEN q + 1 ELSE q
  BY RoundedToNeighbour DEF Away
<1>3. away => 2 * r >= d
  BY <1>1
<1>4. ~away => 2 * r <= d
  BY <1>1
<1> HIDE DEF q, r, h, away
<1>5. CASE r # 0 /\ away
  <2>1. h = q + 1 /\ d * h = d * q + d
    BY <1>1, <1>2, <1>5
  <2> QED
    BY <1>1, <1>3, <1>5, <2>1 DEF h
<1>6. CASE ~(r # 0 /\ away)
  <2>1. h = q
    BY <1>2, <1>6
  <2> QED
    BY <1>1, <1>4, <1>6, <2>1 DEF h
<1> QED
  BY <1>5, <1>6

(* The intermediate scale divides by d and keeps the result in units of    *)
(* 1/K, off by half a unit of its own at most; rounding that to whole      *)
(* units agrees with rounding n / d, because twice the first quotient and  *)
(* every boundary 2Kh - K are even, and half a unit does not reach from    *)
(* one to the next.                                                        *)
LEMMA RoundedTwice ==
  ASSUME NEW n \in Nat, NEW d \in Nat \ {0}, NEW k \in Nat, 2 * k > d,
         NEW q \in Nat, 2 * (d * q) <= 2 * (n * (2 * k)) + d, 2 * (n * (2 * k)) <= 2 * (d * q) + d
  PROVE  divideRounded(q, 2 * k, "HALF_UP") = divideRounded(n, d, "HALF_UP")
<1> DEFINE h == divideRounded(n, d, "HALF_UP")
           g == divideRounded(q, 2 * k, "HALF_UP")
<1>1. h \in Nat /\ 2 * (d * h) <= 2 * n + d /\ 2 * n + d < 2 * (d * h) + 2 * d
  BY HalfUpIsNearest
<1>2. 2 * k \in Nat \ {0}
  OBVIOUS
<1>3. /\ g \in Nat
      /\ 2 * (2 * k * g) <= 2 * q + 2 * k
      /\ 2 * q + 2 * k < 2 * (2 * k * g) + 2 * (2 * k)
  BY <1>2, HalfUpIsNearest
<1> HIDE DEF h, g
<1>4. q + k >= 2 * (k * h)
  <2>1. k * (2 * (d * h)) <= k * (2 * n + d)
    BY <1>1
  <2>2. d * (2 * (q + k) - 2 * (2 * (k * h))) >= -d
    BY <1>1, <2>1
  <2>3. d * (2 * (q + k) - 2 * (2 * (k * h))) > d * (-2)
    BY <1>1, <2>2, d * (-2) = -d - d, -d > -d - d
  <2>4. 2 * (q + k) - 2 * (2 * (k * h)) > -2
    BY <1>1, <2>3, Cancelled
  <2> QED
    BY <1>1, <2>4
<1>5. q + k < 2 * (k * h) + 2 * k
  <2>1. k * (2 * n + d + 1) <= k * (2 * (d * h) + 2 * d)
    BY <1>1
  <2>2. d * (2 * (q + k)) < d * (2 * (2 * (k * h) + 2 * k))
    BY <1>1, <2>1
  <2>3. 2 * (q + k) < 2 * (2 * (k * h) + 2 * k)
    BY <1>1, <2>2, Cancelled
  <2> QED
    BY <1>1, <2>3
<1> QED
  BY <1>1, <1>2, <1>3, <1>4, <1>5, NearestIsUnique DEF h, g

(* What prorateMonthlyAmount computes (proration.ts:112-118) is the amount  *)
(* for the days, rounded to cents once, with half a cent upwards: no        *)
(* charge is a cent off because a division came before the rounding.        *)
(* INTERMEDIATE_SCALE is 12, so the powers are 10^2, 10^10 and 10^12, and   *)
(* the divisor is a number of days.                                         *)
THEOREM ProratedOnce ==
  ASSUME NEW amount \in Nat, NEW days \in Nat, NEW divisor \in Nat \ {0},
         NEW scale \in Nat, scale > 2, NEW k \in Nat, 2 * k > divisor,
         pow10(2) = 100, pow10(scale - 2) = 2 * k, pow10(scale) = 100 * (2 * k)
  PROVE  toCents(dividedBy(times(toDecimal(amount), ofInteger(days)), ofInteger(divisor),
                           scale, "HALF_EVEN"), "HALF_UP")
           = divideRounded(amount * days, divisor, "HALF_UP")
<1> DEFINE n == amount * days
           q == divideRounded((amount * days) * (100 * (2 * k)), divisor * 100, "HALF_EVEN")
<1>1. n \in Nat
  OBVIOUS
<1>2. times(toDecimal(amount), ofInteger(days)) = [units |-> n, scale |-> 2 + 0]
  BY DEF times, toDecimal, ofInteger, ofUnits
<1>3. dividedBy(times(toDecimal(amount), ofInteger(days)), ofInteger(divisor), scale, "HALF_EVEN")
        = [units |-> q, scale |-> scale]
  <2>1. 0 + scale = scale /\ 2 + 0 = 2
    OBVIOUS
  <2> QED
    BY <1>2, <2>1 DEF dividedBy, ofInteger, ofUnits
<1>4. toCents([units |-> q, scale |-> scale], "HALF_UP") = divideRounded(q, 2 * k, "HALF_UP")
  <2>1. ~(2 >= scale)
    OBVIOUS
  <2> QED
    BY <2>1 DEF toCents, round, ofUnits
<1>5. /\ q \in Nat
      /\ 2 * (divisor * q) <= 2 * (n * (2 * k)) + divisor
      /\ 2 * (n * (2 * k)) <= 2 * (divisor * q) + divisor
  <2> DEFINE m == n * (100 * (2 * k))
             d == divisor * 100
  <2>1. m \in Nat /\ d \in Nat \ {0}
    BY <1>1
  <2>2. q = divideRounded(m, d, "HALF_EVEN")
    OBVIOUS
  <2> HIDE DEF n, q, m, d
  <2>3. q \in Nat /\ 2 * (d * q) <= 2 * m + d /\ 2 * m <= 2 * (d * q) + d
    BY <2>2, <2>1, HalfEvenIsNear
  <2>4. m = 100 * (n * (2 * k))
    <3>1. n \in Nat /\ 2 * k \in Nat
      BY <1>1
    <3> QED
      BY <3>1, HundredOutside DEF m
  <2>5. d * q = 100 * (divisor * q)
    BY <2>3, HundredOutside DEF d
  <2> QED
    BY <1>1, <2>3, <2>4, <2>5 DEF d
<1> HIDE DEF n, q
<1> QED
  BY <1>1, <1>3, <1>4, <1>5, RoundedTwice DEF n

(* A month that an amendment splits in two, at the same rent, is never       *)
(* billed less than the rent, and at most one cent more.                     *)
THEOREM SplitMonthWithinACent ==
  ASSUME NEW amount \in Nat, NEW first \in Nat, NEW second \in Nat, first + second > 0
  PROVE  divideRounded(amount * first, first + second, "HALF_UP")
           + divideRounded(amount * second, first + second, "HALF_UP") \in {amount, amount + 1}
<1> DEFINE d == first + second
           a == divideRounded(amount * first, d, "HALF_UP")
           b == divideRounded(amount * second, d, "HALF_UP")
<1>1. d \in Nat \ {0} /\ amount * first \in Nat /\ amount * second \in Nat
  OBVIOUS
<1>2. /\ a \in Nat
      /\ 2 * (d * a) <= 2 * (amount * first) + d
      /\ 2 * (amount * first) + d < 2 * (d * a) + 2 * d
  BY <1>1, HalfUpIsNearest
<1>3. /\ b \in Nat
      /\ 2 * (d * b) <= 2 * (amount * second) + d
      /\ 2 * (amount * second) + d < 2 * (d * b) + 2 * d
  BY <1>1, HalfUpIsNearest
<1>4. amount * first + amount * second = d * amount
  OBVIOUS
<1> HIDE DEF d, a, b
<1>5. d * (amount - 1) < d * (a + b) /\ d * (a + b) <= d * (amount + 1)
  BY <1>1, <1>2, <1>3, <1>4
<1>6. amount - 1 < a + b /\ a + b <= amount + 1
  BY <1>1, <1>2, <1>3, <1>5, Cancelled
<1>7. a + b \in {amount, amount + 1}
  BY <1>2, <1>3, <1>6
<1> QED
  BY <1>7 DEF a, b, d

----------------------------------------------------------------------------
(* The calendar.  A month begins on the day after the one before it ends,  *)
(* so that no day is in two of them.                                       *)

(* A quotient steps up at the multiples of its divisor. *)
LEMMA QuotientSteps ==
  ASSUME NEW n \in Int, NEW k \in {4, 100, 400}
  PROVE  n \div k = (n - 1) \div k + (IF n % k = 0 THEN 1 ELSE 0)
<1>1. CASE k = 4
  BY <1>1
<1>2. CASE k = 100
  BY <1>2
<1>3. CASE k = 400
  BY <1>3
<1> QED BY <1>1, <1>2, <1>3

Leap(year) == IF isLeapYear(year) THEN 1 ELSE 0

(* The leap years before a year count the year before it. *)
LEMMA LeapYearsAddUp ==
  ASSUME NEW y \in Int
  PROVE  LeapYearsBefore(y) \in Int /\ LeapYearsBefore(y + 1) = LeapYearsBefore(y) + Leap(y)
<1>1. /\ y \div 4 = (y - 1) \div 4 + (IF y % 4 = 0 THEN 1 ELSE 0)
      /\ y \div 100 = (y - 1) \div 100 + (IF y % 100 = 0 THEN 1 ELSE 0)
      /\ y \div 400 = (y - 1) \div 400 + (IF y % 400 = 0 THEN 1 ELSE 0)
  BY QuotientSteps
<1>2. /\ y % 400 = 0 => y % 100 = 0
      /\ y % 100 = 0 => y % 4 = 0
  OBVIOUS
<1>3. /\ (y - 1) \div 4 \in Int /\ (y - 1) \div 100 \in Int /\ (y - 1) \div 400 \in Int
      /\ (y + 1) - 1 = y
  OBVIOUS
<1> QED BY <1>1, <1>2, <1>3 DEF LeapYearsBefore, Leap, isLeapYear

(* A month has 28 to 31 days. *)
LEMMA MonthLengths ==
  ASSUME NEW year, NEW m \in 1 .. 12
  PROVE  daysInMonth(year, m) \in 28 .. 31
BY DEF daysInMonth

(* The days of the months before one. *)
LEMMA MonthsAddUp ==
  ASSUME NEW year
  PROVE  /\ DaysBeforeMonth(year, 1) = 0
         /\ \A m \in 1 .. 11 :
              DaysBeforeMonth(year, m + 1) = DaysBeforeMonth(year, m) + daysInMonth(year, m)
         /\ \A m \in 1 .. 12 : DaysBeforeMonth(year, m) \in Nat
         /\ DaysBeforeMonth(year, 12) + daysInMonth(year, 12) = 365 + Leap(year)
<1> DEFINE leap == Leap(year)
           known == [m \in 1 .. 12 |->
              IF m = 1 THEN 0 ELSE IF m = 2 THEN 31 ELSE
              leap + (IF m = 3 THEN 59 ELSE IF m = 4 THEN 90 ELSE IF m = 5 THEN 120
                      ELSE IF m = 6 THEN 151 ELSE IF m = 7 THEN 181 ELSE IF m = 8 THEN 212
                      ELSE IF m = 9 THEN 243 ELSE IF m = 10 THEN 273 ELSE IF m = 11 THEN 304
                      ELSE 334) - leap + leap]
           Sums(f) == f = [m \in 1 .. 12 |-> IF m = 1 THEN 0 ELSE f[m - 1] + daysInMonth(year, m - 1)]
           sum == CHOOSE f : Sums(f)
<1>1. leap \in {0, 1} /\ daysInMonth(year, 2) = 28 + leap
  BY DEF Leap, daysInMonth
<1>2. /\ \A m \in {1, 3, 5, 7, 8, 10, 12} : daysInMonth(year, m) = 31
      /\ \A m \in {4, 6, 9, 11} : daysInMonth(year, m) = 30
  BY DEF daysInMonth
<1> HIDE DEF leap
<1>3. \A m \in 1 .. 12 : known[m] = IF m = 1 THEN 0 ELSE known[m - 1] + daysInMonth(year, m - 1)
  <2>1. \A m \in 1 .. 12 : m \in {1, 2, 3, 4, 5, 6, 7, 8, 9, 10, 11, 12}
    OBVIOUS
  <2>2. /\ known[1] = 0 /\ known[2] = 31 /\ known[3] = 59 + leap /\ known[4] = 90 + leap
        /\ known[5] = 120 + leap /\ known[6] = 151 + leap /\ known[7] = 181 + leap
        /\ known[8] = 212 + leap /\ known[9] = 243 + leap /\ known[10] = 273 + leap
        /\ known[11] = 304 + leap /\ known[12] = 334 + leap
    BY <1>1
  <2> HIDE DEF known
  <2> QED BY <1>1, <1>2, <2>1, <2>2
<1>4. Sums(known)
  <2>1. known = [m \in 1 .. 12 |-> known[m]]
    OBVIOUS
  <2>2. [m \in 1 .. 12 |-> known[m]]
          = [m \in 1 .. 12 |-> IF m = 1 THEN 0 ELSE known[m - 1] + daysInMonth(year, m - 1)]
    <3> HIDE DEF known
    <3> QED BY <1>3
  <2> HIDE DEF known
  <2> QED BY <2>1, <2>2
<1>5. Sums(sum)
  <2> HIDE DEF known, Sums
  <2> QED BY <1>4
<1>6. \A m : DaysBeforeMonth(year, m) = sum[m]
  BY DEF DaysBeforeMonth
<1> HIDE DEF sum, known
<1>7. sum[1] = 0 /\ \A m \in 1 .. 11 : sum[m + 1] = sum[m] + daysInMonth(year, m)
  BY <1>5
<1>8. /\ sum[2] = 31 /\ sum[3] = 59 + leap /\ sum[4] = 90 + leap
      /\ sum[5] = 120 + leap /\ sum[6] = 151 + leap /\ sum[7] = 181 + leap
      /\ sum[8] = 212 + leap /\ sum[9] = 243 + leap /\ sum[10] = 273 + leap
      /\ sum[11] = 304 + leap /\ sum[12] = 334 + leap
  <2>1. /\ sum[2] = sum[1] + 31 /\ sum[3] = sum[2] + (28 + leap) /\ sum[4] = sum[3] + 31
        /\ sum[5] = sum[4] + 30 /\ sum[6] = sum[5] + 31 /\ sum[7] = sum[6] + 30
    BY <1>1, <1>2, <1>7
  <2>2. /\ sum[8] = sum[7] + 31 /\ sum[9] = sum[8] + 31 /\ sum[10] = sum[9] + 30
        /\ sum[11] = sum[10] + 31 /\ sum[12] = sum[11] + 30
    BY <1>2, <1>7
  <2> QED BY <1>1, <1>7, <2>1, <2>2
<1>9. \A m \in 1 .. 12 : sum[m] \in Nat
  <2>1. \A m \in 1 .. 12 : m \in {1, 2, 3, 4, 5, 6, 7, 8, 9, 10, 11, 12}
    OBVIOUS
  <2> QED BY <1>1, <1>7, <1>8, <2>1
<1>10. sum[12] + daysInMonth(year, 12) = 365 + leap
  BY <1>1, <1>2, <1>8
<1> QED BY <1>6, <1>7, <1>9, <1>10 DEF leap

(* A period is its first day and as many more as its month has. *)
LEMMA PeriodIs ==
  ASSUME NEW p \in Nat
  PROVE  /\ YearOf(p) \in Int /\ MonthOf(p) \in 1 .. 12
         /\ periodStart(p) \in Int /\ periodEnd(p) \in Int /\ periodDayCount(p) \in 28 .. 31
         /\ periodEnd(p) = periodStart(p) + periodDayCount(p) - 1
<1>1. YearOf(p) \in Int /\ MonthOf(p) \in 1 .. 12
  BY DEF YearOf, MonthOf
<1>2. /\ LeapYearsBefore(YearOf(p)) \in Int /\ LeapYearsBefore(1970) \in Int
      /\ DaysBeforeMonth(YearOf(p), MonthOf(p)) \in Nat
  <2>1. LeapYearsBefore(YearOf(p)) \in Int
    BY <1>1, LeapYearsAddUp
  <2>2. 1970 \in Int
    OBVIOUS
  <2>3. LeapYearsBefore(1970) \in Int
    BY <2>2, LeapYearsAddUp
  <2> QED BY <1>1, <2>1, <2>3, MonthsAddUp
<1>3. periodDayCount(p) \in 28 .. 31
  BY <1>1, MonthLengths DEF periodDayCount
<1> QED BY <1>1, <1>2, <1>3 DEF periodStart, periodEnd, toEpochDay

(* The next period begins on the day after the last. *)
LEMMA PeriodsFollow ==
  ASSUME NEW p \in Nat
  PROVE  periodStart(p + 1) = periodEnd(p) + 1
<1> DEFINE y == YearOf(p)
           m == MonthOf(p)
           l == LeapYearsBefore(y)
           d == DaysBeforeMonth(y, m)
           n == daysInMonth(y, m)
           e == LeapYearsBefore(1970)
<1>1. y \in Int /\ m \in 1 .. 12
  BY PeriodIs
<1>2. l \in Int /\ d \in Int /\ e \in Int /\ n \in Int
  <2>1. 1970 \in Int
    OBVIOUS
  <2>2. l \in Int /\ e \in Int
    BY <1>1, <2>1, LeapYearsAddUp
  <2>3. n \in 28 .. 31 /\ d \in Nat
    BY <1>1, MonthLengths, MonthsAddUp
  <2> HIDE DEF l, d, n, e
  <2> QED BY <2>2, <2>3
<1>3. periodEnd(p) = 365 * (y - 1970) + l - e + d + n - 1
  BY DEF periodEnd, toEpochDay, periodDayCount
<1>4. CASE m < 12
  <2>1. YearOf(p + 1) = y /\ MonthOf(p + 1) = m + 1
    BY <1>4 DEF YearOf, MonthOf
  <2>2. DaysBeforeMonth(y, m + 1) = d + n
    <3>1. m \in 1 .. 11
      BY <1>1, <1>4
    <3> QED BY <3>1, MonthsAddUp
  <2>3. periodStart(p + 1) = 365 * (y - 1970) + l - e + (d + n) + 1 - 1
    BY <2>1, <2>2 DEF periodStart, toEpochDay
  <2> HIDE DEF y, m, l, d, n, e
  <2> QED BY <1>1, <1>2, <1>3, <2>3
<1>5. CASE m = 12
  <2>1. YearOf(p + 1) = y + 1 /\ MonthOf(p + 1) = 1
    BY <1>5 DEF YearOf, MonthOf
  <2>2. DaysBeforeMonth(y + 1, 1) = 0 /\ d + n = 365 + Leap(y)
    BY <1>5, MonthsAddUp
  <2>3. LeapYearsBefore(y + 1) = l + Leap(y)
    BY <1>1, LeapYearsAddUp
  <2>4. periodStart(p + 1) = 365 * ((y + 1) - 1970) + (l + Leap(y)) - e + 0 + 1 - 1
    <3>1. periodStart(p + 1) = 365 * ((y + 1) - 1970) + LeapYearsBefore(y + 1) - e
                               + DaysBeforeMonth(y + 1, 1) + 1 - 1
      <4> DEFINE z == YearOf(p + 1)
                 k == MonthOf(p + 1)
      <4>1. periodStart(p + 1) = 365 * (z - 1970) + LeapYearsBefore(z) - LeapYearsBefore(1970)
                                 + DaysBeforeMonth(z, k) + 1 - 1
        BY DEF periodStart, toEpochDay
      <4>2. z = y + 1 /\ k = 1
        BY <2>1
      <4> HIDE DEF z, k, y
      <4> QED BY <4>1, <4>2
    <3> HIDE DEF y, l, e
    <3> QED BY <2>2, <2>3, <3>1
  <2>5. Leap(y) \in Int
    BY DEF Leap
  <2> HIDE DEF y, m, l, d, n, e
  <2> QED BY <1>1, <1>2, <1>3, <2>2, <2>4, <2>5
<1> QED BY <1>1, <1>4, <1>5

(* Of two periods the earlier one ends before the later one begins. *)
LEMMA PeriodsAreApart ==
  ASSUME NEW p \in Nat, NEW q \in Nat, p < q
  PROVE  periodEnd(p) < periodStart(q)
<1> DEFINE behind(n) == ~(periodEnd(p) < periodStart(n))
           T == {p + 1 .. n : n \in {i \in p + 1 .. q : behind(i)}}
<1>1. SUFFICES ASSUME behind(q) PROVE FALSE
  OBVIOUS
<1>2. p + 1 .. q \in T /\ T \subseteq SUBSET (p + 1 .. q) /\ IsFiniteSet(p + 1 .. q)
  <2>1. q \in {i \in p + 1 .. q : behind(i)}
    BY <1>1
  <2>2. \A n \in p + 1 .. q : p + 1 .. n \subseteq p + 1 .. q
    OBVIOUS
  <2>3. IsFiniteSet(p + 1 .. q)
    BY FS_Interval
  <2> HIDE DEF behind
  <2> QED BY <2>1, <2>2, <2>3
<1>3. PICK U \in T : \A V \in T : V \subseteq U => V = U
  <2> DEFINE All == p + 1 .. q
  <2>1. T # {} /\ T \subseteq SUBSET All /\ IsFiniteSet(All)
    BY <1>2
  <2> HIDE DEF T, All
  <2> QED BY <2>1, LeastSet
<1>4. PICK n \in p + 1 .. q : behind(n) /\ U = p + 1 .. n
  BY <1>3
<1>5. periodEnd(p) \in Int /\ periodEnd(n - 1) \in Int /\ periodStart(n - 1) \in Int
      /\ periodDayCount(n - 1) \in 28 .. 31
      /\ periodEnd(n - 1) = periodStart(n - 1) + periodDayCount(n - 1) - 1
      /\ periodStart(n) = periodEnd(n - 1) + 1
  <2>1. n - 1 \in Nat /\ (n - 1) + 1 = n
    OBVIOUS
  <2>2. periodStart((n - 1) + 1) = periodEnd(n - 1) + 1
    BY <2>1, PeriodsFollow
  <2> QED BY <2>1, <2>2, PeriodIs
<1>6. CASE n = p + 1
  <2>1. periodStart(n) = periodEnd(p) + 1
    BY <1>5, <1>6
  <2> QED BY <1>4, <1>5, <2>1
<1>7. CASE n > p + 1
  <2>1. behind(n - 1)
    BY <1>4, <1>5
  <2>2. n - 1 \in p + 1 .. q
    BY <1>7
  <2>3. p + 1 .. n - 1 \in T
    <3> HIDE DEF behind
    <3> QED BY <2>1, <2>2
  <2>4. p + 1 .. n - 1 = p + 1 .. n
    <3>1. p + 1 .. n - 1 \subseteq p + 1 .. n
      OBVIOUS
    <3> HIDE DEF T
    <3> QED BY <1>3, <1>4, <2>3, <3>1
  <2>5. n \in p + 1 .. n /\ n \notin p + 1 .. n - 1
    OBVIOUS
  <2> QED BY <2>4, <2>5
<1> QED BY <1>6, <1>7

----------------------------------------------------------------------------
(* The version in force.  What detectOverlaps leaves of a version is the   *)
(* days on which it is in force: those it covers before the next begins.   *)

(* What a version holds. *)
LEMMA VersionParts ==
  ASSUME LeaseFits(lease), NEW v \in lease.versions
  PROVE  /\ v \in [schedule: Schedule, number: Nat, from: Int, to: Int, amount: Int,
                   prorate: BOOLEAN, once: BOOLEAN, dueDay: 1 .. 31]
         /\ v.schedule \in Schedule /\ v.number \in Nat /\ v.from \in Int /\ v.to \in Int
         /\ v.amount \in Int /\ v.prorate \in BOOLEAN /\ v.once \in BOOLEAN
         /\ v.dueDay \in 1 .. 31 /\ v.from <= v.to
<1>1. v \in VersionRow
  BY DEF LeaseFits
<1> QED BY <1>1 DEF VersionRow

(* The versions of a schedule are in a strict sum order. *)
LEMMA VersionsOrdered ==
  ASSUME LeaseFits(lease)
  PROVE  /\ \A v, w \in lease.versions :
              (v.schedule = w.schedule /\ v # w) => Precedes(v, w) \/ Precedes(w, v)
         /\ \A v, w \in lease.versions : ~(Precedes(v, w) /\ Precedes(w, v))
         /\ \A v, w, x \in lease.versions : Precedes(v, w) /\ Precedes(w, x) => Precedes(v, x)
<1>1. \A v \in lease.versions : v.from \in Int /\ v.number \in Nat
  BY VersionParts
<1>2. \A v, w \in lease.versions : (v.schedule = w.schedule /\ v.number = w.number) => v = w
  BY DEF LeaseFits
<1> QED BY <1>1, <1>2 DEF Precedes

(* Of versions of one schedule there is a first. *)
LEMMA FirstVersion ==
  ASSUME LeaseFits(lease), NEW R \in SUBSET lease.versions, R # {},
         \A v, w \in R : v.schedule = w.schedule
  PROVE  \E w \in R : \A x \in R \ {w} : Precedes(w, x)
<1> DEFINE T == {V \in SUBSET R : V # {} /\ ~ \E w \in V : \A x \in V \ {w} : Precedes(w, x)}
<1>1. SUFFICES ASSUME T # {} PROVE FALSE
  BY DEF T
<1>2. PICK V \in T : \A W \in T : W \subseteq V => W = V
  <2>1. IsFiniteSet(R) /\ T \subseteq SUBSET R
    BY FS_Subset DEF LeaseFits
  <2> HIDE DEF T
  <2> QED BY <1>1, <2>1, LeastSet
<1>3. PICK e \in V : TRUE
  OBVIOUS
<1>4. V \ {e} \notin T
  BY <1>2, <1>3
<1>5. CASE V \ {e} = {}
  BY <1>3, <1>5
<1>6. CASE V \ {e} # {}
  <2>1. PICK w \in V \ {e} : \A x \in (V \ {e}) \ {w} : Precedes(w, x)
    BY <1>4, <1>6
  <2>2. e \in R /\ w \in R /\ e # w /\ V \subseteq R
    BY <1>3, <2>1
  <2>3. Precedes(e, w) \/ Precedes(w, e)
    BY <2>2, VersionsOrdered
  <2>4. CASE Precedes(w, e)
    BY <2>1, <2>2, <2>4
  <2>5. CASE Precedes(e, w)
    <3>1. \A x \in V \ {e} : Precedes(e, x)
      BY <2>1, <2>2, <2>5, VersionsOrdered
    <3> QED BY <1>3, <3>1
  <2> QED BY <2>3, <2>4, <2>5
<1> QED BY <1>5, <1>6

(* The next version is the first of those that follow. *)
LEMMA NextIs ==
  ASSUME LeaseFits(lease), NEW v \in lease.versions, Following(lease, v) # {}
  PROVE  /\ NextVersion(lease, v) \in Following(lease, v)
         /\ \A x \in Following(lease, v) : NextVersion(lease, v).from <= x.from
<1> DEFINE R == Following(lease, v)
           n == NextVersion(lease, v)
<1>1. R \in SUBSET lease.versions /\ \A x, y \in R : x.schedule = y.schedule
  BY DEF Following
<1>2. \E w \in R : \A x \in R \ {w} : Precedes(w, x)
  <2> HIDE DEF R
  <2> QED BY <1>1, FirstVersion DEF R
<1>3. n \in R /\ \A x \in R \ {n} : Precedes(n, x)
  BY <1>2 DEF NextVersion
<1>4. \A x \in R : x.from \in Int
  BY <1>1, VersionParts
<1> QED BY <1>3, <1>4 DEF Precedes

(* One version of a schedule is in force on a day. *)
LEMMA OneInForce ==
  ASSUME LeaseFits(lease), NEW day \in Int, NEW v \in InForce(day), NEW w \in InForce(day),
         v.schedule = w.schedule
  PROVE  v = w
<1>1. SUFFICES ASSUME v # w PROVE FALSE
  OBVIOUS
<1>2. v \in lease.versions /\ w \in lease.versions
  BY DEF InForce
<1>3. /\ v.from <= day /\ \A x \in Following(lease, v) : x.from > day
      /\ w.from <= day /\ \A x \in Following(lease, w) : x.from > day
  BY DEF InForce, EffectiveRange, makeRange, rangeContains
<1>4. w \in Following(lease, v) \/ v \in Following(lease, w)
  BY <1>1, <1>2, VersionsOrdered DEF Following
<1> QED BY <1>2, <1>3, <1>4, VersionParts

(* What is left of a version is itself with another last day, and the days *)
(* left are those on which it is in force.                                 *)
LEMMA TruncatedIs ==
  ASSUME LeaseFits(lease), NEW v \in lease.versions, NEW u \in Truncated(lease, v)
  PROVE  /\ u.to \in Int /\ u.from <= u.to
         /\ u.schedule = v.schedule /\ u.from = v.from /\ u.amount = v.amount
         /\ u.prorate = v.prorate /\ u.once = v.once /\ u.dueDay = v.dueDay
         /\ \A day \in Int : u.from <= day /\ day <= u.to => v \in InForce(day)
<1> DEFINE next == NextVersion(lease, v)
<1>1. v.from \in Int /\ v.to \in Int /\ v.from <= v.to
      /\ v \in [schedule: Schedule, number: Nat, from: Int, to: Int, amount: Int,
                prorate: BOOLEAN, once: BOOLEAN, dueDay: 1 .. 31]
  BY VersionParts
<1>2. \A w \in Following(lease, v) : w \in lease.versions /\ w.from \in Int /\ w.to \in Int /\ w.from <= w.to
  BY VersionParts DEF Following
<1>3. CASE Following(lease, v) = {}
  <2>1. u = v
    BY <1>3 DEF Truncated
  <2>2. \A day \in Int : v.from <= day /\ day <= v.to => v \in InForce(day)
    BY <1>3 DEF InForce, EffectiveRange, makeRange, rangeContains
  <2> QED BY <1>1, <2>1, <2>2
<1>4. CASE Following(lease, v) # {}
  <2>1. next \in Following(lease, v) /\ \A x \in Following(lease, v) : next.from <= x.from
    BY <1>4, NextIs
  <2>2. v.from <= next.from /\ next.from \in Int /\ next.to \in Int /\ next.from <= next.to
    BY <1>1, <1>2, <2>1 DEF Following, Precedes
  <2>3. Intersects(EffectiveRange(v), EffectiveRange(next)) <=> next.from <= v.to
    BY <1>1, <2>2 DEF Intersects, EffectiveRange, makeRange, LaterOf, EarlierOf
  <2>4. \A day \in Int : v.from <= day /\ day <= v.to /\ day < next.from => v \in InForce(day)
    BY <1>1, <1>2, <2>1, <2>2 DEF InForce, EffectiveRange, makeRange, rangeContains
  <2>5. CASE ~Intersects(EffectiveRange(v), EffectiveRange(next))
    <3>1. u = v
      BY <1>4, <2>5 DEF Truncated
    <3> QED BY <1>1, <2>2, <2>3, <2>4, <2>5, <3>1
  <2>6. CASE Intersects(EffectiveRange(v), EffectiveRange(next))
    <3>1. v.from <= next.from - 1 /\ u = [v EXCEPT !.to = next.from - 1]
      BY <1>1, <1>4, <2>2, <2>6 DEF Truncated, TruncatedEnd
    <3>2. u.to = next.from - 1 /\ u.from = v.from /\ u.schedule = v.schedule /\ u.amount = v.amount
          /\ u.prorate = v.prorate /\ u.once = v.once /\ u.dueDay = v.dueDay
      BY <1>1, <3>1
    <3> QED BY <1>1, <2>2, <2>3, <2>4, <2>6, <3>1, <3>2
  <2> QED BY <2>5, <2>6
<1> QED BY <1>3, <1>4

(* There is one rest of a version at most. *)
LEMMA OneTruncated ==
  ASSUME NEW v, NEW u \in Truncated(lease, v), NEW w \in Truncated(lease, v)
  PROVE  u = w
BY DEF Truncated

(* A version in force on a day is left with that day. *)
LEMMA InForceIsLeft ==
  ASSUME LeaseFits(lease), NEW day \in Int, NEW v \in InForce(day)
  PROVE  v \in lease.versions /\ \E u \in Truncated(lease, v) : u.from <= day /\ day <= u.to
<1> DEFINE next == NextVersion(lease, v)
<1>0. v \in lease.versions
  BY DEF InForce
<1>1. v.from \in Int /\ v.to \in Int /\ v.from <= v.to
      /\ v \in [schedule: Schedule, number: Nat, from: Int, to: Int, amount: Int,
                prorate: BOOLEAN, once: BOOLEAN, dueDay: 1 .. 31]
  BY <1>0, VersionParts
<1>2. /\ v.from <= day /\ day <= v.to
      /\ \A x \in Following(lease, v) : x.from > day
  BY DEF InForce, EffectiveRange, makeRange, rangeContains
<1>3. CASE Following(lease, v) = {} \/ ~Intersects(EffectiveRange(v), EffectiveRange(next))
  <2>1. v \in Truncated(lease, v)
    BY <1>3 DEF Truncated
  <2> QED BY <1>0, <1>2, <2>1
<1>4. CASE Following(lease, v) # {} /\ Intersects(EffectiveRange(v), EffectiveRange(next))
  <2>1. next \in Following(lease, v)
    BY <1>0, <1>4, NextIs
  <2>2. next.from > day /\ next.from \in Int
    BY <1>2, <2>1, VersionParts DEF Following
  <2>3. ~(v.from > TruncatedEnd(next))
    BY <1>1, <1>2, <2>2 DEF TruncatedEnd
  <2> DEFINE u == [v EXCEPT !.to = TruncatedEnd(next)]
  <2>4. u \in Truncated(lease, v)
    BY <1>4, <2>3 DEF Truncated
  <2>5. u.from = v.from /\ u.to = next.from - 1
    BY <1>1 DEF TruncatedEnd
  <2>6. u.from <= day /\ day <= u.to
    BY <1>1, <1>2, <2>2, <2>5
  <2> HIDE DEF u
  <2> QED BY <1>0, <2>4, <2>6
<1> QED BY <1>3, <1>4

----------------------------------------------------------------------------
(* Segments.  A segment lies in its period, in the term and in the days    *)
(* left of its version, and of a recurring one it is all of them.          *)

\* The day is in the term, in the period and left to the version.
Covers(u, p, day) ==
  /\ periodStart(p) <= day /\ day <= periodEnd(p)
  /\ lease.start <= day /\ day <= lease.end
  /\ u.from <= day /\ day <= u.to

(* A segment holds days its version covers, all of them unless it bills    *)
(* once, when it is the first day.                                         *)
LEMMA SegmentIs ==
  ASSUME LeaseFits(lease), NEW p \in Nat, NEW u, u.from \in Int, u.to \in Int, u.from <= u.to,
         u.once \in BOOLEAN, NEW s \in Segments(lease, u, p)
  PROVE  /\ s.start \in Int /\ s.end \in Int /\ s.start <= s.end
         /\ s = makeRange(s.start, s.end)
         /\ u.once => s.start = u.from /\ s.end = u.from
         /\ \A day \in Int : s.start <= day /\ day <= s.end => Covers(u, p, day)
         /\ ~u.once => \A day \in Int : Covers(u, p, day) => s.start <= day /\ day <= s.end
<1>1. /\ periodStart(p) \in Int /\ periodEnd(p) \in Int
      /\ lease.start \in Int /\ lease.end \in Int
  BY PeriodIs DEF LeaseFits
<1> DEFINE billable == intersectRanges(periodRange(p), TermRange(lease))
<1>2. /\ billable.start = LaterOf(periodStart(p), lease.start)
      /\ billable.end = EarlierOf(periodEnd(p), lease.end)
  BY DEF intersectRanges, periodRange, TermRange, makeRange
<1>3. CASE u.once
  <2>1. s = makeRange(u.from, u.from) /\ rangeContains(billable, u.from)
    BY <1>3 DEF Segments, oneTimeSegment
  <2>2. s.start = u.from /\ s.end = u.from
    BY <2>1 DEF makeRange
  <2>3. Covers(u, p, u.from)
    <3> HIDE DEF billable
    <3> QED BY <1>1, <1>2, <2>1 DEF rangeContains, LaterOf, EarlierOf, Covers
  <2>4. \A day \in Int : s.start <= day /\ day <= s.end => day = u.from
    BY <2>2
  <2> QED BY <1>3, <2>1, <2>2, <2>3, <2>4
<1>4. CASE ~u.once
  <2>1. s = intersectRanges(billable, EffectiveRange(u)) /\ s.start <= s.end
    BY <1>4 DEF Segments
  <2>2. /\ s.start = LaterOf(billable.start, u.from) /\ s.end = EarlierOf(billable.end, u.to)
        /\ s = makeRange(s.start, s.end)
    BY <2>1 DEF intersectRanges, EffectiveRange, makeRange
  <2> HIDE DEF billable
  <2> QED BY <1>1, <1>2, <1>4, <2>1, <2>2 DEF LaterOf, EarlierOf, Covers
<1> QED BY <1>3, <1>4

(* There is one segment at most. *)
LEMMA OneSegment ==
  ASSUME NEW u, NEW p, NEW s \in Segments(lease, u, p), NEW t \in Segments(lease, u, p)
  PROVE  s = t
BY DEF Segments, oneTimeSegment

(* What a version covers is in a segment, and of one that bills once its   *)
(* first day.                                                              *)
LEMMA SegmentExists ==
  ASSUME LeaseFits(lease), NEW p \in Nat, NEW u, u.from \in Int, u.to \in Int, u.from <= u.to,
         u.once \in BOOLEAN, NEW day \in Int, Covers(u, p, day), u.once => u.from = day
  PROVE  \E s \in Segments(lease, u, p) : s.start <= day /\ day <= s.end
<1>1. /\ periodStart(p) \in Int /\ periodEnd(p) \in Int
      /\ lease.start \in Int /\ lease.end \in Int
  BY PeriodIs DEF LeaseFits
<1> DEFINE billable == intersectRanges(periodRange(p), TermRange(lease))
<1>2. /\ billable.start = LaterOf(periodStart(p), lease.start)
      /\ billable.end = EarlierOf(periodEnd(p), lease.end)
  BY DEF intersectRanges, periodRange, TermRange, makeRange
<1>3. CASE u.once
  <2>1. rangeContains(billable, u.from)
    <3> HIDE DEF billable
    <3> QED BY <1>1, <1>2, <1>3 DEF rangeContains, LaterOf, EarlierOf, Covers
  <2>2. makeRange(u.from, u.from) \in Segments(lease, u, p)
    BY <1>3, <2>1 DEF Segments, oneTimeSegment
  <2>3. makeRange(u.from, u.from).start = day /\ makeRange(u.from, u.from).end = day
    BY <1>3 DEF makeRange
  <2> QED BY <2>2, <2>3
<1>4. CASE ~u.once
  <2> DEFINE s == intersectRanges(billable, EffectiveRange(u))
  <2>1. s.start = LaterOf(billable.start, u.from) /\ s.end = EarlierOf(billable.end, u.to)
    BY DEF intersectRanges, EffectiveRange, makeRange
  <2>2. s.start <= day /\ day <= s.end /\ s.start \in Int /\ s.end \in Int
    <3> HIDE DEF billable, s
    <3> QED BY <1>1, <1>2, <2>1 DEF LaterOf, EarlierOf, Covers
  <2>3. s.start <= s.end
    <3> HIDE DEF billable, s
    <3> QED BY <2>2
  <2>4. s \in Segments(lease, u, p)
    <3>1. Segments(lease, u, p) = {x \in {s} : x.start <= x.end}
      BY <1>4 DEF Segments
    <3> HIDE DEF s
    <3> QED BY <2>3, <3>1
  <2> HIDE DEF s
  <2> QED BY <2>2, <2>4
<1> QED BY <1>3, <1>4

----------------------------------------------------------------------------
(* What is billed                                                          *)

\* The charge c is of period p, made of the rest u of the version v.
Bill(c, p, v, u, s) ==
  /\ v \in lease.versions /\ u \in Truncated(lease, v) /\ s \in Segments(lease, u, p)
  /\ u.amount # 0 /\ c = Charge(lease, u, p, s)

(* Every charge that is billed comes from a version. *)
LEMMA BilledIs ==
  ASSUME NEW p, NEW c
  PROVE  c \in Billed(lease, p)
           <=> /\ lease.active /\ Intersects(periodRange(p), TermRange(lease))
               /\ \E v, u, s : Bill(c, p, v, u, s)
<1>1. \A u : u \in Usable(lease) <=> \E v \in lease.versions : u \in Truncated(lease, v)
  BY DEF Usable
<1>2. CASE ~lease.active \/ ~Intersects(periodRange(p), TermRange(lease))
  BY <1>2 DEF Billed
<1>3. CASE lease.active /\ Intersects(periodRange(p), TermRange(lease))
  <2>1. c \in Billed(lease, p) <=> \E u \in Usable(lease) : u.amount # 0
                                     /\ \E s \in Segments(lease, u, p) : c = Charge(lease, u, p, s)
    BY <1>3 DEF Billed
  <2> QED BY <1>1, <1>3, <2>1 DEF Bill
<1> QED BY <1>2, <1>3

(* The parts of a charge. *)
LEMMA BillIs ==
  ASSUME LeaseFits(lease), NEW p \in Nat, NEW c, NEW v, NEW u, NEW s, Bill(c, p, v, u, s)
  PROVE  /\ c.schedule = v.schedule /\ c.period = p /\ c.start = s.start /\ c.end = s.end
         /\ c.books = amendments /\ c.calculation = Calculation(u, p, s)
         /\ c.amount = prorateMonthlyAmount(u, p, s) /\ c.due = DueDate(u, p, s)
         /\ u.from \in Int /\ u.to \in Int /\ u.from <= u.to /\ u.amount \in Int
         /\ u.amount = v.amount /\ u.prorate = v.prorate /\ u.once = v.once /\ u.dueDay \in 1 .. 31
         /\ u.prorate \in BOOLEAN /\ u.once \in BOOLEAN
         /\ s.start \in Int /\ s.end \in Int /\ s.start <= s.end
         /\ u.once => s.start = u.from /\ s.end = u.from
         /\ \A day \in Int : s.start <= day /\ day <= s.end =>
              /\ v \in InForce(day) /\ periodStart(p) <= day /\ day <= periodEnd(p)
              /\ rangeContains(TermRange(lease), day)
<1>1. v \in lease.versions /\ u \in Truncated(lease, v) /\ s \in Segments(lease, u, p)
      /\ c = Charge(lease, u, p, s)
  BY DEF Bill
<1>2. /\ u.to \in Int /\ u.from <= u.to
      /\ u.schedule = v.schedule /\ u.from = v.from /\ u.amount = v.amount
      /\ u.prorate = v.prorate /\ u.once = v.once /\ u.dueDay = v.dueDay
      /\ \A day \in Int : u.from <= day /\ day <= u.to => v \in InForce(day)
  BY <1>1, TruncatedIs
<1>3. /\ v.from \in Int /\ v.amount \in Int /\ v.prorate \in BOOLEAN /\ v.once \in BOOLEAN
      /\ v.dueDay \in 1 .. 31
  BY <1>1, VersionParts
<1>4. u.from \in Int /\ u.once \in BOOLEAN
  BY <1>2, <1>3
<1>5. /\ s.start \in Int /\ s.end \in Int /\ s.start <= s.end
      /\ u.once => s.start = u.from /\ s.end = u.from
      /\ \A day \in Int : s.start <= day /\ day <= s.end => Covers(u, p, day)
  BY <1>1, <1>2, <1>4, SegmentIs
<1>6. \A day \in Int : s.start <= day /\ day <= s.end =>
        /\ v \in InForce(day) /\ periodStart(p) <= day /\ day <= periodEnd(p)
        /\ rangeContains(TermRange(lease), day)
  BY <1>2, <1>5 DEF Covers, rangeContains, TermRange, makeRange
<1>7. /\ c.schedule = u.schedule /\ c.period = p /\ c.start = s.start /\ c.end = s.end
      /\ c.books = amendments /\ c.calculation = Calculation(u, p, s)
      /\ c.amount = prorateMonthlyAmount(u, p, s) /\ c.due = DueDate(u, p, s)
  BY <1>1 DEF Charge
<1> QED BY <1>2, <1>3, <1>4, <1>5, <1>6, <1>7

(* Two charges of one lease that share a day of a schedule are the same:   *)
(* one version is in force on that day, and a period holds it.             *)
LEMMA BilledApart ==
  ASSUME LeaseFits(lease), NEW p \in Nat, NEW q \in Nat,
         NEW c \in Billed(lease, p), NEW d \in Billed(lease, q),
         c.schedule = d.schedule, c.start <= d.end, d.start <= c.end
  PROVE  c = d
<1>1. PICK v, u, s : Bill(c, p, v, u, s)
  BY BilledIs
<1>2. PICK w, x, t : Bill(d, q, w, x, t)
  BY BilledIs
<1>3. /\ c.schedule = v.schedule /\ c.start = s.start /\ c.end = s.end
      /\ s.start \in Int /\ s.end \in Int /\ s.start <= s.end
      /\ \A day \in Int : s.start <= day /\ day <= s.end =>
           v \in InForce(day) /\ periodStart(p) <= day /\ day <= periodEnd(p)
  BY <1>1, BillIs
<1>4. /\ d.schedule = w.schedule /\ d.start = t.start /\ d.end = t.end
      /\ t.start \in Int /\ t.end \in Int /\ t.start <= t.end
      /\ \A day \in Int : t.start <= day /\ day <= t.end =>
           w \in InForce(day) /\ periodStart(q) <= day /\ day <= periodEnd(q)
  BY <1>2, BillIs
<1>5. PICK day \in Int : /\ s.start <= day /\ day <= s.end
                         /\ t.start <= day /\ day <= t.end
  <2>1. CASE s.start <= t.start
    BY <1>3, <1>4, <2>1
  <2>2. CASE t.start <= s.start
    BY <1>3, <1>4, <2>2
  <2> QED BY <1>3, <1>4, <2>1, <2>2
<1>6. v = w
  <2>1. v \in InForce(day) /\ w \in InForce(day) /\ v.schedule = w.schedule
    BY <1>3, <1>4, <1>5
  <2> QED BY <2>1, OneInForce
<1>7. p = q
  <2>1. /\ periodStart(p) \in Int /\ periodEnd(p) \in Int
        /\ periodStart(q) \in Int /\ periodEnd(q) \in Int
    BY PeriodIs
  <2>2. /\ periodStart(p) <= day /\ day <= periodEnd(p)
        /\ periodStart(q) <= day /\ day <= periodEnd(q)
    BY <1>3, <1>4, <1>5
  <2>3. ~(p < q) /\ ~(q < p)
    BY <2>1, <2>2, PeriodsAreApart
  <2> QED BY <2>3
<1>8. u = x
  BY <1>1, <1>2, <1>6, OneTruncated DEF Bill
<1>9. s = t
  BY <1>1, <1>2, <1>7, <1>8, OneSegment DEF Bill
<1> QED BY <1>1, <1>2, <1>7, <1>8, <1>9 DEF Bill

(* A version with an amount that is in force on a day of the term is       *)
(* billed for it.                                                          *)
LEMMA InForceIsBilled ==
  ASSUME LeaseFits(lease), lease.active, NEW p \in Nat, NEW day \in Int,
         periodStart(p) <= day, day <= periodEnd(p), rangeContains(TermRange(lease), day),
         NEW v \in InForce(day), v.amount # 0, v.once => v.from = day
  PROVE  \E c \in Billed(lease, p) : /\ c.schedule = v.schedule /\ c.period = p /\ Bills(c, day)
<1>1. PICK u \in Truncated(lease, v) : u.from <= day /\ day <= u.to
  BY InForceIsLeft
<1>0. v \in lease.versions
  BY InForceIsLeft
<1>2. /\ u.to \in Int /\ u.from <= u.to
      /\ u.schedule = v.schedule /\ u.from = v.from /\ u.amount = v.amount /\ u.once = v.once
  BY <1>0, <1>1, TruncatedIs
<1>3. u.from \in Int /\ u.once \in BOOLEAN
  BY <1>0, <1>2, VersionParts
<1>4. Covers(u, p, day)
  BY <1>1 DEF Covers, rangeContains, TermRange, makeRange
<1>5. u.once => u.from = day
  BY <1>2
<1>6. PICK s \in Segments(lease, u, p) : s.start <= day /\ day <= s.end
  BY <1>2, <1>3, <1>4, <1>5, SegmentExists
<1> DEFINE c == Charge(lease, u, p, s)
<1>7. Bill(c, p, v, u, s)
  BY <1>0, <1>1, <1>2, <1>6 DEF Bill
<1>8. c.schedule = v.schedule /\ c.period = p /\ c.start = s.start /\ c.end = s.end
  <2> HIDE DEF c
  <2> QED BY <1>7, BillIs
<1>9. Intersects(periodRange(p), TermRange(lease))
  <2>1. /\ periodStart(p) \in Int /\ periodEnd(p) \in Int
        /\ lease.start \in Int /\ lease.end \in Int
    BY PeriodIs DEF LeaseFits
  <2> QED BY <1>4, <2>1 DEF Covers, Intersects, periodRange, TermRange, makeRange, LaterOf, EarlierOf
<1>10. c \in Billed(lease, p)
  <2> HIDE DEF c
  <2> QED BY <1>7, <1>9, BilledIs
<1>11. Bills(c, day)
  <2> HIDE DEF c
  <2> QED BY <1>6, <1>8 DEF Bills
<1> HIDE DEF c
<1> QED BY <1>8, <1>10, <1>11

----------------------------------------------------------------------------
(* Amounts.  A negative amount is rounded as the positive one is.          *)

(* Halves are rounded away from zero, on either side of it. *)
LEMMA OppositeRounds ==
  ASSUME NEW n \in Nat, NEW d \in Nat \ {0}, NEW mode \in {"HALF_UP", "HALF_EVEN"},
         divideRounded(n, d, mode) \in Nat
  PROVE  divideRounded(-n, d, mode) = -divideRounded(n, d, mode)
<1>1. abs(-n) = n /\ abs(n) = n /\ abs(d) = d
  BY DEF abs
<1>2. ((n < 0) # (d < 0)) = FALSE
  OBVIOUS
<1> DEFINE q == n \div d
           r == n % d
           away == Away(q, 2 * r, d, FALSE, mode)
           m == IF r # 0 /\ away THEN q + 1 ELSE q
<1>3. \A b : Away(q, 2 * r, d, b, mode) = away
  BY DEF Away
<1>4. divideRounded(n, d, mode) = m
  BY <1>1, <1>2 DEF divideRounded
<1>5. CASE n = 0
  <2>1. q \in Nat /\ r \in Nat /\ 0 = d * q + r
    BY <1>5, DivisionFacts
  <2>2. q = 0 /\ r = 0
    <3> HIDE DEF q, r
    <3>1. d * q >= q
      BY <2>1
    <3> QED BY <2>1, <3>1
  <2>3. divideRounded(n, d, mode) = 0
    BY <1>4, <2>2
  <2>4. \A x \in Int : x >= 0 /\ x <= 0 => -x >= 0 /\ -x <= 0 /\ -x \in Int
    OBVIOUS
  <2>5. -n >= 0 /\ -n <= 0 /\ -n \in Int
    BY <1>5, <2>4
  <2>6. -n = n
    <3>1. \A x, y \in Int : x <= y /\ y <= x => x = y
      OBVIOUS
    <3>2. -n <= n /\ n <= -n /\ n \in Int
      BY <1>5, <2>5
    <3> HIDE DEF q, r, m, away
    <3> QED BY <2>5, <3>1, <3>2
  <2> QED BY <1>5, <2>3, <2>6
<1>6. CASE n # 0
  <2>1. ((-n < 0) # (d < 0)) = TRUE
    BY <1>6
  <2>2. divideRounded(-n, d, mode)
          = -(IF r # 0 /\ Away(q, 2 * r, d, TRUE, mode) THEN q + 1 ELSE q)
    BY <1>1, <2>1 DEF divideRounded
  <2> QED BY <1>3, <1>4, <2>2
<1> QED BY <1>5, <1>6

(* HalfUp is what HALF_UP does. *)
LEMMA HalfUpIs ==
  ASSUME NEW n \in Int, NEW d \in Nat \ {0}
  PROVE  HalfUp(n, d) = divideRounded(n, d, "HALF_UP") /\ HalfUp(n, d) \in Int
<1>1. ASSUME NEW a \in Nat
      PROVE  (2 * a + d) \div (2 * d) = divideRounded(a, d, "HALF_UP")
             /\ divideRounded(a, d, "HALF_UP") \in Nat
  <2> DEFINE h == divideRounded(a, d, "HALF_UP")
             m == (2 * a + d) \div (2 * d)
             r == (2 * a + d) % (2 * d)
  <2>1. h \in Nat /\ 2 * (d * h) <= 2 * a + d /\ 2 * a + d < 2 * (d * h) + 2 * d
    BY HalfUpIsNearest
  <2>2. 2 * a + d \in Nat /\ 2 * d \in Nat \ {0}
    OBVIOUS
  <2>3. m \in Nat /\ r \in Nat /\ r < 2 * d /\ 2 * a + d = 2 * d * m + r
    BY <2>2, DivisionFacts
  <2> HIDE DEF h, m, r
  <2>4. 2 * d * m = 2 * (d * m)
    BY <2>3
  <2>5. 2 * (d * m) <= 2 * a + d /\ 2 * a + d < 2 * (d * m) + 2 * d
    BY <2>3, <2>4
  <2>6. m = h
    BY <2>1, <2>3, <2>5, NearestIsUnique
  <2> QED BY <2>1, <2>6 DEF m, h
<1>2. CASE n >= 0
  <2>1. n \in Nat /\ abs(n) = n /\ ~(n < 0)
    BY <1>2 DEF abs
  <2> QED BY <1>1, <2>1 DEF HalfUp
<1>3. CASE n < 0
  <2>1. -n \in Nat /\ abs(n) = -n /\ -(-n) = n
    BY <1>3 DEF abs
  <2>2. (2 * (-n) + d) \div (2 * d) = divideRounded(-n, d, "HALF_UP")
        /\ divideRounded(-n, d, "HALF_UP") \in Nat
    BY <1>1, <2>1
  <2>3. HalfUp(n, d) = -divideRounded(-n, d, "HALF_UP")
    BY <1>3, <2>1, <2>2 DEF HalfUp
  <2>4. divideRounded(-(-n), d, "HALF_UP") = -divideRounded(-n, d, "HALF_UP")
    BY <2>1, <2>2, OppositeRounds
  <2> QED BY <2>1, <2>2, <2>3, <2>4
<1> QED BY <1>2, <1>3

(* It misses the exact quotient by half a cent at most. *)
LEMMA HalfUpIsNear ==
  ASSUME NEW n \in Int, NEW d \in Nat \ {0}
  PROVE  /\ HalfUp(n, d) \in Int
         /\ 2 * (d * HalfUp(n, d)) <= 2 * n + d /\ 2 * n <= 2 * (d * HalfUp(n, d)) + d
<1>1. CASE n >= 0
  <2>1. n \in Nat
    BY <1>1
  <2>2. HalfUp(n, d) = divideRounded(n, d, "HALF_UP")
    BY HalfUpIs
  <2> DEFINE h == HalfUp(n, d)
  <2>3. h \in Nat /\ 2 * (d * h) <= 2 * n + d /\ 2 * n + d < 2 * (d * h) + 2 * d
    BY <2>1, <2>2, HalfUpIsNearest
  <2> HIDE DEF h
  <2>4. d * h \in Int /\ h \in Int
    BY <2>3
  <2>5. 2 * n <= 2 * (d * h) + d
    BY <2>3, <2>4
  <2> QED BY <2>3, <2>4, <2>5 DEF h
<1>2. CASE n < 0
  <2> DEFINE h == divideRounded(-n, d, "HALF_UP")
  <2>1. -n \in Nat /\ -(-n) = n
    BY <1>2
  <2>2. h \in Nat /\ 2 * (d * h) <= 2 * (-n) + d /\ 2 * (-n) + d < 2 * (d * h) + 2 * d
    BY <2>1, HalfUpIsNearest
  <2>3. HalfUp(n, d) = -h
    BY <2>1, <2>2, HalfUpIs, OppositeRounds
  <2> HIDE DEF h
  <2>4. d * (-h) = -(d * h)
    BY <2>2
  <2>5. d * h \in Int /\ d * HalfUp(n, d) = -(d * h) /\ HalfUp(n, d) \in Int
    BY <2>2, <2>3, <2>4
  <2> QED BY <2>2, <2>5
<1> QED BY <1>1, <1>2

(* A share of the rent, rounded twice, is rounded once. *)
LEMMA ProratedIs ==
  ASSUME BillingAssumption, NEW amount \in Int, NEW days \in Nat, NEW divisor \in 1 .. 31
  PROVE  Prorated(amount, days, divisor) = HalfUp(amount * days, divisor)
<1> DEFINE scale == INTERMEDIATE_SCALE
           finer == pow10(scale - 2)
           k == finer \div 2
<1>1. /\ scale \in Nat /\ scale > 2 /\ pow10(2) = 100
      /\ finer \in Nat /\ finer % 2 = 0 /\ finer > 31 /\ pow10(scale) = 100 * finer
  BY DEF BillingAssumption
<1>2. k \in Nat /\ finer = 2 * k /\ 2 * k > divisor /\ divisor \in Nat \ {0}
  <2> HIDE DEF finer
  <2> QED BY <1>1
<1>3. pow10(scale - 2) = 2 * k /\ pow10(scale) = 100 * (2 * k)
  BY <1>1, <1>2
<1> HIDE DEF finer, k, scale
<1>4. ASSUME NEW a \in Nat
      PROVE  Prorated(a, days, divisor) = divideRounded(a * days, divisor, "HALF_UP")
  BY <1>1, <1>2, <1>3, ProratedOnce DEF Prorated, scale
<1>5. CASE amount >= 0
  <2>1. amount \in Nat /\ amount * days \in Int
    BY <1>5
  <2> QED BY <1>2, <1>4, <2>1, HalfUpIs
<1>6. CASE amount < 0
  <2> DEFINE a == -amount
             n == a * days
             m == n * pow10(scale)
             q == divideRounded(m, divisor * 100, "HALF_EVEN")
             g == divideRounded(q, pow10(scale - 2), "HALF_UP")
  <2>1. a \in Nat /\ n \in Nat /\ amount * days = -n
    BY <1>6
  <2>2. m \in Nat /\ divisor * 100 \in Nat \ {0} /\ pow10(scale - 2) \in Nat \ {0}
        /\ (-n) * pow10(scale) = -m
    <3> HIDE DEF n
    <3>1. pow10(scale) \in Nat
      BY <1>2, <1>3
    <3> QED BY <1>2, <1>3, <2>1, <3>1
  <2> HIDE DEF n, m
  <2>3. q \in Nat
    <3> DEFINE d == divisor * 100
    <3> HIDE DEF d
    <3>1. d \in Nat \ {0}
      BY <2>2 DEF d
    <3> QED BY <2>2, <3>1, HalfEvenIsNear DEF d
  <2>4. divideRounded(-m, divisor * 100, "HALF_EVEN") = -q
    BY <2>2, <2>3, OppositeRounds
  <2> HIDE DEF q
  <2>5. g \in Nat
    BY <2>2, <2>3, HalfUpIsNearest
  <2>6. divideRounded(-q, pow10(scale - 2), "HALF_UP") = -g
    BY <2>2, <2>3, <2>5, OppositeRounds
  <2>7. \A x \in Int : Prorated(x, days, divisor)
          = divideRounded(divideRounded((x * days) * pow10(0 + scale), divisor * pow10(2 + 0), "HALF_EVEN"),
                          pow10(scale - 2), "HALF_UP")
    <3>1. ~(2 >= scale)
      BY <1>1
    <3> QED BY <3>1 DEF Prorated, toCents, round, dividedBy, times, toDecimal, ofInteger, ofUnits, scale
  <2>8. 0 + scale = scale /\ 2 + 0 = 2
    BY <1>1
  <2>9. Prorated(amount, days, divisor) = -g
    <3>1. Prorated(amount, days, divisor)
            = divideRounded(divideRounded((amount * days) * pow10(scale), divisor * pow10(2), "HALF_EVEN"),
                            pow10(scale - 2), "HALF_UP")
      BY <2>7, <2>8
    <3>2. (amount * days) * pow10(scale) = -m /\ divisor * pow10(2) = divisor * 100
      BY <1>1, <2>1, <2>2
    <3> QED BY <2>4, <2>6, <3>1, <3>2
  <2>10. Prorated(a, days, divisor) = g
    BY <1>1, <2>1, <2>7, <2>8 DEF q, m, n
  <2>11. g = divideRounded(n, divisor, "HALF_UP")
    BY <1>4, <2>1, <2>10 DEF n
  <2>12. HalfUp(-n, divisor) = -g
    <3>1. divideRounded(n, divisor, "HALF_UP") \in Nat
      BY <2>5, <2>11
    <3>2. divideRounded(-n, divisor, "HALF_UP") = -g
      BY <1>2, <2>1, <2>11, <3>1, OppositeRounds
    <3>3. -n \in Int
      BY <2>1
    <3> QED BY <1>2, <3>2, <3>3, HalfUpIs
  <2> QED BY <2>1, <2>9, <2>12
<1> QED BY <1>5, <1>6

(* The share of all days is the rent. *)
LEMMA WholeMonth ==
  ASSUME NEW amount \in Int, NEW d \in Nat \ {0}
  PROVE  HalfUp(amount * d, d) = amount
<1> DEFINE h == HalfUp(amount * d, d)
<1>1. h \in Int /\ 2 * (d * h) <= 2 * (amount * d) + d /\ 2 * (amount * d) <= 2 * (d * h) + d
  <2>1. amount * d \in Int
    OBVIOUS
  <2> QED BY <2>1, HalfUpIsNear
<1> HIDE DEF h
<1>2. amount * d = d * amount
  OBVIOUS
<1>3. d * (h - 1) < d * amount /\ d * (amount - 1) < d * h
  BY <1>1, <1>2
<1>4. h - 1 < amount /\ amount - 1 < h
  BY <1>1, <1>3, Cancelled
<1> QED BY <1>1, <1>4 DEF h

\* What RoundedOnce says of a charge.
Rounded(c) ==
  LET d == c.calculation IN
  /\ c.amount = recomputeFromDetail(d)
  /\ c.amount = IF d.method = "NONE" THEN d.scheduledAmount
                ELSE HalfUp(d.scheduledAmount * d.occupiedDays, d.daysInPeriod)

(* A segment has as many days as its period, or fewer. *)
LEMMA DaysOf ==
  ASSUME LeaseFits(lease), NEW p \in Nat, NEW c, NEW v, NEW u, NEW s, Bill(c, p, v, u, s)
  PROVE  /\ rangeLengthDays(s) = s.end - s.start + 1 /\ rangeLengthDays(s) \in Nat \ {0}
         /\ rangeLengthDays(s) <= periodDayCount(p) /\ periodDayCount(p) \in 1 .. 31
         /\ periodDayCount(p) \in Nat \ {0}
<1>1. /\ s.start \in Int /\ s.end \in Int /\ s.start <= s.end
      /\ \A day \in Int : s.start <= day /\ day <= s.end => periodStart(p) <= day /\ day <= periodEnd(p)
  BY BillIs
<1>2. periodStart(p) <= s.start /\ s.end <= periodEnd(p)
  BY <1>1
<1>3. /\ periodStart(p) \in Int /\ periodEnd(p) \in Int /\ periodDayCount(p) \in 28 .. 31
      /\ periodEnd(p) = periodStart(p) + periodDayCount(p) - 1
  BY PeriodIs
<1> QED BY <1>1, <1>2, <1>3 DEF rangeLengthDays

(* What is billed is rounded once. *)
LEMMA BilledIsRounded ==
  ASSUME BillingAssumption, LeaseFits(lease), NEW p \in Nat, NEW c \in Billed(lease, p)
  PROVE  Rounded(c)
<1>1. PICK v, u, s : Bill(c, p, v, u, s)
  BY BilledIs
<1> DEFINE days == rangeLengthDays(s)
           D == periodDayCount(p)
<1>2. /\ c.calculation = Calculation(u, p, s) /\ c.amount = prorateMonthlyAmount(u, p, s)
      /\ u.amount \in Int /\ u.prorate \in BOOLEAN /\ u.once \in BOOLEAN
  BY <1>1, BillIs
<1>3. days \in Nat \ {0} /\ D \in 1 .. 31 /\ D \in Nat \ {0}
  BY <1>1, DaysOf
<1>4. /\ c.calculation.method = IF u.once \/ ~u.prorate THEN "NONE" ELSE "ACTUAL_DAYS_IN_MONTH"
      /\ c.calculation.isFullPeriod = (~u.once /\ days = D)
      /\ c.calculation.occupiedDays = days /\ c.calculation.daysInPeriod = D
      /\ c.calculation.scheduledAmount = u.amount
  BY <1>2 DEF Calculation
<1>5. Prorated(u.amount, days, D) = HalfUp(u.amount * days, D)
  <2> HIDE DEF days, D
  <2> QED BY <1>2, <1>3, ProratedIs
<1>6. days = D => HalfUp(u.amount * days, D) = u.amount
  <2> HIDE DEF days, D
  <2> QED BY <1>2, <1>3, WholeMonth
<1>7. c.amount = IF u.once \/ ~u.prorate \/ days = D THEN u.amount ELSE Prorated(u.amount, days, D)
  BY <1>2 DEF prorateMonthlyAmount
<1> HIDE DEF days, D
<1> QED BY <1>4, <1>5, <1>6, <1>7 DEF Rounded, recomputeFromDetail

(* What is billed falls due in its period. *)
LEMMA BilledIsDue ==
  ASSUME LeaseFits(lease), NEW p \in Nat, NEW c \in Billed(lease, p)
  PROVE  c.period = p /\ rangeContains(periodRange(c.period), c.due)
<1>1. PICK v, u, s : Bill(c, p, v, u, s)
  BY BilledIs
<1>2. /\ c.period = p /\ c.due = DueDate(u, p, s) /\ u.dueDay \in 1 .. 31 /\ u.once \in BOOLEAN
      /\ s.start \in Int /\ s.end \in Int /\ s.start <= s.end
      /\ \A day \in Int : s.start <= day /\ day <= s.end => periodStart(p) <= day /\ day <= periodEnd(p)
  BY <1>1, BillIs
<1>3. /\ periodStart(p) \in Int /\ periodEnd(p) \in Int /\ periodDayCount(p) \in 28 .. 31
      /\ periodEnd(p) = periodStart(p) + periodDayCount(p) - 1
  BY PeriodIs
<1>4. periodStart(p) <= c.due /\ c.due <= periodEnd(p)
  <2>1. CASE u.once
    BY <1>2, <2>1 DEF DueDate
  <2>2. CASE ~u.once
    <3>1. c.due = periodStart(p) + EarlierOf(u.dueDay, periodDayCount(p)) - 1
      BY <1>2, <2>2 DEF DueDate, ClampedDay
    <3> QED BY <1>2, <1>3, <3>1 DEF EarlierOf
  <2> QED BY <1>2, <2>1, <2>2
<1> QED BY <1>2, <1>4 DEF rangeContains, periodRange, makeRange

----------------------------------------------------------------------------
(* A month in pieces                                                       *)

DaysBilled(V) == UNION {c.start .. c.end : c \in V}
Length(P) == [c \in P |-> c.end - c.start + 1]
Amount(P) == [c \in P |-> c.amount]

\* The charges of P take the days from a to b apart, and leave none out.
Pieces(P, a, b) ==
  /\ \A c \in P : c.start \in Int /\ c.end \in Int /\ c.start <= c.end /\ a <= c.start /\ c.end <= b
  /\ \A c, d \in P : c.start <= d.end /\ d.start <= c.end => c = d
  /\ \A day \in a .. b : \E c \in P : c.start <= day /\ day <= c.end

(* Pieces that are apart and leave no day out have the days of the month. *)
LEMMA DaysAddUp ==
  ASSUME NEW P, IsFiniteSet(P), NEW a \in Int, NEW b \in Int, a <= b, Pieces(P, a, b)
  PROVE  SumFunctionOnSet(Length(P), P) = b - a + 1
<1> DEFINE length == Length(P)
           fits(V) == /\ IsFiniteSet(DaysBilled(V))
                      /\ Cardinality(DaysBilled(V)) = SumFunctionOnSet(length, V)
           T == {V \in SUBSET P : ~fits(V)}
<1>p. /\ \A c \in P : c.start \in Int /\ c.end \in Int /\ c.start <= c.end /\ a <= c.start /\ c.end <= b
      /\ \A c, d \in P : c.start <= d.end /\ d.start <= c.end => c = d
      /\ \A day \in a .. b : \E c \in P : c.start <= day /\ day <= c.end
  BY DEF Pieces
<1>0. \A c \in P : length[c] = c.end - c.start + 1 /\ length[c] \in Nat
  BY <1>p DEF Length
<1> HIDE DEF length
<1>1. T = {}
  <2>1. SUFFICES ASSUME T # {} PROVE FALSE
    OBVIOUS
  <2>2. PICK V \in T : \A W \in T : W \subseteq V => W = V
    <3>1. T \subseteq SUBSET P
      OBVIOUS
    <3> HIDE DEF T
    <3> QED BY <2>1, <3>1, LeastSet
  <2>3. V \subseteq P /\ ~fits(V) /\ IsFiniteSet(V)
    BY <2>2, FS_Subset
  <2>4. CASE V = {}
    <3>1. DaysBilled(V) = {}
      BY <2>4 DEF DaysBilled
    <3>2. fits(V)
      BY <2>4, <3>1, SumEmpty, FS_EmptySet
    <3> QED BY <2>3, <3>2
  <2>5. CASE V # {}
    <3>1. PICK e \in V : TRUE
      BY <2>5
    <3> DEFINE W == V \ {e}
               Mine == e.start .. e.end
    <3>2. fits(W)
      <4>1. W \subseteq V /\ W # V /\ W \in SUBSET P
        BY <2>3, <3>1
      <4>2. W \notin T
        BY <2>2, <4>1
      <4> HIDE DEF fits, W
      <4> QED BY <4>1, <4>2
    <3>3. e \in P /\ e.start \in Int /\ e.end \in Int /\ e.start <= e.end
      BY <1>p, <2>3
    <3>4. IsFiniteSet(Mine) /\ Cardinality(Mine) = length[e] /\ length[e] \in Nat
      <4>1. \A x, y \in Int : x <= y => IsFiniteSet(x .. y) /\ Cardinality(x .. y) = y - x + 1
        BY FS_Interval
      <4>2. length[e] = e.end - e.start + 1 /\ length[e] \in Nat
        BY <1>0, <3>3
      <4> QED BY <3>3, <4>1, <4>2
    <3>5. DaysBilled(V) = DaysBilled(W) \cup Mine
      BY DEF DaysBilled
    <3>6. DaysBilled(W) \cap Mine = {}
      <4>1. SUFFICES ASSUME NEW day \in DaysBilled(W), day \in Mine PROVE FALSE
        OBVIOUS
      <4>2. PICK c \in W : day \in c.start .. c.end
        BY DEF DaysBilled
      <4>3. c \in P /\ c # e /\ c.start \in Int /\ c.end \in Int
        BY <1>p, <2>3
      <4>4. c.start <= e.end /\ e.start <= c.end
        BY <3>3, <4>1, <4>2, <4>3
      <4> QED BY <1>p, <3>3, <4>3, <4>4
    <3>7. /\ IsFiniteSet(DaysBilled(V))
          /\ Cardinality(DaysBilled(V)) = Cardinality(DaysBilled(W)) + length[e]
      <4> DEFINE Others == DaysBilled(W)
      <4>1. IsFiniteSet(Others)
        BY <3>2
      <4>2. Cardinality(Others \cap Mine) = 0
        BY <3>6, FS_EmptySet
      <4>3. Cardinality(Others) \in Nat
        BY <4>1, FS_CardinalityType
      <4>4. IsFiniteSet(Others \cup Mine)
            /\ Cardinality(Others \cup Mine) = Cardinality(Others) + Cardinality(Mine) - Cardinality(Others \cap Mine)
        <5> HIDE DEF Others, Mine
        <5> QED BY <3>4, <4>1, FS_Union
      <4> HIDE DEF Others, Mine
      <4> QED BY <3>4, <3>5, <4>2, <4>3, <4>4 DEF Others
    <3>8. SumFunctionOnSet(length, V) = length[e] + SumFunctionOnSet(length, W)
      <4>1. W \cup {e} = V /\ e \notin W /\ IsFiniteSet(W)
        BY <2>3, FS_Subset
      <4>2. \A x \in W \cup {e} : length[x] \in Int
        BY <1>0, <2>3
      <4> HIDE DEF W
      <4>3. SumFunctionOnSet(length, W \cup {e}) = length[e] + SumFunctionOnSet(length, W)
        BY <4>1, <4>2, SumAdd
      <4> QED BY <4>1, <4>3
    <3>9. Cardinality(DaysBilled(W)) \in Nat /\ Cardinality(DaysBilled(W)) = SumFunctionOnSet(length, W)
      BY <3>2, FS_CardinalityType
    <3>10. Cardinality(DaysBilled(W)) + length[e] = length[e] + Cardinality(DaysBilled(W))
      BY <3>4, <3>9
    <3> HIDE DEF W, Mine
    <3>11. fits(V)
      BY <3>7, <3>8, <3>9, <3>10
    <3> QED BY <2>3, <3>11
  <2> QED BY <2>4, <2>5
<1>2. fits(P)
  <2> HIDE DEF fits
  <2> QED BY <1>1
<1>3. DaysBilled(P) = a .. b
  <2>1. ASSUME NEW day \in DaysBilled(P) PROVE day \in a .. b
    <3>1. PICK c \in P : day \in c.start .. c.end
      BY DEF DaysBilled
    <3> QED BY <1>p, <3>1
  <2>2. ASSUME NEW day \in a .. b PROVE day \in DaysBilled(P)
    <3>1. PICK c \in P : c.start <= day /\ day <= c.end
      BY <1>p
    <3>2. day \in c.start .. c.end
      BY <1>p, <3>1
    <3> QED BY <3>2 DEF DaysBilled
  <2> QED BY <2>1, <2>2
<1>4. Cardinality(a .. b) = b - a + 1
  BY FS_Interval
<1> QED BY <1>2, <1>3, <1>4 DEF length

(* Shares that each miss by half a cent at most, together miss by half a   *)
(* cent each at most.                                                      *)
LEMMA SharesAddUp ==
  ASSUME NEW P, IsFiniteSet(P), NEW D \in Nat \ {0}, NEW rent \in Int,
         \A c \in P : c.amount \in Int /\ Length(P)[c] \in Int,
         \A c \in P : /\ 2 * (D * c.amount) <= 2 * (rent * Length(P)[c]) + D
                      /\ 2 * (rent * Length(P)[c]) <= 2 * (D * c.amount) + D
  PROVE  LET sum == SumFunctionOnSet(Amount(P), P)
             days == SumFunctionOnSet(Length(P), P)
         IN /\ sum \in Int /\ days \in Int /\ Cardinality(P) \in Nat
            /\ 2 * (D * sum) <= 2 * (rent * days) + D * Cardinality(P)
            /\ 2 * (rent * days) <= 2 * (D * sum) + D * Cardinality(P)
<1> DEFINE length == Length(P)
           amount == Amount(P)
           Cents(V) == SumFunctionOnSet(amount, V)
           L(V) == SumFunctionOnSet(length, V)
           fits(V) == /\ 2 * (D * Cents(V)) <= 2 * (rent * L(V)) + D * Cardinality(V)
                      /\ 2 * (rent * L(V)) <= 2 * (D * Cents(V)) + D * Cardinality(V)
           T == {V \in SUBSET P : ~fits(V)}
<1>0. \A c \in P : amount[c] = c.amount /\ amount[c] \in Int /\ length[c] \in Int
  BY DEF Amount
<1>00. \A c \in P : /\ 2 * (D * amount[c]) <= 2 * (rent * length[c]) + D
                    /\ 2 * (rent * length[c]) <= 2 * (D * amount[c]) + D
  BY <1>0
<1> HIDE DEF length, amount
<1>t. \A V \in SUBSET P : IsFiniteSet(V) /\ Cents(V) \in Int /\ L(V) \in Int /\ Cardinality(V) \in Nat
  <2>1. ASSUME NEW V \in SUBSET P
        PROVE  IsFiniteSet(V) /\ Cents(V) \in Int /\ L(V) \in Int /\ Cardinality(V) \in Nat
    <3>1. IsFiniteSet(V)
      BY FS_Subset
    <3>2. Cents(V) \in Int /\ L(V) \in Int
      BY <1>0, <3>1, SumInt
    <3> QED BY <3>1, <3>2, FS_CardinalityType
  <2> QED BY <2>1
<1>1. T = {}
  <2>1. SUFFICES ASSUME T # {} PROVE FALSE
    OBVIOUS
  <2>2. PICK V \in T : \A W \in T : W \subseteq V => W = V
    <3>1. T \subseteq SUBSET P
      OBVIOUS
    <3> HIDE DEF T
    <3> QED BY <2>1, <3>1, LeastSet
  <2>3. V \subseteq P /\ ~fits(V) /\ IsFiniteSet(V)
    <3> HIDE DEF fits
    <3> QED BY <2>2, FS_Subset
  <2>4. CASE V = {}
    <3>1. Cents(V) = 0 /\ L(V) = 0 /\ Cardinality(V) = 0
      BY <2>4, SumEmpty, FS_EmptySet
    <3> HIDE DEF Cents, L
    <3>2. fits(V)
      BY <3>1
    <3> QED BY <2>3, <3>2
  <2>5. CASE V # {}
    <3>1. PICK e \in V : TRUE
      BY <2>5
    <3> DEFINE W == V \ {e}
    <3>w. W \subseteq V /\ W # V /\ W \in SUBSET P /\ W \cup {e} = V /\ e \notin W /\ IsFiniteSet(W)
      BY <2>3, <3>1, FS_Subset
    <3> HIDE DEF W
    <3>2. fits(W)
      <4>2. W \notin T
        BY <2>2, <3>w
      <4> HIDE DEF fits
      <4> QED BY <3>w, <4>2
    <3>3. e \in P
      BY <2>3
    <3>4. Cents(V) = amount[e] + Cents(W) /\ L(V) = length[e] + L(W)
      <4>2. \A x \in W \cup {e} : length[x] \in Int /\ amount[x] \in Int
        BY <1>0, <2>3, <3>w
      <4>3. Cents(W \cup {e}) = amount[e] + Cents(W) /\ L(W \cup {e}) = length[e] + L(W)
        BY <3>w, <4>2, SumAdd
      <4> QED BY <3>w, <4>3
    <3>5. Cardinality(V) = Cardinality(W) + 1
      <4>1. Cardinality(W \cup {e}) = Cardinality(W) + 1
        BY <3>w, FS_AddElement
      <4> QED BY <3>w, <4>1
    <3>6. /\ 2 * (D * amount[e]) <= 2 * (rent * length[e]) + D
          /\ 2 * (rent * length[e]) <= 2 * (D * amount[e]) + D
          /\ amount[e] \in Int /\ length[e] \in Int
      BY <1>0, <1>00, <3>3
    <3>7. Cents(W) \in Int /\ L(W) \in Int /\ Cardinality(W) \in Nat
      BY <1>t, <3>w
    <3> DEFINE ae == amount[e]
               le == length[e]
               aw == Cents(W)
               lw == L(W)
               n == Cardinality(W)
    <3>8. /\ 2 * (D * aw) <= 2 * (rent * lw) + D * n /\ 2 * (rent * lw) <= 2 * (D * aw) + D * n
      BY <3>2
    <3>9. Cents(V) = ae + aw /\ L(V) = le + lw /\ Cardinality(V) = n + 1
      BY <3>4, <3>5
    <3>10. /\ 2 * (D * ae) <= 2 * (rent * le) + D /\ 2 * (rent * le) <= 2 * (D * ae) + D
           /\ ae \in Int /\ le \in Int /\ aw \in Int /\ lw \in Int /\ n \in Nat
      BY <3>6, <3>7
    <3> HIDE DEF ae, le, aw, lw, n, Cents, L
    <3>11. /\ D * (ae + aw) = D * ae + D * aw /\ rent * (le + lw) = rent * le + rent * lw
           /\ D * (n + 1) = D * n + D
           /\ D * ae \in Int /\ D * aw \in Int /\ rent * le \in Int /\ rent * lw \in Int /\ D * n \in Int
      BY <3>10
    <3>12. /\ 2 * (D * (ae + aw)) <= 2 * (rent * (le + lw)) + D * (n + 1)
           /\ 2 * (rent * (le + lw)) <= 2 * (D * (ae + aw)) + D * (n + 1)
      BY <3>8, <3>10, <3>11
    <3>13. fits(V)
      BY <3>9, <3>12
    <3> QED BY <2>3, <3>13
  <2> QED BY <2>4, <2>5
<1>2. fits(P)
  <2> HIDE DEF fits
  <2> QED BY <1>1
<1> QED BY <1>t, <1>2 DEF length, amount

(* Days billed within a month, all of one version, share its rent. *)
LEMMA PiecesFit ==
  ASSUME BillingAssumption, LeaseFits(lease), IsFiniteSet(charges), RoundedOnce, NoDayForgotten,
         \A c \in charges : c.books = amendments => c \in Billed(lease, c.period)
  PROVE  PiecesAddUp
<1> SUFFICES ASSUME NEW p \in Period, NEW schedule \in Schedule, NEW rent \in {v.amount: v \in lease.versions},
                    generated[p] = amendments, lease.active,
                    \A c \in {c \in charges: c.period = p /\ c.schedule = schedule} : c.books = amendments,
                    \A day \in periodStart(p) .. periodEnd(p):
                      /\ rangeContains(TermRange(lease), day)
                      /\ \E v \in InForce(day):
                           v.schedule = schedule /\ ~v.once /\ v.amount = rent /\ v.prorate
             PROVE  LET pieces == {c \in charges: c.period = p /\ c.schedule = schedule}
                        sum == SumFunctionOnSet([c \in pieces |-> c.amount], pieces)
                    IN 2 * abs(sum - rent) <= Cardinality(pieces)
  BY DEF PiecesAddUp
<1> DEFINE P == {c \in charges: c.period = p /\ c.schedule = schedule}
           D == periodDayCount(p)
           a == periodStart(p)
           b == periodEnd(p)
<1>1. p \in Nat /\ rent \in Int
  BY VersionParts DEF BillingAssumption
<1>2. a \in Int /\ b \in Int /\ D \in Nat \ {0} /\ b = a + D - 1 /\ a <= b
  BY <1>1, PeriodIs
<1>3. ASSUME NEW c \in P
      PROVE  /\ c \in Billed(lease, p) /\ rent # 0
             /\ c.start \in Int /\ c.end \in Int /\ c.start <= c.end /\ a <= c.start /\ c.end <= b
             /\ c.amount = HalfUp(rent * (c.end - c.start + 1), D)
  <2>1. c \in Billed(lease, p) /\ Rounded(c)
    BY DEF RoundedOnce, Rounded
  <2>2. PICK v, u, s : Bill(c, p, v, u, s)
    BY <1>1, <2>1, BilledIs
  <2>3. /\ c.schedule = v.schedule /\ c.start = s.start /\ c.end = s.end
        /\ c.calculation = Calculation(u, p, s)
        /\ u.amount = v.amount /\ u.prorate = v.prorate /\ u.once = v.once
        /\ s.start \in Int /\ s.end \in Int /\ s.start <= s.end
        /\ \A day \in Int : s.start <= day /\ day <= s.end => v \in InForce(day) /\ a <= day /\ day <= b
    BY <1>1, <2>2, BillIs
  <2>4. a <= s.start /\ s.end <= b /\ s.start <= b /\ v \in InForce(s.start)
    BY <1>2, <2>3
  <2>5. s.start \in a .. b
    BY <1>2, <2>3, <2>4
  <2>6. PICK w \in InForce(s.start) : w.schedule = schedule /\ ~w.once /\ w.amount = rent /\ w.prorate
    BY <2>5
  <2>7. v = w
    BY <2>3, <2>4, <2>6, OneInForce
  <2>8. u.amount = rent /\ ~u.once /\ u.prorate /\ u.amount # 0
    BY <2>2, <2>3, <2>6, <2>7 DEF Bill
  <2>9. c.calculation.method # "NONE" /\ c.calculation.scheduledAmount = rent
        /\ c.calculation.occupiedDays = s.end - s.start + 1 /\ c.calculation.daysInPeriod = D
    BY <2>3, <2>8 DEF Calculation, rangeLengthDays
  <2>10. c.amount = HalfUp(rent * (c.end - c.start + 1), D)
    BY <2>1, <2>3, <2>9 DEF Rounded
  <2> QED BY <2>1, <2>3, <2>4, <2>8, <2>10
<1>4. IsFiniteSet(P)
  BY FS_Subset
<1>5. CASE rent = 0
  <2>1. P = {}
    BY <1>3, <1>5
  <2>2. SumFunctionOnSet(Amount(P), P) = 0 /\ Cardinality(P) = 0
    BY <2>1, SumEmpty, FS_EmptySet
  <2>3. abs(0 - rent) = 0
    BY <1>5 DEF abs
  <2> QED BY <2>2, <2>3 DEF Amount
<1>6. CASE rent # 0
  <2>1. \A c, d \in P : c.start <= d.end /\ d.start <= c.end => c = d
    BY <1>1, <1>3, BilledApart
  <2>2. ASSUME NEW day \in a .. b PROVE \E c \in P : c.start <= day /\ day <= c.end
    <3>1. PICK v \in InForce(day) : v.schedule = schedule /\ ~v.once /\ v.amount = rent
      OBVIOUS
    <3>2. v.amount # 0 /\ (v.once => v.from = day)
      BY <1>6, <3>1
    <3>3. PICK c \in charges : c.schedule = v.schedule /\ c.period = p /\ Bills(c, day)
      BY <3>2 DEF NoDayForgotten
    <3> QED BY <3>1, <3>3 DEF Bills
  <2>3. SumFunctionOnSet(Length(P), P) = D
    <3>a. \A c \in P : c.start \in Int /\ c.end \in Int /\ c.start <= c.end /\ a <= c.start /\ c.end <= b
      BY <1>3
    <3>b. \A day \in a .. b : \E c \in P : c.start <= day /\ day <= c.end
      BY <2>2
    <3> HIDE DEF P, a, b, D
    <3>1. SumFunctionOnSet(Length(P), P) = b - a + 1
      <4>1. Pieces(P, a, b)
        BY <2>1, <3>a, <3>b DEF Pieces
      <4> QED BY <1>2, <1>4, <4>1, DaysAddUp
    <3> QED BY <1>2, <3>1
  <2>4. ASSUME NEW c \in P
        PROVE  /\ c.amount \in Int /\ Length(P)[c] \in Int
               /\ 2 * (D * c.amount) <= 2 * (rent * Length(P)[c]) + D
               /\ 2 * (rent * Length(P)[c]) <= 2 * (D * c.amount) + D
    <3> DEFINE l == c.end - c.start + 1
    <3>1. Length(P)[c] = l
      BY DEF Length
    <3>2. l \in Int /\ c.amount = HalfUp(rent * l, D)
      BY <1>3
    <3> HIDE DEF l, P, D
    <3>3. rent * l \in Int
      BY <1>1, <3>2
    <3> QED BY <1>2, <3>1, <3>2, <3>3, HalfUpIsNear
  <2> DEFINE sum == SumFunctionOnSet(Amount(P), P)
             n == Cardinality(P)
  <2>5. /\ sum \in Int /\ n \in Nat
        /\ 2 * (D * sum) <= 2 * (rent * D) + D * n /\ 2 * (rent * D) <= 2 * (D * sum) + D * n
    <3> HIDE DEF P, D
    <3> QED BY <1>1, <1>2, <1>4, <2>3, <2>4, SharesAddUp
  <2>6. sum = SumFunctionOnSet([c \in P |-> c.amount], P)
    BY DEF Amount
  <2> HIDE DEF sum, n, D, P
  <2>7. D * (2 * sum) <= D * (2 * rent + n) /\ D * (2 * rent) <= D * (2 * sum + n)
    BY <1>1, <1>2, <2>5
  <2>8. 2 * sum <= 2 * rent + n /\ 2 * rent <= 2 * sum + n
    BY <1>1, <1>2, <2>5, <2>7, Cancelled
  <2>9. 2 * abs(sum - rent) <= n
    BY <1>1, <2>5, <2>8 DEF abs
  <2> QED BY <2>6, <2>9 DEF P, n
<1> QED BY <1>5, <1>6

----------------------------------------------------------------------------
(* The invariant.  A charge made of the lease as it is, is one the lease   *)
(* is billed; and of a period generated for the lease as it is, all that   *)
(* is billed is there, under its key.                                      *)

BillingTyped ==
  /\ LeaseFits(lease) /\ amendments \in Nat /\ IsFiniteSet(charges)
  /\ \A s \in Session: shown[s] # Nothing => shown[s].period \in Period
  /\ DOMAIN shown = Session /\ DOMAIN generated = Period

ChargesFit ==
  \A c \in charges:
    /\ c.period \in Period /\ c.books \in Int /\ c.books <= amendments
    /\ c.books = amendments => c \in Billed(lease, c.period)

GenerationsFit ==
  \A p \in Period:
    /\ generated[p] \in Int /\ generated[p] <= amendments
    /\ generated[p] = amendments =>
         \A c \in Billed(lease, p): \E d \in charges: KeyOf(d) = KeyOf(c)

BillingInv == BillingTyped /\ ChargesFit /\ GenerationsFit /\ RoundedOnce /\ NoDayTwice /\ DueInPeriod

(* A period generated for the lease as it is has every day billed. *)
LEMMA NothingForgotten ==
  ASSUME BillingAssumption, BillingInv
  PROVE  NoDayForgotten
<1> SUFFICES ASSUME NEW p \in Period, generated[p] = amendments, lease.active,
                    NEW day \in periodStart(p) .. periodEnd(p), rangeContains(TermRange(lease), day),
                    NEW v \in InForce(day), v.amount # 0, v.once => v.from = day
             PROVE  \E c \in charges: c.schedule = v.schedule /\ c.period = p /\ Bills(c, day)
  BY DEF NoDayForgotten
<1>1. LeaseFits(lease) /\ p \in Nat
  BY DEF BillingInv, BillingTyped, BillingAssumption
<1>2. day \in Int /\ periodStart(p) <= day /\ day <= periodEnd(p)
  BY <1>1, PeriodIs
<1>3. PICK c \in Billed(lease, p) : c.schedule = v.schedule /\ c.period = p /\ Bills(c, day)
  BY <1>1, <1>2, InForceIsBilled
<1>4. PICK d \in charges : KeyOf(d) = KeyOf(c)
  BY DEF BillingInv, GenerationsFit
<1>5. d.schedule = c.schedule /\ d.period = c.period /\ d.start = c.start /\ d.end = c.end
  BY <1>4 DEF KeyOf
<1> QED BY <1>3, <1>5 DEF Bills

(* The invariant is what the property needs. *)
LEMMA BilledOnceFollows == BillingAssumption /\ BillingInv => MonthBilledOnce
<1> SUFFICES ASSUME BillingAssumption, BillingInv PROVE MonthBilledOnce
  OBVIOUS
<1>1. NoDayForgotten
  BY NothingForgotten
<1>2. PiecesAddUp
  BY <1>1, PiecesFit DEF BillingInv, BillingTyped, ChargesFit
<1> QED BY <1>1, <1>2 DEF BillingInv, MonthBilledOnce

(* A lease is billed for finitely many charges: one of each version. *)
LEMMA BilledIsFinite ==
  ASSUME LeaseFits(lease), NEW p
  PROVE  IsFiniteSet(Billed(lease, p))
<1> DEFINE Made == Billed(lease, p)
           V == lease.versions
           Of(c) == CHOOSE v \in V : \E u, s : Bill(c, p, v, u, s)
           f == [c \in Made |-> Of(c)]
<1>1. \A c \in Made : f[c] \in V /\ \E u, s : Bill(c, p, f[c], u, s)
  <2>1. \A c \in Made : \E v \in V : \E u, s : Bill(c, p, v, u, s)
    BY BilledIs DEF Bill
  <2> HIDE DEF Made, V
  <2> QED BY <2>1
<1>2. ASSUME NEW c \in Made, NEW d \in Made, f[c] = f[d] PROVE c = d
  <2>1. PICK v : v = f[c]
    OBVIOUS
  <2>2. PICK u, s : Bill(c, p, v, u, s)
    BY <1>1, <2>1
  <2>3. PICK x, t : Bill(d, p, v, x, t)
    BY <1>1, <1>2, <2>1
  <2>4. u = x
    BY <2>2, <2>3, OneTruncated DEF Bill
  <2>5. s = t
    BY <2>2, <2>3, <2>4, OneSegment DEF Bill
  <2> QED BY <2>2, <2>3, <2>4, <2>5 DEF Bill
<1>3. f \in Injection(Made, V)
  <2>1. f \in [Made -> V] /\ DOMAIN f = Made
    <3>1. \A c \in Made : Of(c) \in V
      <4> HIDE DEF Made, V, Of
      <4> QED BY <1>1
    <3> HIDE DEF Made, V, Of
    <3> QED BY <3>1
  <2> HIDE DEF f, Made, V
  <2> QED BY <1>2, <2>1 DEF Injection, IsInjective
<1> HIDE DEF f
<1>4. IsFiniteSet(V)
  BY DEF LeaseFits
<1> HIDE DEF Made, V
<1>5. IsFiniteSet(Made)
  BY <1>3, <1>4, FS_Injection
<1> QED BY <1>5 DEF Made

(* A generation keeps the invariant. *)
LEMMA GenerateKeeps ==
  ASSUME BillingAssumption, BillingInv, NEW s \in Session, Generate(s)
  PROVE  BillingInv'
<1> DEFINE p == shown[s].period
           new == previewCharges(lease, p)
<1>1. /\ LeaseFits(lease) /\ p \in Period /\ p \in Nat /\ p \in Int /\ amendments \in Int
      /\ lease' = lease /\ amendments' = amendments /\ charges' = charges \cup new
      /\ generated' = [generated EXCEPT ![p] = amendments]
      /\ shown' = [shown EXCEPT ![s] = Nothing]
  <2>1. LeaseFits(lease) /\ amendments \in Nat /\ (shown[s] # Nothing => p \in Period)
    BY DEF BillingInv, BillingTyped
  <2>2. shown[s] # Nothing
    BY DEF Generate
  <2>3. p \in Nat
    BY <2>1, <2>2 DEF BillingAssumption
  <2>4. /\ lease' = lease /\ amendments' = amendments /\ charges' = charges \cup new
        /\ generated' = [generated EXCEPT ![p] = amendments]
        /\ shown' = [shown EXCEPT ![s] = Nothing]
    BY DEF Generate
  <2> HIDE DEF p, new
  <2> QED BY <2>1, <2>2, <2>3, <2>4
<1> HIDE DEF p
<1>2. /\ LeaseFits(lease)' /\ \A q : Billed(lease, q)' = Billed(lease, q)
  BY <1>1 DEF LeaseFits, Billed, Usable, Truncated, Following, NextVersion, Precedes, TruncatedEnd,
           Segments, oneTimeSegment, Charge, TermRange, EffectiveRange, Intersects
<1>3. \A c \in new : /\ c \in Billed(lease, p) /\ c.period = p /\ c.books = amendments
                     /\ Rounded(c) /\ rangeContains(periodRange(c.period), c.due)
                     /\ \A d \in charges : KeyOf(d) # KeyOf(c)
  <2>1. ASSUME NEW c \in new
        PROVE  /\ c \in Billed(lease, p) /\ \A d \in charges : KeyOf(d) # KeyOf(c)
    BY DEF previewCharges
  <2>2. ASSUME NEW c \in Billed(lease, p) PROVE c.books = amendments
    <3>1. PICK v, u, t : Bill(c, p, v, u, t)
      BY BilledIs
    <3> QED BY <1>1, <3>1, BillIs
  <2> HIDE DEF new
  <2> QED BY <1>1, <2>1, <2>2, BilledIsRounded, BilledIsDue
<1> HIDE DEF new
<1>4. BillingTyped'
  <2>1. IsFiniteSet(new)
    <3>1. new \subseteq Billed(lease, p)
      BY <1>3
    <3> QED BY <1>1, <3>1, BilledIsFinite, FS_Subset
  <2>2. IsFiniteSet(charges')
    BY <1>1, <2>1, FS_Union DEF BillingInv, BillingTyped
  <2> QED BY <1>1, <1>2, <2>2 DEF BillingInv, BillingTyped
<1>5. ChargesFit'
  BY <1>1, <1>2, <1>3 DEF BillingInv, ChargesFit
<1>6. GenerationsFit'
  <2>1. SUFFICES ASSUME NEW q \in Period
                 PROVE  /\ generated'[q] \in Int /\ generated'[q] <= amendments
                        /\ generated'[q] = amendments =>
                             \A c \in Billed(lease, q): \E d \in charges': KeyOf(d) = KeyOf(c)
    BY <1>1, <1>2 DEF GenerationsFit, KeyOf
  <2>2. CASE q = p
    <3>1. generated'[q] = amendments
      BY <1>1, <2>2 DEF BillingInv, BillingTyped
    <3>2. ASSUME NEW c \in Billed(lease, q) PROVE \E d \in charges' : KeyOf(d) = KeyOf(c)
      <4>1. CASE c \in new
        BY <1>1, <4>1
      <4>2. CASE c \notin new
        BY <1>1, <2>2, <3>2, <4>2 DEF new, previewCharges
      <4> QED BY <4>1, <4>2
    <3> QED BY <1>1, <3>1, <3>2
  <2>3. CASE q # p
    <3>1. generated'[q] = generated[q]
      BY <1>1, <2>3
    <3> QED BY <1>1, <3>1 DEF BillingInv, GenerationsFit
  <2> QED BY <2>2, <2>3
<1>7. RoundedOnce'
  <2>1. \A c \in charges' : Rounded(c)
    BY <1>1, <1>3 DEF BillingInv, RoundedOnce, Rounded
  <2> QED BY <2>1 DEF RoundedOnce, Rounded
<1>8. DueInPeriod'
  BY <1>1, <1>3 DEF BillingInv, DueInPeriod
<1>9. NoDayTwice'
  <2>1. SUFFICES ASSUME NEW c \in charges', NEW d \in charges', c # d, c.schedule = d.schedule,
                        c.start <= d.end, d.start <= c.end, c.books = d.books
                 PROVE  FALSE
    BY DEF NoDayTwice
  <2>2. CASE c \in charges /\ d \in charges
    BY <2>1, <2>2 DEF BillingInv, NoDayTwice
  <2>3. CASE c \in new \/ d \in new
    <3>1. c.books = amendments /\ d.books = amendments
      BY <1>3, <2>1, <2>3
    <3>2. ASSUME NEW e \in charges \cup new, e.books = amendments
          PROVE  e \in Billed(lease, e.period) /\ e.period \in Nat
      <4>1. CASE e \in new
        BY <1>1, <1>3, <4>1
      <4>2. CASE e \in charges
        <5>1. e \in Billed(lease, e.period) /\ e.period \in Period
          BY <3>2, <4>2 DEF BillingInv, ChargesFit
        <5> QED BY <5>1 DEF BillingAssumption
      <4> QED BY <4>1, <4>2
    <3>3. c \in charges \cup new /\ d \in charges \cup new
      BY <1>1, <2>1
    <3>4. c \in Billed(lease, c.period) /\ c.period \in Nat /\ d \in Billed(lease, d.period) /\ d.period \in Nat
      BY <3>1, <3>2, <3>3
    <3> QED BY <1>1, <2>1, <3>4, BilledApart
  <2> QED BY <1>1, <2>2, <2>3
<1> QED BY <1>4, <1>5, <1>6, <1>7, <1>8, <1>9 DEF BillingInv

(* The greatest of some numbers. *)
LEMMA GreatestIs ==
  ASSUME NEW N, IsFiniteSet(N), N \subseteq Nat, N # {}
  PROVE  Max(N) \in N /\ \A n \in N : n <= Max(N)
<1> DEFINE T == {V \in SUBSET N : V # {} /\ ~ \E m \in V : \A n \in V : m >= n}
<1>1. T = {}
  <2>1. SUFFICES ASSUME T # {} PROVE FALSE
    OBVIOUS
  <2>2. PICK V \in T : \A W \in T : W \subseteq V => W = V
    <3>1. T \subseteq SUBSET N
      OBVIOUS
    <3>2. T # {}
      BY <2>1
    <3>3. IsFiniteSet(N)
      OBVIOUS
    <3> HIDE DEF T
    <3>4. \E U \in T : \A V \in T : V \subseteq U => V = U
      BY ONLY <3>1, <3>2, <3>3, LeastSet, SMT
    <3> QED BY <3>4
  <2>3. PICK e \in V : TRUE
    OBVIOUS
  <2>4. V \ {e} \notin T
    BY <2>2, <2>3
  <2>5. CASE V \ {e} = {}
    BY <2>3, <2>5
  <2>6. CASE V \ {e} # {}
    <3>1. PICK m \in V \ {e} : \A n \in V \ {e} : m >= n
      BY <2>4, <2>6
    <3>2. e \in Nat /\ m \in Nat /\ \A n \in V : n \in Nat
      BY <2>3, <3>1
    <3>3. \A n \in V : n = e \/ m >= n
      BY <3>1
    <3>4. \E k \in V : \A n \in V : k >= n
      <4>1. CASE m >= e
        BY <3>1, <3>3, <4>1
      <4>2. CASE e > m
        BY <2>3, <3>2, <3>3, <4>2
      <4> QED BY <3>2, <4>1, <4>2
    <3> QED BY <2>2, <3>4
  <2> QED BY <2>5, <2>6
<1>2. \E m \in N : \A n \in N : m >= n
  BY <1>1
<1>3. Max(N) \in N /\ \A n \in N : Max(N) >= n
  BY <1>2 DEF Max
<1> QED BY <1>3

(* A new version is the last of its schedule, whatever lease it is added to. *)
LEMMA AmendedFits ==
  ASSUME BillingAssumption, LeaseFits(lease), NEW v \in Version, Amend(v)
  PROVE  LeaseFits(lease')
<1> DEFINE numbers == {w.number: w \in lease.versions}
           number == 1 + Max({0} \cup numbers)
           w0 == [v EXCEPT !.number = number]
<1>1. \A w \in lease.versions : w.number \in Nat
  BY VersionParts
<1>2. IsFiniteSet({0} \cup numbers) /\ {0} \cup numbers \subseteq Nat
  <2> DEFINE f == [w \in lease.versions |-> w.number]
  <2>1. f \in Surjection(lease.versions, numbers)
    BY DEF Surjection
  <2>2. IsFiniteSet(lease.versions)
    BY DEF LeaseFits
  <2> HIDE DEF f
  <2>3. IsFiniteSet(numbers)
    <3> DEFINE V == lease.versions
    <3> HIDE DEF V, numbers
    <3> QED BY <2>1, <2>2, FS_Surjection DEF V
  <2>4. numbers \subseteq Nat
    BY <1>1
  <2> HIDE DEF numbers
  <2> QED BY <2>3, <2>4, FS_AddElement
<1>3. number \in Nat /\ \A w \in lease.versions : w.number < number
  <2> DEFINE m == Max({0} \cup numbers)
  <2>1. m \in {0} \cup numbers /\ \A n \in {0} \cup numbers : n <= m
    <3> HIDE DEF numbers
    <3> QED BY <1>2, GreatestIs
  <2>2. m \in Nat
    <3> HIDE DEF numbers, m
    <3> QED BY <1>2, <2>1
  <2>3. \A w \in lease.versions : w.number <= m
    <3> HIDE DEF m
    <3> QED BY <2>1
  <2>4. number = 1 + m
    OBVIOUS
  <2> HIDE DEF m, numbers, number
  <2>5. number \in Nat
    BY <2>2, <2>4
  <2>6. ASSUME NEW w \in lease.versions PROVE w.number < number
    BY <1>1, <2>2, <2>3, <2>4
  <2> QED BY <2>5, <2>6
<1>4. lease' = [lease EXCEPT !.versions = lease.versions \cup {w0}]
  BY DEF Amend
<1> HIDE DEF number, numbers
<1>5. w0 \in VersionRow /\ w0.number = number /\ w0.schedule = v.schedule
  <2>1. v \in VersionRow
    BY DEF BillingAssumption
  <2> QED BY <1>3, <2>1 DEF VersionRow
<1> HIDE DEF w0
<1>6. /\ lease \in [active: BOOLEAN, start: Int, end: Int, versions: SUBSET VersionRow]
      /\ lease.start <= lease.end /\ IsFiniteSet(lease.versions)
      /\ \A x, y \in lease.versions : (x.schedule = y.schedule /\ x.number = y.number) => x = y
  BY DEF LeaseFits
<1>7. /\ lease' \in [active: BOOLEAN, start: Int, end: Int, versions: SUBSET VersionRow]
      /\ lease'.start = lease.start /\ lease'.end = lease.end
      /\ lease'.versions = lease.versions \cup {w0}
  BY <1>4, <1>5, <1>6
<1>8. IsFiniteSet(lease.versions \cup {w0})
  BY <1>6, FS_AddElement
<1>9. \A x, y \in lease.versions \cup {w0} : (x.schedule = y.schedule /\ x.number = y.number) => x = y
  BY <1>1, <1>3, <1>5, <1>6
<1> QED BY <1>6, <1>7, <1>8, <1>9 DEF LeaseFits

(* What was made of the lease before an amendment is of no use afterwards. *)
LEMMA AmendmentKeeps ==
  ASSUME BillingAssumption, BillingInv, LeaseFits(lease'), amendments' = amendments + 1,
         UNCHANGED <<charges, shown, generated>>
  PROVE  BillingInv'
<1>1. amendments \in Nat /\ amendments < amendments' /\ amendments' \in Nat
  BY DEF BillingInv, BillingTyped
<1>2. BillingTyped'
  BY <1>1 DEF BillingInv, BillingTyped, LeaseFits
<1>3. ChargesFit'
  BY <1>1 DEF BillingInv, ChargesFit
<1>4. GenerationsFit'
  BY <1>1 DEF BillingInv, GenerationsFit
<1>5. (RoundedOnce /\ NoDayTwice /\ DueInPeriod)'
  BY DEF BillingInv, RoundedOnce, NoDayTwice, DueInPeriod
<1> QED BY <1>2, <1>3, <1>4, <1>5 DEF BillingInv

(* So does a preview, or a refusal: nothing but what is shown changes. *)
LEMMA ShownKeeps ==
  ASSUME BillingAssumption, BillingInv, UNCHANGED <<lease, charges, generated, amendments>>,
         DOMAIN shown' = Session, \A s \in Session : shown'[s] # Nothing => shown'[s].period \in Period
  PROVE  BillingInv'
<1>1. \A q : Billed(lease, q)' = Billed(lease, q)
  BY DEF Billed, Usable, Truncated, Following, NextVersion, Precedes, TruncatedEnd,
           Segments, oneTimeSegment, Charge, TermRange, EffectiveRange, Intersects
<1>2. BillingTyped'
  BY DEF BillingInv, BillingTyped, LeaseFits
<1>3. ChargesFit'
  BY <1>1 DEF BillingInv, ChargesFit
<1>4. GenerationsFit'
  BY <1>1 DEF BillingInv, GenerationsFit, KeyOf
<1>5. (RoundedOnce /\ NoDayTwice /\ DueInPeriod)'
  BY DEF BillingInv, RoundedOnce, NoDayTwice, DueInPeriod
<1> QED BY <1>2, <1>3, <1>4, <1>5 DEF BillingInv

(* Every step keeps the invariant. *)
LEMMA BillingStepKeeps == BillingAssumption /\ BillingInv /\ [Next]_vars => BillingInv'
<1> SUFFICES ASSUME BillingAssumption, BillingInv, [Next]_vars PROVE BillingInv'
  OBVIOUS
<1>t. DOMAIN shown = Session /\ (\A s \in Session : shown[s] # Nothing => shown[s].period \in Period)
      /\ LeaseFits(lease)
  BY DEF BillingInv, BillingTyped
<1>1. ASSUME NEW s \in Session, NEW p \in Period, Preview(s, p) PROVE BillingInv'
  <2>1. \A r \in Session : shown'[r] # Nothing => shown'[r].period \in Period
    BY <1>t, <1>1 DEF Preview
  <2>2. DOMAIN shown' = Session
    BY <1>t, <1>1 DEF Preview
  <2> QED BY <1>1, <2>1, <2>2, ShownKeeps DEF Preview
<1>2. ASSUME NEW s \in Session, Generate(s) PROVE BillingInv'
  BY <1>2, GenerateKeeps
<1>3. ASSUME NEW s \in Session, Refuse(s) PROVE BillingInv'
  <2>1. DOMAIN shown' = Session /\ \A r \in Session : shown'[r] # Nothing => shown'[r].period \in Period
    BY <1>t, <1>3 DEF Refuse
  <2> QED BY <1>3, <2>1, ShownKeeps DEF Refuse
<1>4. ASSUME NEW v \in Version, Amend(v) PROVE BillingInv'
  <2>1. LeaseFits(lease')
    BY <1>t, <1>4, AmendedFits
  <2> QED BY <1>4, <2>1, AmendmentKeeps DEF Amend
<1>5. ASSUME NEW d \in EndDates, EndLease(d) PROVE BillingInv'
  <2>1. LeaseFits(lease')
    BY <1>t, <1>5 DEF LeaseFits, EndLease, BillingAssumption
  <2> QED BY <1>5, <2>1, AmendmentKeeps DEF EndLease
<1>6. CASE UNCHANGED vars
  BY <1>t, <1>6, ShownKeeps DEF vars
<1> QED BY <1>1, <1>2, <1>3, <1>4, <1>5, <1>6 DEF Next

(* The invariant holds to begin with. *)
LEMMA BillingStarts == BillingAssumption /\ Init => BillingInv
<1> SUFFICES ASSUME BillingAssumption, Init PROVE BillingInv
  OBVIOUS
<1>1. LeaseFits(lease) /\ IsFiniteSet(charges) /\ charges = {}
  BY FS_EmptySet DEF Init, BillingAssumption
<1>2. BillingTyped
  BY <1>1 DEF Init, BillingTyped
<1>3. ChargesFit /\ RoundedOnce /\ NoDayTwice /\ DueInPeriod
  BY <1>1 DEF ChargesFit, RoundedOnce, NoDayTwice, DueInPeriod
<1>4. GenerationsFit
  BY DEF Init, GenerationsFit
<1> QED BY <1>2, <1>3, <1>4 DEF BillingInv

(* Whatever leases, months, amendments and sessions there are: no day of a *)
(* schedule is billed twice for one lease as it was, however many sessions *)
(* preview and generate; a period generated leaves no day of the term out  *)
(* on which a version with an amount is in force; the pieces of a month    *)
(* add up to its rent but for half a cent each; every amount is the exact  *)
(* share rounded once; and charges fall due in their period.               *)
THEOREM MonthsAreBilledOnce == BillingAssumption => (Spec => []MonthBilledOnce)
<1> SUFFICES ASSUME BillingAssumption PROVE Spec => []MonthBilledOnce
  OBVIOUS
<1>1. Init => BillingInv
  BY BillingStarts
<1>2. BillingInv /\ [Next]_vars => BillingInv'
  BY BillingStepKeeps
<1>3. BillingInv => MonthBilledOnce
  BY BilledOnceFollows
<1> QED BY <1>1, <1>2, <1>3, PTL DEF Spec
=============================================================================
