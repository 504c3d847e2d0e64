------------------------------- MODULE TenantApi -------------------------------
(***************************************************************************)
(* The HTTP surface as its tenants see it: authentication, role checks,    *)
(* the second check on the loaded row, and every route of api/routes with  *)
(* the rows it reads and writes.  One database is shared by all tenants    *)
(* (`db`); beside it runs the database the watched tenant would have if    *)
(* nobody else existed (`alone`), which receives its requests only.  Both  *)
(* are served by one process (`held`), whose registry of skills and        *)
(* quarantine of generated code are keyed by name and shared by all.       *)
(* What a tenant can tell of the others is what differs between the two.   *)
(*                                                                         *)
(* A row is [id, user, val, on, doc]: `val` stands for its name or its     *)
(* contents, `on` for the one flag its routes look at, `doc` for the       *)
(* document of a skill.  Ids are uuids: new ones are never     *)
(* those of another tenant's rows, but a request may name any id.          *)
(***************************************************************************)
EXTENDS Naturals, FiniteSets, FiniteSetsExt

CONSTANTS
  Tenants, Watched, DefaultTenant,
  Areas,     \* the kinds of rows a behaviour may be about
  MaxRows,   \* bound: the rows the watched tenant makes, one less where they
             \* are users, keys and skills; another tenant makes one
  Documents, \* the procedures that may be submitted: a tool and a declared risk
  None

BuiltIn == {"fetch", "send"}  \* tools that ship: one reads, the other writes
SkillNames == {"a", "b"}
Tools == BuiltIn \cup SkillNames
Risks == {"read_only", "mutating"}

ASSUME TenantsAssumption == Watched \in Tenants /\ DefaultTenant \in Tenants
ASSUME BoundAssumption == MaxRows \in Nat
ASSUME DocumentsAssumption == Documents \subseteq [tool : Tools, declares : Risks]

VARIABLES
  db, alone,  \* the rows, with and without the other tenants
  held,       \* the process: its registry, the quarantine, what is imported
  made,       \* how many rows each tenant has made
  area        \* the kind of rows this behaviour is about
vars == <<db, alone, held, made, area>>

Id(kind, t, n) == [kind |-> kind, tenant |-> t, n |-> n]
Row(id, user, val, on) == [id |-> id, user |-> user, val |-> val, on |-> on, doc |-> None]
Skill(id, user, name, doc) == [id |-> id, user |-> user, val |-> name, on |-> FALSE, doc |-> doc]

------------------------------------------------------------------------------
(* security/policy.py: permissions, roles, scopes.                         *)

Reads == {"task:read", "attachment:read", "connector:read", "skill:read",
          "dashboard:read", "schedule:read"}
Analyst == Reads \cup {"task:create", "task:cancel", "attachment:upload",
                       "dashboard:write", "skill:synthesize", "schedule:write"}
Operator == Analyst \cup {"task:approve", "connector:write", "attachment:delete"}
Permissions == Operator \cup {"skill:approve", "tenant:admin", "audit:read"}

ASSUME NoneAssumption == None \notin Nat \cup Permissions

RolePermissions(role) ==
  IF role \in {"system", "admin"} THEN Permissions
  ELSE IF role = "operator" THEN Operator
  ELSE IF role = "analyst" THEN Analyst
  ELSE IF role = "viewer" THEN Reads ELSE {}

(* The scopes of a key: none given, or a list that narrows.                *)
Scope(scopes) == IF scopes = "reads" THEN Reads ELSE Permissions

(* A key's row is read anew for each request.                              *)
Authenticates(rows, k) == \E r \in rows : r.id = k /\ r.on

Principal(rows, k) ==
  LET key == CHOOSE r \in rows : r.id = k
      user == CHOOSE r \in rows : r.id = Id("user", k.tenant, key.user)
  IN  [tenant |-> k.tenant, user |-> key.user,
       may |-> RolePermissions(user.val) \cap Scope(key.val)]

------------------------------------------------------------------------------
(* The routes.  `need` is the permission of require(...), None where there *)
(* is no such check; `reach` says how the rows are found:                  *)
(*   all      a query filtered by tenant                                   *)
(*   checked  by id, then authorize_resource_or_404                        *)
(*   own      by id, and the route's own 404 for another tenant's          *)
(*   thread   own, and the user's own conversation                         *)
(*   threads  a query filtered by tenant and user                          *)
(*   scope    by name, within a MemoryScope                                *)
(*   named    all versions of a name, filtered by tenant                   *)
(*   version  one version of a name, filtered by tenant                    *)

Route(kind, op, need, reach) ==
  [kind |-> kind, op |-> op, need |-> need, reach |-> reach]

DashboardReads == {
  Route("dashboard", "create", "dashboard:write", "all"),
  Route("dashboard", "list", "dashboard:read", "all"),
  Route("dashboard", "get", "dashboard:read", "checked")}

DashboardWrites == {
  Route("dashboard", "change", "dashboard:write", "checked"),
  Route("dashboard", "refresh", "dashboard:read", "checked"),
  Route("dashboard", "delete", "dashboard:write", "checked")}

ScheduleReads == {
  Route("schedule", "create", "schedule:write", "all"),
  Route("schedule", "list", "schedule:read", "all"),
  Route("schedule", "get", "schedule:read", "checked")}

ScheduleWrites == {
  Route("schedule", "change", "schedule:write", "checked"),
  Route("schedule", "delete", "schedule:write", "checked")}

(* The stream authenticates, and asks for no permission.                   *)
TaskRoutes == {
  Route("task", "create", "task:create", "all"),
  Route("task", "get", "task:read", "checked"),
  Route("task", "settle", "task:approve", "checked"),  \* approve and clarify
  Route("task", "settle", "task:cancel", "checked")}

TaskStream == {Route("task", "get", None, "own")}

(* A blob lies under its tenant's prefix.                                  *)
AttachmentRoutes == {
  Route("artifact", "create", "attachment:upload", "all"),
  Route("artifact", "get", "attachment:read", "own")}

ConversationRoutes == {
  Route("conversation", "create", "task:create", "all"),
  Route("conversation", "list", "task:read", "threads"),
  Route("conversation", "get", "task:read", "thread"),
  Route("conversation", "send", "task:create", "thread")}

MemoryRoutes == {
  Route("memory", "recall", "task:read", "scope"),
  Route("memory", "history", "task:read", "scope"),
  Route("memory", "delete", "task:create", "scope")}

SkillRoutes == {
  Route("skill", "submit", "skill:synthesize", "named"),
  Route("skill", "list", "skill:read", "all"),
  Route("skill", "approve", "skill:approve", "version")}

(* Creating a tenant is for the system principal, which no key is.         *)
UserRoutes == {
  Route("user", "refuse", "tenant:admin", "all"),
  Route("user", "create", "tenant:admin", "all"),
  Route("user", "list", "tenant:admin", "all")}

KeyRoutes == {
  Route("key", "list", "tenant:admin", "all"),
  Route("user", "issue", "tenant:admin", "own"),
  Route("key", "revoke", "tenant:admin", "own")}

(* Routes that touch no row of a tenant: the agents' manifests, the        *)
(* semantic layer, whose definitions come with the request, and an         *)
(* investigation, whose answer is its response.                            *)
AgentRoutes == {Route("none", "list", "skill:read", "all")}
SemanticRoutes == {Route("none", "list", "task:read", "all")}
InvestigationRoutes == {Route("none", "list", "task:create", "all")}

Routes ==
  DashboardReads \cup DashboardWrites \cup ScheduleReads \cup ScheduleWrites
  \cup TaskRoutes \cup TaskStream \cup AttachmentRoutes \cup ConversationRoutes
  \cup MemoryRoutes \cup SkillRoutes \cup UserRoutes \cup KeyRoutes
  \cup AgentRoutes \cup SemanticRoutes \cup InvestigationRoutes

------------------------------------------------------------------------------
(* One request q = [route, key, target, val] against the rows of a         *)
(* database.                                                               *)

(* The rows a MemoryScope (tenant, user) addresses under a name: the       *)
(* user's own and the shared ones; without a user only the shared ones.    *)
InScope(rows, t, user, name) ==
  {r \in rows : /\ r.id.kind = "memory" /\ r.id.tenant = t /\ r.val = name
                /\ r.user \in {None, user}}

(* A conversation is private to its creator.                               *)
(* (In the mutant to the tenant.)                                          *)
OwnThread_Tenant(r, p) == TRUE

OwnThread(r, p) == r.user \in {None, p.user}

(* What the route asks of a row of its kind and tenant.                    *)
Matches(r, p, q) ==
  /\ q.route.reach \in {"checked", "own", "thread"} => r.id = q.target
  /\ q.route.reach = "thread" => OwnThread(r, p)
  /\ q.route.reach = "threads" => r.user = p.user
  /\ q.route.reach \in {"named", "version"} => r.val = q.val
  /\ q.route.reach = "version" => r.id.n = q.target.version

(* The rows a request reaches in its own tenant.                           *)
Reached(rows, p, q) ==
  IF q.route.reach = "scope" THEN InScope(rows, p.tenant, p.user, q.val)
  ELSE {r \in rows : r.id.kind = q.route.kind /\ r.id.tenant = p.tenant /\ Matches(r, p, q)}

(* The trail of require(...) ...                                           *)
RouteTrail(p, q) ==
  IF q.route.need = None THEN {}
  ELSE {[action |-> q.route.need, id |-> None,
         decision |-> IF q.route.need \in p.may THEN "allowed" ELSE "denied"]}

(* ... and that of authorize_resource, which gives one reason for what is  *)
(* not there and what is not yours.                                        *)
(* (In the mutant only a row that was found is worth an entry.)            *)
ResourceTrail_Found(rows, p, q) ==
  IF q.route.reach # "checked" \/ \A r \in rows : r.id # q.target THEN {}
  ELSE {[action |-> q.route.need, id |-> q.target,
         decision |-> IF Reached(rows, p, q) # {} THEN "allowed" ELSE "denied"]}

ResourceTrail(rows, p, q) ==
  IF q.route.reach # "checked" THEN {}
  ELSE {[action |-> q.route.need, id |-> q.target,
         decision |-> IF Reached(rows, p, q) # {} THEN "allowed" ELSE "denied"]}

------------------------------------------------------------------------------
(* What the process holds of skills, whoever made them.  A procedure is    *)
(* compiled against the live registry, when it is submitted and again when *)
(* it is approved: its tool must be there, and be what it declares.        *)

Known(h, tool) ==
  \/ tool \in BuiltIn
  \/ tool \in SkillNames /\ h.registry[tool] # None

RiskOf(h, tool) ==
  IF tool = "fetch" THEN "read_only"
  ELSE IF tool = "send" THEN "mutating" ELSE h.registry[tool].risk

Compiles(h, doc) ==
  /\ Known(h, doc.tool)
  /\ RiskOf(h, doc.tool) = "mutating" => doc.declares = "mutating"

(* A version found for approval is not published when it is decided        *)
(* already, when the quarantined file of its name is no longer its own, or *)
(* when importing it meets a registered name.                              *)
Generated(r) == r.doc.tool = "code"
Mismatch(h, r) == Generated(r) /\ h.files[r.val] \notin {None, r.id}
Taken(h, r) ==
  /\ Generated(r) /\ h.files[r.val] = r.id
  /\ h.registry[r.val] # None /\ r.val \notin h.imported
Unpublished(h, r) == r.on \/ Mismatch(h, r) \/ Taken(h, r)

Entry(r, risk) ==
  [id |-> r.id, risk |-> risk, kind |-> IF Generated(r) THEN "code" ELSE "procedure"]

(* promote_quarantined_code: the file is moved before it is imported.      *)
Promoted(h, r) ==
  IF h.files[r.val] # r.id THEN h
  ELSE LET fresh == h.registry[r.val] = None
       IN  [h EXCEPT !.files[r.val] = None,
                     !.registry[r.val] = IF fresh THEN Entry(r, r.doc.risk) ELSE @,
                     !.imported = IF fresh THEN @ \cup {r.val} ELSE @]

(* activate_procedure: the name is taken over.                             *)
Activated(h, r) ==
  IF Compiles(h, r.doc) THEN [h EXCEPT !.registry[r.val] = Entry(r, RiskOf(h, r.doc.tool))] ELSE h

(* What an approval leaves of it.                                          *)
Published(h, found) ==
  LET pending == {r \in found : ~r.on}
  IN  IF pending = {} THEN h
      ELSE LET r == CHOOSE x \in pending : TRUE
           IN  IF Generated(r) THEN Promoted(h, r) ELSE Activated(h, r)

------------------------------------------------------------------------------

(* What a request is answered once it is allowed, by the rows it found and *)
(* the process; 200 stands for every success, and 500 for an exception no  *)
(* handler expects.                                                        *)
Status(found, h, q) ==
  IF q.route.op = "refuse" THEN 403
  ELSE IF q.route.op \in {"get", "change", "settle", "refresh", "send", "issue",
                          "revoke", "delete"} /\ found = {} THEN 404
  ELSE IF q.route.op \in {"create", "change", "submit"} /\ q.val = "bad" THEN 400
  ELSE IF q.route.op = "submit" /\ ~Compiles(h, q.target) THEN 400
  ELSE IF q.route.op = "settle" /\ (\A r \in found : ~r.on) THEN 409
  ELSE IF q.route.op = "approve" /\ (\A r \in found : Unpublished(h, r)) THEN 400
  ELSE IF q.route.op = "approve" /\ (\E r \in found : ~Generated(r) /\ ~Compiles(h, r.doc)) THEN 500
  ELSE 200

(* What the body shows: a recall only what is current.                     *)
Shown(found, q) ==
  IF q.route.op = "recall" THEN {r \in found : r.on}
  ELSE IF q.route.op \in {"list", "get", "history", "change"} THEN found ELSE {}

(* `loaded` in the listing of skills: the procedures this process accepts  *)
(* calls for, whoever they belong to.                                      *)
Loaded(h, q) ==
  IF q.route.kind # "skill" \/ q.route.op # "list" THEN {}
  ELSE {e \in {h.registry[name] : name \in SkillNames} : e # None /\ e.kind = "procedure"}

(* The rows a request makes; n numbers them.  A name that is submitted     *)
(* again becomes its next version.                                         *)
Created(h, p, q, n) ==
  IF q.route.op = "create"
  THEN {Row(Id(q.route.kind, p.tenant, n), p.user, q.val, q.route.kind = "task")}
  ELSE IF q.route.op = "submit"
  THEN {Skill(Id("skill", p.tenant, n), p.user, q.val,
              [tool |-> q.target.tool, declares |-> q.target.declares,
               risk |-> RiskOf(h, q.target.tool)])}
  ELSE IF q.route.op = "issue" THEN {Row(Id("key", p.tenant, n), q.target.n, q.val, TRUE)}
  ELSE IF q.route.op = "send" THEN {Row(Id("task", p.tenant, n), p.user, q.val, TRUE)}
  ELSE {}

(* What becomes of the rows it reaches.                                    *)
Changed(found, q) ==
  IF q.route.op \in {"change", "send"} THEN {[r EXCEPT !.val = q.val] : r \in found}
  ELSE IF q.route.op \in {"settle", "revoke"} THEN {[r EXCEPT !.on = FALSE] : r \in found}
  ELSE IF q.route.op \in {"refresh", "approve"} THEN {[r EXCEPT !.on = TRUE] : r \in found}
  ELSE IF q.route.op = "delete" THEN {} ELSE found

Refused == [status |-> 401, shown |-> {}, trail |-> {}, loaded |-> {}]

(* A change is committed before what may still fail after it.              *)
Commits(status) == status \in {200, 500}

Answer(rows, h, n, q) ==
  IF ~Authenticates(rows, q.key)
  THEN [answer |-> Refused, rows |-> rows, held |-> h]
  ELSE LET p == Principal(rows, q.key)
           allowed == q.route.need = None \/ q.route.need \in p.may
           found == Reached(rows, p, q)
           status == IF allowed THEN Status(found, h, q) ELSE 403
       IN  [answer |-> [status |-> status,
                        shown |-> IF status = 200 THEN Shown(found, q) ELSE {},
                        trail |-> RouteTrail(p, q)
                                    \cup (IF allowed THEN ResourceTrail(rows, p, q) ELSE {}),
                        loaded |-> IF status = 200 THEN Loaded(h, q) ELSE {}],
            rows |-> IF Commits(status)
                     THEN (rows \ found) \cup Changed(found, q) \cup Created(h, p, q, n)
                     ELSE rows,
            held |-> IF allowed /\ q.route.op = "approve" /\ ~\E r \in found : Mismatch(h, r)
                     THEN Published(h, found) ELSE h]

------------------------------------------------------------------------------

(* Each tenant starts with an administrator and a key of his; the watched  *)
(* one also with a key that narrows it, and a viewer with a key.           *)
Init ==
  /\ area \in Areas
  /\ made = [t \in Tenants |-> 0]
  /\ held = [registry |-> [name \in SkillNames |-> None],
             files |-> [name \in SkillNames |-> None], imported |-> {}]
  /\ db = (UNION {{Row(Id("user", t, 1), 1, "admin", TRUE),
                   Row(Id("key", t, 1), 1, "all", TRUE)} : t \in Tenants})
           \cup {Row(Id("user", Watched, 2), 2, "viewer", TRUE),
                 Row(Id("key", Watched, 2), 2, "all", TRUE),
                 Row(Id("key", Watched, 3), 1, "reads", TRUE)}
  /\ alone = {r \in db : r.id.tenant = Watched}

AreaOf(route) == IF route.kind \in {"user", "key", "none"} THEN "admin" ELSE route.kind

(* The bodies, names and ids a request may carry: of an id, any tenant's,  *)
(* made or not.                                                            *)
Bodies(route) ==
  IF route.op = "issue" THEN {"all", "reads"}
  ELSE IF route.kind = "user" /\ route.op = "create" THEN {"operator", "bad"}
  ELSE IF route.op = "submit" THEN SkillNames \cup {"bad"}
  ELSE IF route.reach \in {"scope", "version"} THEN {"a", "b"}
  ELSE IF route.op \in {"create", "change"} THEN {"a", "bad"}
  ELSE IF route.op = "send" THEN {"a"} ELSE {None}

Ids(kind) == {Id(kind, t, n) : t \in Tenants,
                n \in (IF kind \in {"user", "key"} THEN 1 ELSE 4) .. MaxRows + 3}

Targets(route) ==
  IF route.reach \in {"checked", "own", "thread"} THEN Ids(route.kind)
  ELSE IF route.op = "submit" THEN Documents
  ELSE IF route.reach = "version" THEN [version : 4 .. MaxRows + 3] ELSE {None}

RequestsBy(keys) ==
  UNION {[route : {r}, key : keys, target : Targets(r), val : Bodies(r)] :
           r \in {s \in Routes : AreaOf(s) = area}}

Keys == {r.id : r \in {s \in db : s.id.kind = "key"}}
Requests == RequestsBy(Keys)

Numbered(t) == made[t] + 4

RoomLeft(t) ==
  made[t] < (IF t # Watched THEN 1
             ELSE IF area \in {"admin", "skill"} THEN MaxRows - 1 ELSE MaxRows)

(* A request is answered; only the watched tenant's exist in both worlds.  *)
Request(q) ==
  LET t == q.key.tenant
      n == Numbered(t)
      here == Answer(db, held, n, q)
      makes == \E r \in here.rows : r.id.tenant = t /\ r.id.n = n
  IN  /\ makes => RoomLeft(t)
      /\ db' = here.rows
      /\ made' = [made EXCEPT ![t] = IF makes THEN @ + 1 ELSE @]
      /\ held' = here.held
      /\ alone' = IF t = Watched THEN Answer(alone, held, n, q).rows ELSE alone
      /\ UNCHANGED area

(* A key's expiry passes (a revocation's twin, so where those are).        *)
Expired(rows, k) == {IF r.id = k THEN [r EXCEPT !.on = FALSE] ELSE r : r \in rows}

Expire(k) ==
  /\ area = "admin" /\ Authenticates(db, k)
  /\ db' = Expired(db, k) /\ alone' = Expired(alone, k)
  /\ UNCHANGED <<held, made, area>>

(* The webhook: no identity, so a task of the system in the default        *)
(* tenant.                                                                 *)
WebhookAlert ==
  /\ area = "task" /\ RoomLeft(DefaultTenant)
  /\ LET new == {Row(Id("task", DefaultTenant, Numbered(DefaultTenant)), None, "a", TRUE)}
     IN  /\ db' = db \cup new
         /\ alone' = IF DefaultTenant = Watched THEN alone \cup new ELSE alone
  /\ made' = [made EXCEPT ![DefaultTenant] = @ + 1]
  /\ UNCHANGED <<held, area>>

(* MemoryStore.remember, when a task has ended: the newest current entry   *)
(* in scope is superseded.                                                 *)
Newest(rows) == {r \in rows : \A s \in rows : s.id.n <= r.id.n}

Remembered(rows, t, user, name, n) ==
  LET previous == Newest({r \in InScope(rows, t, user, name) : r.on})
  IN  (rows \ previous) \cup {[r EXCEPT !.on = FALSE] : r \in previous}
        \cup {Row(Id("memory", t, n), user, name, TRUE)}

Remember(t, user, name) ==
  /\ area = "memory" /\ RoomLeft(t)
  /\ db' = Remembered(db, t, user, name, Numbered(t))
  /\ alone' = IF t = Watched THEN Remembered(alone, t, user, name, Numbered(t)) ELSE alone
  /\ made' = [made EXCEPT ![t] = @ + 1]
  /\ UNCHANGED <<held, area>>

(* A tenant's task generates a skill: its file goes to the quarantine,     *)
(* over whatever lies there under that name, and its row is refused when   *)
(* the tenant has one of that name.                                        *)
Synthesize(t, name, risk) ==
  LET has == \E r \in db : r.id.kind = "skill" /\ r.id.tenant = t /\ r.val = name
      n == Numbered(t)
      new == Skill(Id("skill", t, n), None, name,
                   [tool |-> "code", declares |-> risk, risk |-> risk])
  IN  /\ area = "skill" /\ (has \/ RoomLeft(t))
      /\ held' = [held EXCEPT !.files[name] = IF has THEN Id("code", t, 0) ELSE new.id]
      /\ db' = IF has THEN db ELSE db \cup {new}
      /\ alone' = IF has \/ t # Watched THEN alone ELSE alone \cup {new}
      /\ made' = [made EXCEPT ![t] = IF has THEN @ ELSE @ + 1]
      /\ UNCHANGED area

Next ==
  \/ \E q \in Requests : Request(q)
  \/ \E k \in Keys : Expire(k)
  \/ WebhookAlert
  \/ \E t \in Tenants, user \in {1, 2, None}, name \in {"a", "b"} : Remember(t, user, name)
  \/ \E t \in Tenants, name \in SkillNames, risk \in Risks : Synthesize(t, name, risk)

Spec == Init /\ [][Next]_vars

------------------------------------------------------------------------------

(* "The two outcomes are then indistinguishable from outside in every      *)
(* channel a tenant can observe": whatever the other tenants wrote, every  *)
(* request of the watched tenant gets the status, the rows and the audit   *)
(* entries the same process would give it if their rows did not exist.     *)
Observed(rows, h, q) == Answer(rows, h, Numbered(Watched), q).answer

OwnRequests == RequestsBy({k \in Keys : k.tenant = Watched})

OthersUnseen == \A q \in OwnRequests : Observed(db, held, q) = Observed(alone, held, q)

(* The same claim of the process: nothing other tenants published or left  *)
(* in quarantine is seen.                                                  *)
(* (The code does not: README, "Known disagreements".)                     *)
Theirs(id) == id # None /\ id.tenant # Watched

OwnHeld ==
  LET gone == {x \in SkillNames : held.registry[x] # None /\ Theirs(held.registry[x].id)}
  IN  [registry |-> [x \in SkillNames |-> IF x \in gone THEN None ELSE held.registry[x]],
       files |-> [x \in SkillNames |-> IF Theirs(held.files[x]) THEN None ELSE held.files[x]],
       imported |-> held.imported \ gone]

ProcessUnseen == \A q \in OwnRequests : Observed(db, held, q) = Observed(db, OwnHeld, q)

(* "What makes a read-only key genuinely read-only even when it belongs to *)
(* an admin user": a request whose key allows reads changes no row and     *)
(* nothing of the process, a dashboard's refresh apart; nor does a user    *)
(* see or touch a conversation of another one.                             *)
Diff(a, b) == (a \ b) \cup (b \ a)

WithinRights ==
  \A q \in Requests :
    Authenticates(db, q.key) =>
      LET p == Principal(db, q.key)
          out == Answer(db, held, Numbered(p.tenant), q)
          touched == Diff(db, out.rows)
          key == CHOOSE r \in db : r.id = q.key
      IN  /\ (key.val = "reads" \/ key.user = 2) /\ q.route.op # "refresh" =>
               touched = {} /\ out.held = held
          /\ \A r \in touched \cup out.answer.shown :
               r.id.kind = "conversation" => r.user = p.user

(* "Tenant-wide entries (no user) remain visible to a user-scoped read - a *)
(* team memory is meant to be shared": the newest one is current.          *)
(* (The code does not: README, "Known disagreements".)                     *)
SharedStaysVisible ==
  \A t \in Tenants, name \in {"a", "b"} : \A r \in Newest(InScope(db, t, None, name)) : r.on

==============================================================================
