-------------------------- MODULE TenantApiProofs --------------------------
(***************************************************************************)
(* Proofs about TenantApi, for any tenants, any kinds of rows and any      *)
(* number of them.                                                         *)
(***************************************************************************)
EXTENDS TenantApi, TLAPS

Kinds == {"user", "key", "dashboard", "schedule", "task", "artifact", "conversation", "memory",
          "skill", "code"}
Values == {"admin", "viewer", "operator", "all", "reads", "a", "b", "bad", None}
Names == [kind : Kinds, tenant : Tenants, n : Nat]
Docs == [tool : Tools \cup {"code"}, declares : Risks, risk : Risks]
Rows == [id : Names, user : Nat \cup {None}, val : Values, on : BOOLEAN, doc : Docs \cup {None}]

Entries == [id : Names, risk : Risks, kind : {"code", "procedure"}]
Processes == [registry : [SkillNames -> Entries \cup {None}], files : [SkillNames -> Names \cup {None}],
              imported : SUBSET Values]

(* Shape of the state.                                                     *)
TypeOK ==
  /\ db \in SUBSET Rows /\ alone \in SUBSET Rows
  /\ made \in [Tenants -> Nat] /\ area \in Areas
  /\ held \in Processes

(* An id names one row; a key has its user; only viewers have the number   *)
(* of a viewer; a conversation has a creator and a skill a document.       *)
Keyed(rows) ==
  /\ \A r, s \in rows : r.id = s.id => r = s
  /\ \A r \in rows : r.id.kind = "key" =>
       r.user \in Nat /\ \E s \in rows : s.id = Id("user", r.id.tenant, r.user)
  /\ \A r \in rows : r.id.kind = "user" /\ r.id.n = 2 => r.val = "viewer"
  /\ \A r \in rows : r.id.kind = "conversation" => r.user \in Nat
  /\ \A r \in rows : r.id.kind = "skill" => r.doc \in Docs

(* Numbers are not used twice.                                             *)
Counted == \A r \in db : r.id.n < Numbered(r.id.tenant)

(* What is the watched tenant's.                                           *)
Own(rows) == {r \in rows : r.id.tenant = Watched}

IInv == TypeOK /\ Keyed(db) /\ Counted /\ alone = Own(db)

-----------------------------------------------------------------------------
(* The routes.                                                             *)

(* What the proofs need to know of every route.                            *)
LEMMA RouteShape ==
  ASSUME NEW route \in Routes
  PROVE  /\ route.op \in {"create", "submit"} => route.kind \in Kinds \ {"key"}
         /\ route.op = "issue" => route.kind = "user" /\ route.reach = "own"
         /\ route.op = "send" => route.kind = "conversation"
         /\ route.kind = "user" => route.op \in {"refuse", "create", "list", "issue"}
         /\ route.kind = "conversation" =>
              \/ route.op = "create"
              \/ route.op = "list" /\ route.reach = "threads"
              \/ route.op \in {"get", "send"} /\ route.reach = "thread"
         /\ route.need \in Reads \cup {None} => route.op \in {"list", "get", "history", "recall", "refresh"}
         /\ route.op \in {"submit", "approve"} => route.kind = "skill"
         /\ route.op = "create" => route.kind # "skill"
         /\ route.op = "submit" => route.reach = "named"
         /\ route.reach = "scope" => route.kind = "memory"
<1> DEFINE Shape(r) ==
       /\ r.op \in {"create", "submit"} => r.kind \in Kinds \ {"key"}
       /\ r.op = "issue" => r.kind = "user" /\ r.reach = "own"
       /\ r.op = "send" => r.kind = "conversation"
       /\ r.kind = "user" => r.op \in {"refuse", "create", "list", "issue"}
       /\ r.kind = "conversation" =>
            \/ r.op = "create"
            \/ r.op = "list" /\ r.reach = "threads"
            \/ r.op \in {"get", "send"} /\ r.reach = "thread"
       /\ r.need \in Reads \cup {None} => r.op \in {"list", "get", "history", "recall", "refresh"}
       /\ r.op \in {"submit", "approve"} => r.kind = "skill"
       /\ r.op = "create" => r.kind # "skill"
       /\ r.op = "submit" => r.reach = "named"
       /\ r.reach = "scope" => r.kind = "memory"
<1>none. /\ None \notin {"task:create", "task:cancel", "attachment:upload", "dashboard:write",
                         "skill:synthesize", "schedule:write", "task:approve", "connector:write",
                         "attachment:delete", "skill:approve", "tenant:admin", "audit:read"}
         /\ \A x \in {"task:create", "task:cancel", "attachment:upload", "dashboard:write",
                         "skill:synthesize", "schedule:write", "task:approve", "connector:write",
                         "attachment:delete", "skill:approve", "tenant:admin", "audit:read"} : x \notin Reads
      BY NoneAssumption DEF Permissions, Operator, Analyst, Reads
<1>1. CASE route \in DashboardReads \cup DashboardWrites
      BY <1>1, <1>none DEF DashboardReads, DashboardWrites, Route, Kinds
<1>2. CASE route \in ScheduleReads \cup ScheduleWrites
      BY <1>2, <1>none DEF ScheduleReads, ScheduleWrites, Route, Kinds
<1>3. CASE route \in TaskRoutes \cup TaskStream \cup AttachmentRoutes
      BY <1>3, <1>none DEF TaskRoutes, TaskStream, AttachmentRoutes, Route, Kinds
<1>4. CASE route \in ConversationRoutes \cup MemoryRoutes
      BY <1>4, <1>none DEF ConversationRoutes, MemoryRoutes, Route, Kinds
<1>5. CASE route \in SkillRoutes \cup UserRoutes \cup KeyRoutes
      BY <1>5, <1>none DEF SkillRoutes, UserRoutes, KeyRoutes, Route, Kinds
<1>6. CASE route \in AgentRoutes \cup SemanticRoutes \cup InvestigationRoutes
      BY <1>6, <1>none DEF AgentRoutes, SemanticRoutes, InvestigationRoutes, Route, Kinds
<1> QED
    BY <1>1, <1>2, <1>3, <1>4, <1>5, <1>6 DEF Routes

(* A request: its key is a key's name, its body one of the values, and the *)
(* user a key is issued to a user's name.                                  *)
Asks(q) ==
  /\ q.route \in Routes /\ q.key \in Names /\ q.key.kind = "key" /\ q.val \in Values
  /\ q.route.op = "issue" =>
       q.target.kind = "user" /\ q.target.n \in Nat /\ q.target = Id("user", q.target.tenant, q.target.n)
  /\ q.route.op = "submit" => q.target \in Documents

(* Every request of the model is one.                                      *)
LEMMA RequestShape ==
  ASSUME TypeOK, NEW q \in Requests
  PROVE  Asks(q) /\ q.key \in Keys /\ q.key.tenant \in Tenants
<1>1. PICK route \in Routes : q \in [route : {route}, key : Keys, target : Targets(route), val : Bodies(route)]
      BY DEF Requests, RequestsBy
<1>2. q.route = route /\ q.key \in Keys /\ q.target \in Targets(route) /\ q.val \in Bodies(route)
      BY <1>1
<1>3. q.key \in Names /\ q.key.kind = "key" /\ q.key.tenant \in Tenants
      BY <1>2 DEF Keys, TypeOK, Rows, Names
<1>4. q.val \in Values
      BY <1>2 DEF Bodies, Values, SkillNames
<1>5. ASSUME route.op = "issue"
      PROVE  q.target.kind = "user" /\ q.target.n \in Nat /\ q.target = Id("user", q.target.tenant, q.target.n)
  <2>1. route.kind = "user" /\ route.reach = "own"
        BY <1>5, RouteShape
  <2>2. PICK t \in Tenants, n \in 1 .. MaxRows + 3 : q.target = Id("user", t, n)
        BY <1>2, <2>1 DEF Targets, Ids
  <2> QED
      BY <2>2, BoundAssumption DEF Id
<1>6. route.op = "submit" => q.target \in Documents
  <2>1. route.op = "submit" => route.reach \notin {"checked", "own", "thread"}
        BY RouteShape
  <2> QED
      BY <1>2, <2>1 DEF Targets
<1> QED
    BY <1>2, <1>3, <1>4, <1>5, <1>6 DEF Asks

-----------------------------------------------------------------------------
(* Rows and principals.                                                    *)

(* The watched tenant's rows have what the rows have.                      *)
LEMMA OwnKeyed ==
  ASSUME NEW rows \in SUBSET Rows, Keyed(rows)
  PROVE  Own(rows) \in SUBSET Rows /\ Keyed(Own(rows))
<1>1. Own(rows) \subseteq rows
      BY DEF Own
<1>2. ASSUME NEW r \in Own(rows), r.id.kind = "key"
      PROVE  r.user \in Nat /\ \E s \in Own(rows) : s.id = Id("user", r.id.tenant, r.user)
  <2>1. r \in rows /\ r.id.tenant = Watched
        BY DEF Own
  <2>2. r.user \in Nat /\ \E s \in rows : s.id = Id("user", r.id.tenant, r.user)
        BY <1>2, <2>1 DEF Keyed
  <2>3. PICK s \in rows : s.id = Id("user", r.id.tenant, r.user)
        BY <2>2
  <2>4. s.id.tenant = Watched
        BY <2>1, <2>3 DEF Id
  <2> QED
      BY <2>2, <2>3, <2>4 DEF Own
<1> QED
    BY <1>1, <1>2 DEF Keyed

(* Who a key stands for.                                                   *)
LEMMA PrincipalKnown ==
  ASSUME NEW rows \in SUBSET Rows, Keyed(rows), NEW k \in Names, k.kind = "key", Authenticates(rows, k)
  PROVE  \E key, user \in rows :
           /\ key.id = k /\ key.on /\ key.user \in Nat /\ key = (CHOOSE r \in rows : r.id = k)
           /\ user.id = Id("user", k.tenant, key.user)
           /\ Principal(rows, k).tenant = k.tenant /\ Principal(rows, k).user = key.user
           /\ Principal(rows, k).may = RolePermissions(user.val) \cap Scope(key.val)
<1> DEFINE key == CHOOSE r \in rows : r.id = k
           user == CHOOSE r \in rows : r.id = Id("user", k.tenant, key.user)
<1>1. PICK r \in rows : r.id = k /\ r.on
      BY DEF Authenticates
<1>2. key \in rows /\ key.id = k
      BY <1>1
<1>3. key = r
      BY <1>1, <1>2 DEF Keyed
<1>4. key.user \in Nat /\ \E s \in rows : s.id = Id("user", k.tenant, key.user)
      BY <1>2 DEF Keyed
<1>5. user \in rows /\ user.id = Id("user", k.tenant, key.user)
      BY <1>4
<1>6. Principal(rows, k) = [tenant |-> k.tenant, user |-> key.user,
                            may |-> RolePermissions(user.val) \cap Scope(key.val)]
      BY DEF Principal
<1> HIDE DEF key, user
<1>7. /\ Principal(rows, k).tenant = k.tenant /\ Principal(rows, k).user = key.user
      /\ Principal(rows, k).may = RolePermissions(user.val) \cap Scope(key.val)
      BY <1>6
<1>8. key = (CHOOSE s \in rows : s.id = k)
      BY DEF key
<1> QED
    BY <1>1, <1>2, <1>3, <1>4, <1>5, <1>7, <1>8

(* The watched tenant's keys stand for the same principal when it is alone.*)
LEMMA PrincipalSame ==
  ASSUME NEW rows \in SUBSET Rows, Keyed(rows), NEW k \in Names, k.kind = "key", k.tenant = Watched
  PROVE  /\ Authenticates(Own(rows), k) <=> Authenticates(rows, k)
         /\ Authenticates(rows, k) =>
              /\ Principal(Own(rows), k).tenant = Watched /\ Principal(rows, k).tenant = Watched
              /\ Principal(Own(rows), k).user = Principal(rows, k).user
              /\ Principal(Own(rows), k).may = Principal(rows, k).may
<1>1. Authenticates(Own(rows), k) <=> Authenticates(rows, k)
      BY DEF Authenticates, Own
<1>2. ASSUME Authenticates(rows, k)
      PROVE  /\ Principal(Own(rows), k).tenant = Watched /\ Principal(rows, k).tenant = Watched
             /\ Principal(Own(rows), k).user = Principal(rows, k).user
             /\ Principal(Own(rows), k).may = Principal(rows, k).may
  <2>1. PICK key, user \in rows :
           /\ key.id = k
           /\ user.id = Id("user", k.tenant, key.user)
           /\ Principal(rows, k).tenant = k.tenant /\ Principal(rows, k).user = key.user
           /\ Principal(rows, k).may = RolePermissions(user.val) \cap Scope(key.val)
        BY <1>2, PrincipalKnown
  <2>2. Own(rows) \in SUBSET Rows /\ Keyed(Own(rows))
        BY OwnKeyed
  <2>3. PICK mine, me \in Own(rows) :
           /\ mine.id = k
           /\ me.id = Id("user", k.tenant, mine.user)
           /\ Principal(Own(rows), k).tenant = k.tenant /\ Principal(Own(rows), k).user = mine.user
           /\ Principal(Own(rows), k).may = RolePermissions(me.val) \cap Scope(mine.val)
        BY <1>1, <1>2, <2>2, PrincipalKnown
  <2>4. mine = key /\ me = user
    <3>1. mine \in rows /\ me \in rows
          BY DEF Own
    <3>2. mine = key
          BY <2>1, <2>3, <3>1 DEF Keyed
    <3> QED
        BY <2>1, <2>3, <3>1, <3>2 DEF Keyed
  <2> QED
      BY <2>1, <2>3, <2>4
<1> QED
    BY <1>1, <1>2

-----------------------------------------------------------------------------
(* What a request finds and what becomes of it.                            *)

(* A request finds rows of its tenant and of its route's kind.             *)
LEMMA ReachedShape ==
  ASSUME NEW rows, NEW p, NEW q, Asks(q)
  PROVE  /\ Reached(rows, p, q) \subseteq rows
         /\ \A r \in Reached(rows, p, q) : r.id.tenant = p.tenant /\ r.id.kind = q.route.kind
<1>1. q.route.reach = "scope" => q.route.kind = "memory"
      BY RouteShape DEF Asks
<1> QED
    BY <1>1 DEF Reached, InScope

(* The watched tenant finds the same when it is alone.                     *)
LEMMA ReachedSame ==
  ASSUME NEW rows, NEW q, NEW p, NEW me, p.tenant = Watched,
         me.tenant = p.tenant, me.user = p.user
  PROVE  Reached(Own(rows), me, q) = Reached(rows, p, q)
<1> QED
    BY DEF Reached, InScope, Own, Matches, OwnThread

(* The rows that were found stay what they are, but for their contents and *)
(* their flag.                                                             *)
LEMMA ChangedShape ==
  ASSUME NEW found \in SUBSET Rows, NEW q, q.val \in Values
  PROVE  /\ \A r \in Changed(found, q) :
              r \in Rows /\ \E s \in found : r.id = s.id /\ r.user = s.user /\ r.doc = s.doc
         /\ q.route.op \notin {"change", "send", "settle", "revoke", "refresh", "approve", "delete"} =>
              Changed(found, q) = found
         /\ (\A r, s \in found : r.id = s.id => r = s) =>
              \A r, s \in Changed(found, q) : r.id = s.id => r = s
<1>1. CASE q.route.op \in {"change", "send"}
  <2>1. Changed(found, q) = {[r EXCEPT !.val = q.val] : r \in found}
        BY <1>1 DEF Changed
  <2>2. \A r \in found : /\ [r EXCEPT !.val = q.val] \in Rows /\ [r EXCEPT !.val = q.val].id = r.id
                         /\ [r EXCEPT !.val = q.val].user = r.user /\ [r EXCEPT !.val = q.val].doc = r.doc
        BY DEF Rows
  <2>3. \A r \in Changed(found, q) :
               r \in Rows /\ \E s \in found : r.id = s.id /\ r.user = s.user /\ r.doc = s.doc
        BY <2>1, <2>2
  <2>4. ASSUME \A r, s \in found : r.id = s.id => r = s,
               NEW r \in Changed(found, q), NEW s \in Changed(found, q), r.id = s.id
        PROVE  r = s
    <3>1. PICK x \in found : r = [x EXCEPT !.val = q.val]
          BY <2>1
    <3>2. PICK y \in found : s = [y EXCEPT !.val = q.val]
          BY <2>1
    <3>3. x.id = y.id
          BY <2>2, <2>4, <3>1, <3>2
    <3> QED
        BY <2>4, <3>1, <3>2, <3>3
  <2> QED
      BY <1>1, <2>3, <2>4
<1>2. CASE q.route.op \in {"settle", "revoke"}
  <2>1. Changed(found, q) = {[r EXCEPT !.on = FALSE] : r \in found}
        BY <1>2 DEF Changed
  <2>2. \A r \in found : /\ [r EXCEPT !.on = FALSE] \in Rows /\ [r EXCEPT !.on = FALSE].id = r.id
                         /\ [r EXCEPT !.on = FALSE].user = r.user /\ [r EXCEPT !.on = FALSE].doc = r.doc
        BY DEF Rows
  <2>3. \A r \in Changed(found, q) :
               r \in Rows /\ \E s \in found : r.id = s.id /\ r.user = s.user /\ r.doc = s.doc
        BY <2>1, <2>2
  <2>4. ASSUME \A r, s \in found : r.id = s.id => r = s,
               NEW r \in Changed(found, q), NEW s \in Changed(found, q), r.id = s.id
        PROVE  r = s
    <3>1. PICK x \in found : r = [x EXCEPT !.on = FALSE]
          BY <2>1
    <3>2. PICK y \in found : s = [y EXCEPT !.on = FALSE]
          BY <2>1
    <3>3. x.id = y.id
          BY <2>2, <2>4, <3>1, <3>2
    <3> QED
        BY <2>4, <3>1, <3>2, <3>3
  <2> QED
      BY <1>2, <2>3, <2>4
<1>3. CASE q.route.op \in {"refresh", "approve"}
  <2>1. Changed(found, q) = {[r EXCEPT !.on = TRUE] : r \in found}
        BY <1>3 DEF Changed
  <2>2. \A r \in found : /\ [r EXCEPT !.on = TRUE] \in Rows /\ [r EXCEPT !.on = TRUE].id = r.id
                         /\ [r EXCEPT !.on = TRUE].user = r.user /\ [r EXCEPT !.on = TRUE].doc = r.doc
        BY DEF Rows
  <2>3. \A r \in Changed(found, q) :
               r \in Rows /\ \E s \in found : r.id = s.id /\ r.user = s.user /\ r.doc = s.doc
        BY <2>1, <2>2
  <2>4. ASSUME \A r, s \in found : r.id = s.id => r = s,
               NEW r \in Changed(found, q), NEW s \in Changed(found, q), r.id = s.id
        PROVE  r = s
    <3>1. PICK x \in found : r = [x EXCEPT !.on = TRUE]
          BY <2>1
    <3>2. PICK y \in found : s = [y EXCEPT !.on = TRUE]
          BY <2>1
    <3>3. x.id = y.id
          BY <2>2, <2>4, <3>1, <3>2
    <3> QED
        BY <2>4, <3>1, <3>2, <3>3
  <2> QED
      BY <1>3, <2>3, <2>4
<1>4. CASE q.route.op = "delete"
      BY <1>4 DEF Changed
<1>5. CASE q.route.op \notin {"change", "send", "settle", "revoke", "refresh", "approve", "delete"}
      BY <1>5 DEF Changed
<1> QED
    BY <1>1, <1>2, <1>3, <1>4, <1>5

(* A row that is made has its tenant's next number; a key that is issued   *)
(* is for the user that was found.                                         *)
LEMMA CreatedShape ==
  ASSUME NEW p, p.tenant \in Tenants, p.user \in Nat, NEW q, Asks(q), NEW n \in Nat,
         NEW h \in Processes, q.route.op = "submit" => Compiles(h, q.target),
         NEW r \in Created(h, p, q, n)
  PROVE  /\ r \in Rows /\ r.id.tenant = p.tenant /\ r.id.n = n
         /\ Created(h, p, q, n) = {r} /\ q.route.op \in {"create", "submit", "issue", "send"}
         /\ r.id.kind = "key" => /\ q.route.op = "issue" /\ r.user = q.target.n
         /\ r.id.kind = "conversation" => r.user = p.user
         /\ r.id.kind = "skill" => r.doc \in Docs
<1>0. /\ q.val \in Values /\ q.route \in Routes
      /\ q.route.op = "issue" => q.target.n \in Nat
      BY DEF Asks
<1>1. CASE q.route.op = "create"
  <2>1. q.route.kind \in Kinds \ {"key", "skill"}
        BY <1>0, <1>1, RouteShape
  <2>2. PICK flag \in BOOLEAN : Created(h, p, q, n) = {Row(Id(q.route.kind, p.tenant, n), p.user, q.val, flag)}
    <3>1. CASE q.route.kind = "task"
          BY <1>1, <3>1, Zenon DEF Created
    <3>2. CASE q.route.kind # "task"
          BY <1>1, <3>2, Zenon DEF Created
    <3> QED
        BY <3>1, <3>2
  <2> QED
      BY <1>0, <1>1, <2>1, <2>2 DEF Row, Id, Rows, Names
<1>s. CASE q.route.op = "submit"
  <2> DEFINE doc == [tool |-> q.target.tool, declares |-> q.target.declares,
                     risk |-> RiskOf(h, q.target.tool)]
  <2>1. q.target \in [tool : Tools, declares : Risks]
        BY <1>s, DocumentsAssumption DEF Asks
  <2>2. RiskOf(h, q.target.tool) \in Risks
        BY <1>s DEF Compiles, Known, RiskOf, Processes, Entries, Risks, BuiltIn, SkillNames
  <2>3. doc \in Docs
        BY <2>1, <2>2 DEF Docs
  <2>4. Created(h, p, q, n) = {Skill(Id("skill", p.tenant, n), p.user, q.val, doc)}
        BY <1>s DEF Created
  <2> HIDE DEF doc
  <2>5. r = Skill(Id("skill", p.tenant, n), p.user, q.val, doc) /\ Created(h, p, q, n) = {r}
        BY <2>4
  <2>6. Id("skill", p.tenant, n) \in Names
        BY DEF Id, Names, Kinds
  <2> DEFINE id == Id("skill", p.tenant, n)
  <2>7. id.tenant = p.tenant /\ id.n = n /\ id.kind = "skill"
        BY DEF Id
  <2> HIDE DEF id
  <2>8. r \in Rows /\ r.id = id /\ r.doc = doc
        BY <1>0, <2>3, <2>5, <2>6 DEF Skill, Rows, id
  <2> QED
      BY <1>s, <2>3, <2>5, <2>7, <2>8
<1>2. CASE q.route.op = "issue"
  <2>1. Created(h, p, q, n) = {Row(Id("key", p.tenant, n), q.target.n, q.val, TRUE)}
        BY <1>2 DEF Created
  <2>2. r = Row(Id("key", p.tenant, n), q.target.n, q.val, TRUE) /\ Created(h, p, q, n) = {r}
        BY <2>1
  <2>3. Id("key", p.tenant, n) \in Names
        BY DEF Id, Names, Kinds
  <2>4. r \in Rows /\ r.id = Id("key", p.tenant, n) /\ r.user = q.target.n
        BY <1>0, <1>2, <2>2, <2>3 DEF Row, Rows
  <2>5. r.id.tenant = p.tenant /\ r.id.n = n /\ r.id.kind = "key"
    <3> DEFINE id == Id("key", p.tenant, n)
    <3>1. id.tenant = p.tenant /\ id.n = n /\ id.kind = "key"
          BY DEF Id
    <3>2. r.id = id
          BY <2>4
    <3> HIDE DEF id
    <3> QED
        BY <3>1, <3>2
  <2> QED
      BY <1>2, <2>2, <2>4, <2>5
<1>3. CASE q.route.op = "send"
  <2>1. Created(h, p, q, n) = {Row(Id("task", p.tenant, n), p.user, q.val, TRUE)}
        BY <1>3 DEF Created
  <2>2. r = Row(Id("task", p.tenant, n), p.user, q.val, TRUE) /\ Created(h, p, q, n) = {r}
        BY <2>1
  <2>3. Id("task", p.tenant, n) \in Names
        BY DEF Id, Names, Kinds
  <2>4. r \in Rows /\ r.id = Id("task", p.tenant, n) /\ r.user = p.user
        BY <1>0, <1>3, <2>2, <2>3 DEF Row, Rows
  <2>5. r.id.tenant = p.tenant /\ r.id.n = n /\ r.id.kind = "task"
    <3> DEFINE id == Id("task", p.tenant, n)
    <3>1. id.tenant = p.tenant /\ id.n = n /\ id.kind = "task"
          BY DEF Id
    <3>2. r.id = id
          BY <2>4
    <3> HIDE DEF id
    <3> QED
        BY <3>1, <3>2
  <2> QED
      BY <1>3, <2>2, <2>4, <2>5
<1>4. q.route.op \in {"create", "submit", "issue", "send"}
      BY DEF Created
<1> QED
    BY <1>1, <1>s, <1>2, <1>3, <1>4

Allowed(p, q) == q.route.need = None \/ q.route.need \in p.may
After(rows, h, p, q, n) ==
  (rows \ Reached(rows, p, q)) \cup Changed(Reached(rows, p, q), q) \cup Created(h, p, q, n)
Outcome(rows, h, p, q) == IF Allowed(p, q) THEN Status(Reached(rows, p, q), h, q) ELSE 403

(* A request that is not authenticated leaves everything alone.            *)
LEMMA RefusedShape ==
  ASSUME NEW rows, NEW h, NEW q, NEW n, ~Authenticates(rows, q.key)
  PROVE  /\ Answer(rows, h, n, q).rows = rows /\ Answer(rows, h, n, q).held = h
         /\ Answer(rows, h, n, q).answer = Refused
<1>1. Answer(rows, h, n, q) = [answer |-> Refused, rows |-> rows, held |-> h]
      BY DEF Answer
<1> QED
    BY <1>1

(* What one that is authenticated gets and leaves.                         *)
AnswerTo(rows, h, p, q) ==
  [status |-> Outcome(rows, h, p, q),
   shown |-> IF Outcome(rows, h, p, q) = 200 THEN Shown(Reached(rows, p, q), q) ELSE {},
   trail |-> RouteTrail(p, q) \cup (IF Allowed(p, q) THEN ResourceTrail(rows, p, q) ELSE {}),
   loaded |-> IF Outcome(rows, h, p, q) = 200 THEN Loaded(h, q) ELSE {}]

RowsAfter(rows, h, p, q, n) ==
  IF Commits(Outcome(rows, h, p, q)) THEN After(rows, h, p, q, n) ELSE rows

HeldAfter(rows, h, p, q) ==
  IF Allowed(p, q) /\ q.route.op = "approve" /\ ~\E r \in Reached(rows, p, q) : Mismatch(h, r)
  THEN Published(h, Reached(rows, p, q)) ELSE h

LEMMA AnswerShape ==
  ASSUME NEW rows, NEW h, NEW q, NEW n, Authenticates(rows, q.key)
  PROVE  /\ Answer(rows, h, n, q).rows = RowsAfter(rows, h, Principal(rows, q.key), q, n)
         /\ Answer(rows, h, n, q).answer = AnswerTo(rows, h, Principal(rows, q.key), q)
         /\ Answer(rows, h, n, q).held = HeldAfter(rows, h, Principal(rows, q.key), q)
<1> DEFINE p == Principal(rows, q.key)
<1>1. Answer(rows, h, n, q) = [answer |-> AnswerTo(rows, h, p, q), rows |-> RowsAfter(rows, h, p, q, n),
                               held |-> HeldAfter(rows, h, p, q)]
      BY Zenon DEF Answer, AnswerTo, RowsAfter, HeldAfter, Outcome, Allowed, After
<1> HIDE DEF p
<1>2. /\ Answer(rows, h, n, q).rows = RowsAfter(rows, h, p, q, n)
      /\ Answer(rows, h, n, q).answer = AnswerTo(rows, h, p, q)
      /\ Answer(rows, h, n, q).held = HeldAfter(rows, h, p, q)
      BY <1>1
<1> QED
    BY <1>2 DEF p

(* What an approval leaves is a process.                                   *)
LEMMA PublishedShape ==
  ASSUME NEW h \in Processes, NEW found \in SUBSET Rows,
         \A r \in found : r.doc \in Docs
  PROVE  Published(h, found) \in Processes
<1> DEFINE pending == {r \in found : ~r.on}
<1>1. CASE pending = {}
      BY <1>1 DEF Published
<1>2. CASE pending # {}
  <2> DEFINE r == CHOOSE x \in pending : TRUE
  <2>1. r \in Rows /\ r.doc \in Docs /\ r.id \in Names /\ r.val \in Values
        BY <1>2 DEF Rows
  <2>2. Published(h, found) = IF Generated(r) THEN Promoted(h, r) ELSE Activated(h, r)
        BY <1>2 DEF Published
  <2> HIDE DEF r
  <2>3. /\ h.registry \in [SkillNames -> Entries \cup {None}] /\ h.files \in [SkillNames -> Names \cup {None}]
        /\ h.imported \in SUBSET Values
        BY DEF Processes
  <2>4. \A risk \in Risks : Entry(r, risk) \in Entries
        BY <2>1 DEF Entry, Entries
  <2>5. Promoted(h, r) \in Processes
    <3>1. CASE h.files[r.val] # r.id
          BY <3>1 DEF Promoted
    <3>2. CASE h.files[r.val] = r.id
      <4> DEFINE fresh == h.registry[r.val] = None
                 files == [h.files EXCEPT ![r.val] = None]
                 registry == [h.registry EXCEPT ![r.val] = IF fresh THEN Entry(r, r.doc.risk) ELSE @]
                 imported == IF fresh THEN h.imported \cup {r.val} ELSE h.imported
      <4>1. Promoted(h, r) = [h EXCEPT !.files[r.val] = None,
                     !.registry[r.val] = IF fresh THEN Entry(r, r.doc.risk) ELSE @,
                     !.imported = IF fresh THEN @ \cup {r.val} ELSE @]
            BY <3>2, Zenon DEF Promoted
      <4>2. Promoted(h, r) = [registry |-> registry, files |-> files, imported |-> imported]
            BY <4>1 DEF Processes
      <4>3. files \in [SkillNames -> Names \cup {None}]
            BY <2>3
      <4>4. r.doc.risk \in Risks
            BY <2>1 DEF Docs
      <4>5. registry \in [SkillNames -> Entries \cup {None}]
        <5>1. CASE fresh
              BY <2>3, <2>4, <4>4, <5>1
        <5>2. CASE ~fresh
              BY <2>3, <5>2
        <5> QED
            BY <5>1, <5>2
      <4>6. imported \in SUBSET Values
            BY <2>1, <2>3
      <4> QED
          BY <4>2, <4>3, <4>5, <4>6 DEF Processes
    <3> QED
        BY <3>1, <3>2
  <2>6. Activated(h, r) \in Processes
    <3>1. CASE ~Compiles(h, r.doc)
          BY <3>1 DEF Activated
    <3>2. CASE Compiles(h, r.doc)
      <4> DEFINE e == Entry(r, RiskOf(h, r.doc.tool))
      <4>1. RiskOf(h, r.doc.tool) \in Risks
            BY <3>2 DEF Compiles, Known, RiskOf, Processes, Entries, Risks, BuiltIn, SkillNames
      <4>2. e \in Entries
            BY <2>4, <4>1
      <4>3. Activated(h, r) = [h EXCEPT !.registry[r.val] = e]
            BY <3>2 DEF Activated
      <4> HIDE DEF e
      <4>4. Activated(h, r) = [registry |-> [h.registry EXCEPT ![r.val] = e], files |-> h.files,
                               imported |-> h.imported]
            BY <4>3 DEF Processes
      <4>5. [h.registry EXCEPT ![r.val] = e] \in [SkillNames -> Entries \cup {None}]
            BY <2>3, <4>2
      <4> QED
          BY <2>3, <4>4, <4>5 DEF Processes
    <3> QED
        BY <3>1, <3>2
  <2> QED
      BY <2>2, <2>5, <2>6
<1> QED
    BY <1>1, <1>2

(* What goes through keeps the rows keyed.                                 *)
LEMMA AfterKeyed ==
  ASSUME NEW rows \in SUBSET Rows, Keyed(rows), NEW q, Asks(q),
         NEW h \in Processes, NEW p, p.tenant \in Tenants, p.user \in Nat, NEW n \in Nat, n # 2,
         \A r \in rows : r.id.tenant = p.tenant => r.id.n < n,
         Commits(Status(Reached(rows, p, q), h, q))
  PROVE  /\ After(rows, h, p, q, n) \in SUBSET Rows /\ Keyed(After(rows, h, p, q, n))
         /\ \A r \in After(rows, h, p, q, n) :
              \/ \E s \in rows : r.id = s.id
              \/ r.id.tenant = p.tenant /\ r.id.n = n
<1> DEFINE found == Reached(rows, p, q)
           changed == Changed(found, q)
           made0 == Created(h, p, q, n)
           out == After(rows, h, p, q, n)
<1>c. (q.route.op = "submit" => Compiles(h, q.target)) /\ (q.route.op = "issue" => found # {})
      BY DEF Commits, Status
<1>0. out = (rows \ found) \cup changed \cup made0
      BY DEF After
<1>1. found \in SUBSET Rows /\ found \subseteq rows /\ q.val \in Values /\ q.route \in Routes
      BY ReachedShape DEF Asks
<1>2. \A r \in found : r.id.tenant = p.tenant /\ r.id.kind = q.route.kind
      BY ReachedShape
<1>3. /\ \A r \in changed :
           r \in Rows /\ \E s \in found : r.id = s.id /\ r.user = s.user /\ r.doc = s.doc
      /\ \A r, s \in changed : r.id = s.id => r = s
  <2>1. \A r, s \in found : r.id = s.id => r = s
        BY <1>1 DEF Keyed
  <2> HIDE DEF found
  <2> QED
      BY <1>1, <2>1, ChangedShape
<1>4. q.route.op \notin {"change", "send", "settle", "revoke", "refresh", "approve", "delete"} => changed = found
  <2> HIDE DEF found
  <2> QED
      BY <1>1, ChangedShape
<1>5. ASSUME NEW r \in made0
      PROVE  /\ r \in Rows /\ r.id.tenant = p.tenant /\ r.id.n = n /\ made0 = {r}
             /\ r.id.kind = "key" => q.route.op = "issue" /\ r.user = q.target.n
             /\ r.id.kind = "conversation" => r.user = p.user
             /\ r.id.kind = "skill" => r.doc \in Docs
      BY <1>c, CreatedShape
<1>6. q.route.kind = "user" => changed = found
  <2>1. q.route.kind = "user" => q.route.op \in {"refuse", "create", "list", "issue"}
        BY <1>1, RouteShape
  <2> QED
      BY <1>4, <2>1
<1> HIDE DEF found, changed, made0, out
<1>old. ASSUME NEW r \in out, r \notin made0
        PROVE  \E s \in rows : /\ r.id = s.id /\ r.user = s.user /\ r.doc = s.doc
                               /\ s.id.kind = "user" => r = s
  <2>1. CASE r \in rows \ found
        BY <2>1
  <2>2. CASE r \in changed
    <3>1. PICK s \in found : r.id = s.id /\ r.user = s.user /\ r.doc = s.doc
          BY <1>3, <2>2
    <3>2. ASSUME s.id.kind = "user" PROVE r = s
      <4>1. r \in rows /\ s \in rows
            BY <1>1, <1>2, <1>6, <2>2, <3>1, <3>2
      <4> QED
          BY <3>1, <4>1 DEF Keyed
    <3> QED
        BY <1>1, <3>1, <3>2
  <2> QED
      BY <1>0, <1>old, <2>1, <2>2
<1>7. out \in SUBSET Rows
      BY <1>0, <1>1, <1>3, <1>5
<1>8. \A r \in out : (\E s \in rows : r.id = s.id) \/ (r.id.tenant = p.tenant /\ r.id.n = n)
      BY <1>5, <1>old
<1>9. ASSUME NEW r \in out, NEW s \in out, r.id = s.id PROVE r = s
  <2>1. CASE r \in made0 \/ s \in made0
    <3>1. ASSUME NEW x \in out, x \notin made0, x.id.tenant = p.tenant PROVE x.id.n # n
          BY <1>old, <3>1 DEF Rows, Names
    <3>2. r.id.tenant = p.tenant /\ r.id.n = n /\ s.id.tenant = p.tenant /\ s.id.n = n
          BY <1>5, <1>9, <2>1
    <3>3. r \in made0 /\ s \in made0
          BY <3>1, <3>2
    <3> QED
        BY <1>5, <3>3
  <2>2. CASE r \in changed /\ s \in changed
        BY <1>3, <1>9, <2>2
  <2>3. CASE r \in rows \ found /\ s \in rows \ found
        BY <1>9, <2>3 DEF Keyed
  <2>4. ASSUME NEW x \in changed, NEW y \in rows \ found, x.id = y.id PROVE FALSE
    <3>1. PICK z \in found : x.id = z.id
          BY <1>3
    <3>2. z \in rows /\ y \in rows /\ z.id = y.id
          BY <1>1, <2>4, <3>1
    <3>3. z = y
          BY <3>2 DEF Keyed
    <3> QED
        BY <3>3
  <2> QED
      BY <1>0, <1>9, <2>1, <2>2, <2>3, <2>4
<1>10. ASSUME NEW s \in rows, s.id.kind = "user" PROVE s \in out
      BY <1>0, <1>2, <1>6, <1>10
<1>11. ASSUME NEW r \in out, r.id.kind = "key"
       PROVE  r.user \in Nat /\ \E s \in out : s.id = Id("user", r.id.tenant, r.user)
  <2>1. CASE r \in made0
    <3>1. q.route.op = "issue" /\ r.user = q.target.n /\ r.id.tenant = p.tenant
          BY <1>5, <1>11, <2>1
    <3>2. /\ q.target.n \in Nat /\ q.target = Id("user", q.target.tenant, q.target.n)
          /\ q.route.kind = "user" /\ q.route.reach = "own"
          BY <1>1, <3>1, RouteShape DEF Asks
    <3>3. PICK f \in found : TRUE
          BY <1>c, <3>1
    <3>4. f.id = q.target
          BY <3>2, <3>3 DEF found, Reached, Matches
    <3>5. f \in out /\ f.id.tenant = p.tenant
          BY <1>1, <1>2, <1>10, <3>2
    <3> QED
        BY <3>1, <3>2, <3>4, <3>5 DEF Id
  <2>2. CASE r \notin made0
    <3>1. PICK s \in rows : r.id = s.id /\ r.user = s.user
          BY <1>old, <2>2
    <3>2. r.user \in Nat /\ \E u \in rows : u.id = Id("user", r.id.tenant, r.user)
          BY <1>11, <3>1 DEF Keyed
    <3> QED
        BY <1>10, <3>2 DEF Id
  <2> QED
      BY <2>1, <2>2
<1>12. ASSUME NEW r \in out, r.id.kind = "user", r.id.n = 2 PROVE r.val = "viewer"
  <2>1. r \notin made0
        BY <1>5, <1>12
  <2> QED
      BY <1>12, <1>old, <2>1 DEF Keyed
<1>13. ASSUME NEW r \in out, r.id.kind = "conversation" PROVE r.user \in Nat
      BY <1>5, <1>13, <1>old DEF Keyed
<1>15. ASSUME NEW r \in out, r.id.kind = "skill" PROVE r.doc \in Docs
      BY <1>5, <1>15, <1>old DEF Keyed
<1>14. Keyed(out)
      BY <1>9, <1>11, <1>12, <1>13, <1>15 DEF Keyed
<1> QED
    BY <1>7, <1>8, <1>14 DEF out

-----------------------------------------------------------------------------
(* The watched tenant, with and without the others.                        *)

(* A request of the watched tenant is answered the same when it is alone,  *)
(* and leaves what it would have left.                                     *)
LEMMA OwnOutcome ==
  ASSUME NEW rows \in SUBSET Rows, Keyed(rows), NEW h \in Processes, NEW q, Asks(q), q.key.tenant = Watched,
         NEW n \in Nat
  PROVE  LET here == Answer(rows, h, n, q)
             there == Answer(Own(rows), h, n, q)
         IN  there.rows = Own(here.rows) /\ there.answer = here.answer
<1> DEFINE here == Answer(rows, h, n, q)
           there == Answer(Own(rows), h, n, q)
           p == Principal(rows, q.key)
           me == Principal(Own(rows), q.key)
<1>1. q.key \in Names /\ q.key.kind = "key" /\ q.route \in Routes /\ q.val \in Values
      BY DEF Asks
<1>2. CASE ~Authenticates(rows, q.key)
  <2>1. ~Authenticates(Own(rows), q.key)
        BY <1>1, <1>2, PrincipalSame
  <2> QED
      BY <1>2, <2>1, RefusedShape
<1>3. CASE Authenticates(rows, q.key)
  <2>1. /\ Authenticates(Own(rows), q.key) /\ me.tenant = Watched /\ p.tenant = Watched
        /\ me.user = p.user /\ me.may = p.may
        BY <1>1, <1>3, PrincipalSame
  <2> DEFINE found == Reached(rows, p, q)
  <2>2. Reached(Own(rows), me, q) = found
        BY <2>1, ReachedSame
  <2>3. Allowed(me, q) <=> Allowed(p, q)
        BY <2>1 DEF Allowed
  <2>4. RouteTrail(me, q) = RouteTrail(p, q)
        BY <2>1 DEF RouteTrail
  <2>5. ResourceTrail(Own(rows), me, q) = ResourceTrail(rows, p, q)
        BY <2>2 DEF ResourceTrail
  <2>6. Created(h, me, q, n) = Created(h, p, q, n)
        BY <2>1 DEF Created
  <2> DEFINE status == Outcome(rows, h, p, q)
  <2>7. ASSUME Commits(status)
        PROVE  After(Own(rows), h, me, q, n) = Own(After(rows, h, p, q, n))
    <3>1. found \in SUBSET Rows /\ \A r \in found : r.id.tenant = Watched
          BY <2>1, ReachedShape
    <3>2. \A r \in Changed(found, q) : r.id.tenant = Watched
      <4> HIDE DEF found
      <4> QED
          BY <1>1, <3>1, ChangedShape
    <3>3. \A r \in Created(h, p, q, n) : r.id.tenant = Watched
      <4>1. p.user \in Nat
            BY <1>1, <1>3, PrincipalKnown
      <4>2. q.route.op = "submit" => Compiles(h, q.target)
            BY <2>7 DEF Commits, Status, Outcome
      <4> QED
          BY <2>1, <4>1, <4>2, CreatedShape, TenantsAssumption
    <3>4. After(Own(rows), h, me, q, n) = (Own(rows) \ found) \cup Changed(found, q) \cup Created(h, p, q, n)
          BY <2>2, <2>6 DEF After
    <3>5. After(rows, h, p, q, n) = (rows \ found) \cup Changed(found, q) \cup Created(h, p, q, n)
          BY DEF After
    <3> HIDE DEF found, p, status
    <3> QED
        BY <3>2, <3>3, <3>4, <3>5 DEF Own
  <2> DEFINE mine == Outcome(Own(rows), h, me, q)
  <2>8. here.rows = RowsAfter(rows, h, p, q, n) /\ here.answer = AnswerTo(rows, h, p, q)
        BY <1>3, AnswerShape
  <2>9. there.rows = RowsAfter(Own(rows), h, me, q, n) /\ there.answer = AnswerTo(Own(rows), h, me, q)
        BY <2>1, AnswerShape
  <2>10. mine = status
         BY <2>2, <2>3 DEF Outcome
  <2>11. RowsAfter(Own(rows), h, me, q, n) = Own(RowsAfter(rows, h, p, q, n))
    <3> HIDE DEF p, me, status, mine
    <3>1. CASE Commits(status)
          BY <2>7, <2>10, <3>1 DEF RowsAfter, status, mine
    <3>2. CASE ~Commits(status)
          BY <2>10, <3>2 DEF RowsAfter, status, mine
    <3> QED
        BY <3>1, <3>2
  <2>12. AnswerTo(Own(rows), h, me, q) = AnswerTo(rows, h, p, q)
    <3> HIDE DEF p, me
    <3> QED
        BY <2>2, <2>3, <2>4, <2>5, <2>10 DEF AnswerTo
  <2> HIDE DEF here, there, p, me
  <2>13. there.rows = Own(here.rows) /\ there.answer = here.answer
         BY <2>8, <2>9, <2>11, <2>12
  <2> QED
      BY <2>13 DEF here, there
<1> QED
    BY <1>2, <1>3

(* A request of another tenant leaves the watched tenant's rows alone.     *)
LEMMA OtherOutcome ==
  ASSUME NEW rows \in SUBSET Rows, Keyed(rows), NEW h \in Processes, NEW q, Asks(q), NEW n \in Nat,
         q.key.tenant \in Tenants, q.key.tenant # Watched
  PROVE  Own(Answer(rows, h, n, q).rows) = Own(rows)
<1> DEFINE p == Principal(rows, q.key)
           found == Reached(rows, p, q)
           status == Outcome(rows, h, p, q)
           out == Answer(rows, h, n, q).rows
<1>1. q.key \in Names /\ q.key.kind = "key" /\ q.route \in Routes /\ q.val \in Values
      BY DEF Asks
<1>2. CASE ~Authenticates(rows, q.key)
      BY <1>2, RefusedShape
<1>3. CASE Authenticates(rows, q.key)
  <2>1. p.tenant = q.key.tenant /\ p.user \in Nat
        BY <1>1, <1>3, PrincipalKnown
  <2>2. found \in SUBSET Rows /\ \A r \in found : r.id.tenant # Watched
        BY <2>1, ReachedShape
  <2>3. \A r \in Changed(found, q) : r.id.tenant # Watched
    <3> HIDE DEF found
    <3> QED
        BY <1>1, <2>2, ChangedShape
  <2>4. ASSUME Commits(status), NEW r \in Created(h, p, q, n) PROVE r.id.tenant # Watched
    <3>1. q.route.op = "submit" => Compiles(h, q.target)
          BY <2>4 DEF Commits, Status, Outcome
    <3> QED
        BY <2>1, <2>4, <3>1, CreatedShape
  <2>0. out = RowsAfter(rows, h, p, q, n)
        BY <1>3, AnswerShape
  <2>5. out = rows \/ (out = After(rows, h, p, q, n) /\ Commits(status))
    <3> HIDE DEF out, p
    <3> QED
        BY <2>0 DEF RowsAfter
  <2>6. After(rows, h, p, q, n) = (rows \ found) \cup Changed(found, q) \cup Created(h, p, q, n)
        BY DEF After
  <2> HIDE DEF found, p, out, status
  <2>7. Commits(status) => Own(After(rows, h, p, q, n)) = Own(rows)
        BY <2>2, <2>3, <2>4, <2>6 DEF Own
  <2>8. Own(out) = Own(rows)
        BY <2>5, <2>7
  <2> QED
      BY <2>8 DEF out
<1> QED
    BY <1>2, <1>3

(* The same request, with what it may do to the rows.                      *)
LEMMA AnswerKeyed ==
  ASSUME NEW rows \in SUBSET Rows, Keyed(rows), NEW h \in Processes, NEW q, Asks(q), q.key.tenant \in Tenants,
         NEW n \in Nat, n # 2, \A r \in rows : r.id.tenant = q.key.tenant => r.id.n < n
  PROVE  LET out == Answer(rows, h, n, q).rows
         IN  /\ out \in SUBSET Rows /\ Keyed(out)
             /\ \A r \in out : \/ \E s \in rows : r.id = s.id
                               \/ r.id.tenant = q.key.tenant /\ r.id.n = n
             /\ Answer(rows, h, n, q).held \in Processes
<1> DEFINE p == Principal(rows, q.key)
           found == Reached(rows, p, q)
           out == Answer(rows, h, n, q).rows
<1>a. out = rows \/ (Authenticates(rows, q.key) /\ out = RowsAfter(rows, h, p, q, n))
      BY RefusedShape, AnswerShape
<1>b. \/ Answer(rows, h, n, q).held = h
      \/ Authenticates(rows, q.key) /\ Answer(rows, h, n, q).held = HeldAfter(rows, h, p, q)
      BY RefusedShape, AnswerShape
<1>1. ASSUME out = rows
      PROVE  /\ out \in SUBSET Rows /\ Keyed(out)
             /\ \A r \in out : \/ \E s \in rows : r.id = s.id
                               \/ r.id.tenant = q.key.tenant /\ r.id.n = n
  <2> HIDE DEF out
  <2> QED
      BY <1>1
<1>2. ASSUME out # rows
      PROVE  /\ out \in SUBSET Rows /\ Keyed(out)
             /\ \A r \in out : \/ \E s \in rows : r.id = s.id
                               \/ r.id.tenant = q.key.tenant /\ r.id.n = n
  <2>1. Authenticates(rows, q.key)
        BY <1>2, <1>a
  <2>2. p.tenant = q.key.tenant /\ p.user \in Nat
        BY <2>1, PrincipalKnown DEF Asks
  <2>3. out = After(rows, h, p, q, n) /\ Commits(Status(Reached(rows, p, q), h, q))
    <3> HIDE DEF p, out
    <3> QED
        BY <1>2, <1>a DEF RowsAfter, Outcome, Commits
  <2> HIDE DEF p, out
  <2>4. /\ After(rows, h, p, q, n) \in SUBSET Rows /\ Keyed(After(rows, h, p, q, n))
        /\ \A r \in After(rows, h, p, q, n) :
             \/ \E s \in rows : r.id = s.id
             \/ r.id.tenant = p.tenant /\ r.id.n = n
        BY <2>2, <2>3, AfterKeyed
  <2> QED
      BY <2>2, <2>3, <2>4 DEF out
<1>3. Answer(rows, h, n, q).held \in Processes
  <2>1. CASE Answer(rows, h, n, q).held = h
        BY <2>1
  <2>2. CASE Answer(rows, h, n, q).held # h
    <3>1. Answer(rows, h, n, q).held = Published(h, found) /\ q.route.op = "approve"
          BY <1>b, <2>2, Zenon DEF HeldAfter
    <3>2. q.route.kind = "skill"
          BY <3>1, RouteShape DEF Asks
    <3>3. found \in SUBSET Rows /\ \A r \in found : r.doc \in Docs
          BY <3>2, ReachedShape DEF Keyed
    <3> HIDE DEF found
    <3> QED
        BY <3>1, <3>3, PublishedShape
  <2> QED
      BY <2>1, <2>2
<1> QED
    BY <1>1, <1>2, <1>3

-----------------------------------------------------------------------------
(* The steps.                                                              *)

(* A request keeps the invariant.                                          *)
LEMMA RequestStep ==
  ASSUME IInv, NEW q \in Requests, Request(q)
  PROVE  IInv'
<1> DEFINE t == q.key.tenant
           n == Numbered(t)
           here == Answer(db, held, n, q)
           makes == \E r \in here.rows : r.id.tenant = t /\ r.id.n = n
<1>1. Asks(q) /\ t \in Tenants
      BY RequestShape DEF IInv
<1>2. n \in Nat /\ n # 2 /\ n = made[t] + 4 /\ made[t] \in Nat
      BY <1>1 DEF IInv, TypeOK, Numbered
<1>3. /\ db \in SUBSET Rows /\ Keyed(db) /\ alone = Own(db) /\ held \in Processes
      /\ \A r \in db : r.id.tenant = t => r.id.n < n
      BY DEF IInv, TypeOK, Counted
<1>4. /\ db' = here.rows /\ made' = [made EXCEPT ![t] = IF makes THEN @ + 1 ELSE @]
      /\ alone' = (IF t = Watched THEN Answer(alone, held, n, q).rows ELSE alone) /\ area' = area
      /\ held' = here.held
      BY DEF Request
<1>5. /\ here.rows \in SUBSET Rows /\ Keyed(here.rows)
      /\ \A r \in here.rows : (\E s \in db : r.id = s.id) \/ (r.id.tenant = t /\ r.id.n = n)
      /\ here.held \in Processes
  <2> HIDE DEF n
  <2> QED
      BY <1>1, <1>2, <1>3, AnswerKeyed
<1>6. alone' = Own(here.rows)
  <2>1. CASE t = Watched
    <3> HIDE DEF n
    <3> QED
        BY <1>1, <1>2, <1>3, <1>4, <2>1, OwnOutcome
  <2>2. CASE t # Watched
    <3> HIDE DEF n
    <3> QED
        BY <1>1, <1>2, <1>3, <1>4, <2>2, OtherOutcome
  <2> QED
      BY <2>1, <2>2
<1> HIDE DEF here, n, makes
<1>7. made' \in [Tenants -> Nat] /\ \A u \in Tenants : made'[u] >= made[u]
  <2>1. made \in [Tenants -> Nat]
        BY DEF IInv, TypeOK
  <2>2. CASE makes
        BY <1>1, <1>4, <2>1, <2>2
  <2>3. CASE ~makes
        BY <1>1, <1>4, <2>1, <2>3
  <2> QED
      BY <2>2, <2>3
<1>8. ASSUME NEW r \in here.rows PROVE r.id.n < made'[r.id.tenant] + 4
  <2>1. CASE \E s \in db : r.id = s.id
    <3>1. PICK s \in db : r.id = s.id
          BY <2>1
    <3>2. s.id.n < made[s.id.tenant] + 4 /\ s.id.n \in Nat /\ s.id.tenant \in Tenants
          BY DEF IInv, Counted, Numbered, TypeOK, Rows, Names
    <3>3. made[s.id.tenant] \in Nat
          BY <3>2 DEF IInv, TypeOK
    <3>4. made'[s.id.tenant] \in Nat /\ made'[s.id.tenant] >= made[s.id.tenant]
          BY <1>7, <3>2
    <3> QED
        BY <3>1, <3>2, <3>3, <3>4
  <2>2. CASE r.id.tenant = t /\ r.id.n = n
    <3>1. makes
          BY <2>2 DEF makes
    <3>2. made'[t] = made[t] + 1
          BY <1>1, <1>4, <3>1 DEF IInv, TypeOK
    <3> QED
        BY <1>2, <2>2, <3>2
  <2> QED
      BY <1>5, <2>1, <2>2
<1>9. \A r \in db' : r.id.n < made'[r.id.tenant] + 4
      BY <1>4, <1>8
<1>10. Counted'
       BY <1>9 DEF Counted, Numbered
<1>11. TypeOK'
  <2>1. Own(here.rows) \subseteq here.rows
        BY DEF Own
  <2> QED
      BY <1>4, <1>5, <1>6, <1>7, <2>1 DEF TypeOK, IInv
<1>12. Keyed(db)' /\ alone' = Own(db)'
  <2>1. Keyed(db') /\ alone' = Own(db')
        BY <1>4, <1>5, <1>6
  <2> QED
      BY <2>1 DEF Keyed, Own
<1> QED
    BY <1>10, <1>11, <1>12 DEF IInv

(* A key that expires stays a key.                                         *)
LEMMA ExpiredKeyed ==
  ASSUME NEW rows \in SUBSET Rows, Keyed(rows), NEW k
  PROVE  /\ Expired(rows, k) \in SUBSET Rows /\ Keyed(Expired(rows, k))
         /\ \A r \in Expired(rows, k) : \E s \in rows : r.id = s.id
         /\ Expired(Own(rows), k) = Own(Expired(rows, k))
<1> DEFINE dead(r) == IF r.id = k THEN [r EXCEPT !.on = FALSE] ELSE r
<1>1. Expired(rows, k) = {dead(r) : r \in rows} /\ Expired(Own(rows), k) = {dead(r) : r \in Own(rows)}
      BY DEF Expired
<1>2. \A r \in rows : dead(r) \in Rows /\ dead(r).id = r.id /\ dead(r).user = r.user /\ dead(r).val = r.val
                    /\ dead(r).doc = r.doc
      BY DEF Rows
<1> HIDE DEF dead
<1>3. ASSUME NEW r \in Expired(rows, k), NEW s \in Expired(rows, k), r.id = s.id
      PROVE  r = s
  <2>1. PICK x \in rows : r = dead(x)
        BY <1>1
  <2>2. PICK y \in rows : s = dead(y)
        BY <1>1
  <2>3. x = y
        BY <1>2, <1>3, <2>1, <2>2 DEF Keyed
  <2> QED
      BY <2>1, <2>2, <2>3
<1>4. ASSUME NEW r \in Expired(rows, k)
      PROVE  r \in Rows /\ \E s \in rows : /\ r.id = s.id /\ r.user = s.user /\ r.val = s.val
                                            /\ r.doc = s.doc
      BY <1>1, <1>2
<1>5. ASSUME NEW s \in rows
      PROVE  \E r \in Expired(rows, k) : r.id = s.id
      BY <1>1, <1>2
<1>6. ASSUME NEW r \in Expired(rows, k), r.id.kind = "key"
      PROVE  r.user \in Nat /\ \E s \in Expired(rows, k) : s.id = Id("user", r.id.tenant, r.user)
  <2>1. PICK x \in rows : r.id = x.id /\ r.user = x.user
        BY <1>4
  <2>2. r.user \in Nat /\ \E s \in rows : s.id = Id("user", r.id.tenant, r.user)
        BY <1>6, <2>1 DEF Keyed
  <2> QED
      BY <1>5, <2>2
<1>7. Keyed(Expired(rows, k))
  <2>1. \A r \in Expired(rows, k) : r.id.kind = "user" /\ r.id.n = 2 => r.val = "viewer"
        BY <1>4 DEF Keyed
  <2>2. \A r \in Expired(rows, k) : r.id.kind = "conversation" => r.user \in Nat
        BY <1>4 DEF Keyed
  <2>3. \A r \in Expired(rows, k) : r.id.kind = "skill" => r.doc \in Docs
        BY <1>4 DEF Keyed
  <2> QED
      BY <1>3, <1>6, <2>1, <2>2, <2>3 DEF Keyed
<1>8. Expired(Own(rows), k) = Own(Expired(rows, k))
      BY <1>1, <1>2 DEF Own
<1> QED
    BY <1>4, <1>7, <1>8

(* An expiry keeps the invariant.                                          *)
LEMMA ExpireStep ==
  ASSUME IInv, NEW k \in Keys, Expire(k)
  PROVE  IInv'
<1> DEFINE out == Expired(db, k)
<1>1. db \in SUBSET Rows /\ Keyed(db) /\ alone = Own(db)
      BY DEF IInv, TypeOK
<1>2. db' = out /\ alone' = Expired(Own(db), k) /\ made' = made /\ area' = area /\ held' = held
      BY <1>1 DEF Expire
<1>3. /\ out \in SUBSET Rows /\ Keyed(out) /\ (\A r \in out : \E s \in db : r.id = s.id)
      /\ Expired(Own(db), k) = Own(out)
      BY <1>1, ExpiredKeyed
<1> HIDE DEF out
<1>4. Keyed(db') /\ alone' = Own(db')
      BY <1>2, <1>3
<1>5. \A r \in db' : r.id.n < made'[r.id.tenant] + 4
      BY <1>2, <1>3 DEF IInv, Counted, Numbered
<1>6. TypeOK'
  <2>1. Own(out) \subseteq out
        BY DEF Own
  <2> QED
      BY <1>2, <1>3, <2>1 DEF TypeOK, IInv
<1> QED
    BY <1>4, <1>5, <1>6 DEF IInv, Keyed, Own, Counted, Numbered

(* A row of another kind, with a new number, keeps the rows keyed.         *)
LEMMA AdjoinKeyed ==
  ASSUME NEW rows \in SUBSET Rows, Keyed(rows), NEW t \in Tenants, NEW n \in Nat, NEW new \in Rows,
         new.id.tenant = t, new.id.n = n, new.id.kind \notin {"user", "key", "conversation"},
         new.id.kind = "skill" => new.doc \in Docs,
         \A r \in rows : r.id.tenant = t => r.id.n < n
  PROVE  LET out == rows \cup {new}
         IN  out \in SUBSET Rows /\ Keyed(out)
<1> DEFINE out == rows \cup {new}
<1>3. \A r \in rows : r.id # new.id
      BY DEF Rows, Names
<1>4. \A r, s \in out : r.id = s.id => r = s
      BY <1>3 DEF Keyed
<1>5. ASSUME NEW r \in out, r.id.kind = "key"
      PROVE  r.user \in Nat /\ \E s \in out : s.id = Id("user", r.id.tenant, r.user)
  <2>1. r \in rows
        BY <1>5
  <2> QED
      BY <1>5, <2>1 DEF Keyed
<1>6. \A r \in out : r.id.kind = "user" /\ r.id.n = 2 => r.val = "viewer"
      BY DEF Keyed
<1>7. \A r \in out : r.id.kind = "conversation" => r.user \in Nat
      BY DEF Keyed
<1>8. \A r \in out : r.id.kind = "skill" => r.doc \in Docs
      BY DEF Keyed
<1> QED
    BY <1>4, <1>5, <1>6, <1>7, <1>8 DEF Keyed

(* With one more row of tenant t, the counters are right again.            *)
LEMMA CountedOn ==
  ASSUME IInv, NEW t \in Tenants, made' = [made EXCEPT ![t] = @ + 1], area' = area,
         held' \in Processes, db' \in SUBSET Rows, Keyed(db'), alone' = Own(db'),
         \A r \in db' : (\E s \in db : r.id = s.id) \/ (r.id.tenant = t /\ r.id.n = Numbered(t))
  PROVE  IInv'
<1>1. made \in [Tenants -> Nat] /\ made' \in [Tenants -> Nat] /\ made'[t] = made[t] + 1
      BY DEF IInv, TypeOK
<1>2. \A u \in Tenants : made'[u] >= made[u]
      BY <1>1
<1>3. ASSUME NEW r \in db' PROVE r.id.n < made'[r.id.tenant] + 4
  <2>1. CASE \E s \in db : r.id = s.id
    <3>1. PICK s \in db : r.id = s.id
          BY <2>1
    <3>2. s.id.n < made[s.id.tenant] + 4 /\ s.id.n \in Nat /\ s.id.tenant \in Tenants
          BY DEF IInv, Counted, Numbered, TypeOK, Rows, Names
    <3> QED
        BY <1>1, <1>2, <3>1, <3>2
  <2>2. CASE r.id.tenant = t /\ r.id.n = Numbered(t)
        BY <1>1, <2>2 DEF Numbered
  <2> QED
      BY <1>3, <2>1, <2>2
<1>4. Own(db') \subseteq db'
      BY DEF Own
<1> QED
    BY <1>1, <1>3, <1>4 DEF IInv, TypeOK, Counted, Numbered, Keyed, Own

(* The webhook keeps the invariant.                                        *)
LEMMA WebhookStep ==
  ASSUME IInv, WebhookAlert
  PROVE  IInv'
<1> DEFINE t == DefaultTenant
           n == Numbered(t)
           new == Row(Id("task", t, n), None, "a", TRUE)
           out == db \cup {new}
<1>1. db \in SUBSET Rows /\ Keyed(db) /\ alone = Own(db) /\ t \in Tenants /\ n \in Nat
      /\ \A r \in db : r.id.tenant = t => r.id.n < n
      BY TenantsAssumption DEF IInv, TypeOK, Counted, Numbered
<1>2. /\ db' = out /\ made' = [made EXCEPT ![t] = @ + 1] /\ area' = area
      /\ held' = held /\ held \in Processes
      /\ alone' = IF t = Watched THEN alone \cup {new} ELSE alone
      BY DEF WebhookAlert, IInv, TypeOK
<1>4. new \in Rows /\ new.id.tenant = t /\ new.id.n = n /\ new.id.kind = "task"
      BY <1>1 DEF Row, Id, Rows, Names, Kinds, Values
<1> HIDE DEF new, n, t
<1>3. out \in SUBSET Rows /\ Keyed(out)
      BY <1>1, <1>4, AdjoinKeyed
<1>5. alone' = Own(out)
  <2>1. CASE t = Watched
        BY <1>1, <1>2, <1>4, <2>1 DEF Own
  <2>2. CASE t # Watched
        BY <1>1, <1>2, <1>4, <2>2 DEF Own
  <2> QED
      BY <2>1, <2>2
<1>6. \A r \in out : (\E s \in db : r.id = s.id) \/ (r.id.tenant = t /\ r.id.n = n)
      BY <1>4
<1> QED
    BY <1>1, <1>2, <1>3, <1>5, <1>6, CountedOn DEF n

(* Memories that are superseded stay memories.                             *)
LEMMA OffKeyed ==
  ASSUME NEW rows \in SUBSET Rows, Keyed(rows), NEW part \in SUBSET rows
  PROVE  LET out == (rows \ part) \cup {[r EXCEPT !.on = FALSE] : r \in part}
         IN  /\ out \in SUBSET Rows /\ Keyed(out)
             /\ \A r \in out : \E s \in rows : r.id = s.id
<1> DEFINE off(r) == [r EXCEPT !.on = FALSE]
           out == (rows \ part) \cup {off(r) : r \in part}
<1>1. \A r \in rows : off(r) \in Rows /\ off(r).id = r.id /\ off(r).user = r.user /\ off(r).val = r.val
                    /\ off(r).doc = r.doc
      BY DEF Rows
<1> HIDE DEF off
<1>2. ASSUME NEW r \in out
      PROVE  /\ r \in Rows /\ \E s \in rows : r.id = s.id /\ r.user = s.user /\ r.val = s.val /\ r.doc = s.doc
                                /\ ((r = s /\ s \notin part) \/ (r = off(s) /\ s \in part))
  <2>1. CASE r \in rows \ part
        BY <2>1
  <2>2. CASE r \in {off(x) : x \in part}
    <3>1. PICK x \in part : r = off(x)
          BY <2>2
    <3> QED
        BY <1>1, <3>1
  <2> QED
      BY <1>2, <2>1, <2>2
<1>3. ASSUME NEW r \in out, NEW s \in out, r.id = s.id
      PROVE  r = s
  <2>1. PICK x \in rows : r.id = x.id /\ ((r = x /\ x \notin part) \/ (r = off(x) /\ x \in part))
        BY <1>2
  <2>2. PICK y \in rows : s.id = y.id /\ ((s = y /\ y \notin part) \/ (s = off(y) /\ y \in part))
        BY <1>2
  <2>3. x = y
        BY <1>3, <2>1, <2>2 DEF Keyed
  <2> QED
      BY <2>1, <2>2, <2>3
<1>4. ASSUME NEW s \in rows
      PROVE  \E r \in out : r.id = s.id
      BY <1>1
<1>5. ASSUME NEW r \in out, r.id.kind = "key"
      PROVE  r.user \in Nat /\ \E s \in out : s.id = Id("user", r.id.tenant, r.user)
  <2>1. PICK x \in rows : r.id = x.id /\ r.user = x.user
        BY <1>2
  <2>2. r.user \in Nat /\ \E s \in rows : s.id = Id("user", r.id.tenant, r.user)
        BY <1>5, <2>1 DEF Keyed
  <2> HIDE DEF out
  <2> QED
      BY <1>4, <2>2
<1>6. \A r \in out : r.id.kind = "user" /\ r.id.n = 2 => r.val = "viewer"
      BY <1>2 DEF Keyed
<1>7. \A r \in out : r.id.kind = "conversation" => r.user \in Nat
      BY <1>2 DEF Keyed
<1>10. \A r \in out : r.id.kind = "skill" => r.doc \in Docs
      BY <1>2 DEF Keyed
<1>8. out \in SUBSET Rows /\ \A r \in out : \E s \in rows : r.id = s.id
      BY <1>2
<1> HIDE DEF out
<1>9. Keyed(out)
      BY <1>3, <1>5, <1>6, <1>7, <1>10 DEF Keyed
<1> QED
    BY <1>8, <1>9 DEF out, off

(* A memory keeps the invariant.                                           *)
LEMMA RememberStep ==
  ASSUME IInv, NEW t \in Tenants, NEW user \in {1, 2, None}, NEW name \in {"a", "b"}, Remember(t, user, name)
  PROVE  IInv'
<1> DEFINE n == Numbered(t)
           new == Row(Id("memory", t, n), user, name, TRUE)
           part == Newest({r \in InScope(db, t, user, name) : r.on})
           off == (db \ part) \cup {[r EXCEPT !.on = FALSE] : r \in part}
           out == off \cup {new}
<1>1. db \in SUBSET Rows /\ Keyed(db) /\ alone = Own(db) /\ n \in Nat
      /\ \A r \in db : r.id.tenant = t => r.id.n < n
      BY DEF IInv, TypeOK, Counted, Numbered
<1>2. /\ db' = out /\ made' = [made EXCEPT ![t] = @ + 1] /\ area' = area
      /\ held' = held /\ held \in Processes
      /\ alone' = IF t = Watched THEN Remembered(alone, t, user, name, n) ELSE alone
      BY DEF Remember, Remembered, IInv, TypeOK
<1>3. part \subseteq db /\ \A r \in part : r.id.tenant = t
      BY DEF Newest, InScope
<1>4. off \in SUBSET Rows /\ Keyed(off) /\ \A r \in off : \E s \in db : r.id = s.id
  <2> HIDE DEF part
  <2> QED
      BY <1>1, <1>3, OffKeyed
<1>6. new \in Rows /\ new.id.tenant = t /\ new.id.n = n /\ new.id.kind = "memory"
      BY <1>1 DEF Row, Id, Rows, Names, Kinds, Values
<1>5. out \in SUBSET Rows /\ Keyed(out)
  <2> HIDE DEF n, off, new
  <2>1. \A r \in off : r.id.tenant = t => r.id.n < n
        BY <1>1, <1>4
  <2> QED
      BY <1>1, <1>4, <1>6, <2>1, AdjoinKeyed
<1>7. alone' = Own(out)
  <2>1. ASSUME NEW r \in part PROVE [r EXCEPT !.on = FALSE].id.tenant = t
        BY <1>1, <1>3 DEF Rows
  <2>2. CASE t = Watched
    <3>1. InScope(Own(db), t, user, name) = InScope(db, t, user, name)
          BY <2>2 DEF InScope, Own
    <3>2. Remembered(Own(db), t, user, name, n) =
            (Own(db) \ part) \cup {[r EXCEPT !.on = FALSE] : r \in part} \cup {new}
          BY <3>1 DEF Remembered
    <3> HIDE DEF part, new, n
    <3> QED
        BY <1>1, <1>2, <1>3, <1>6, <2>1, <2>2, <3>2 DEF Own
  <2>3. CASE t # Watched
    <3>1. \A r \in out \ db : r.id.tenant # Watched
          BY <1>6, <2>1, <2>3
    <3>2. \A r \in db \ out : r.id.tenant # Watched
          BY <1>3, <2>3
    <3> HIDE DEF out, part, new, n, off
    <3> QED
        BY <1>1, <1>2, <2>3, <3>1, <3>2 DEF Own
  <2> QED
      BY <2>2, <2>3
<1> HIDE DEF new, off
<1>8. \A r \in out : (\E s \in db : r.id = s.id) \/ (r.id.tenant = t /\ r.id.n = n)
      BY <1>4, <1>6
<1> HIDE DEF out
<1> QED
    BY <1>2, <1>5, <1>7, <1>8, CountedOn

(* Generated code keeps the invariant.                                     *)
LEMMA SynthesizeStep ==
  ASSUME IInv, NEW t \in Tenants, NEW name \in SkillNames, NEW risk \in Risks, Synthesize(t, name, risk)
  PROVE  IInv'
<1> DEFINE n == Numbered(t)
           has == \E r \in db : r.id.kind = "skill" /\ r.id.tenant = t /\ r.val = name
           doc == [tool |-> "code", declares |-> risk, risk |-> risk]
           new == Skill(Id("skill", t, n), None, name, doc)
           out == db \cup {new}
           file == IF has THEN Id("code", t, 0) ELSE new.id
<1>1. /\ db \in SUBSET Rows /\ Keyed(db) /\ alone = Own(db) /\ n \in Nat /\ held \in Processes
      /\ \A r \in db : r.id.tenant = t => r.id.n < n
      BY DEF IInv, TypeOK, Counted, Numbered
<1>2. /\ held' = [held EXCEPT !.files[name] = file] /\ area' = area
      /\ db' = (IF has THEN db ELSE out) /\ made' = [made EXCEPT ![t] = IF has THEN @ ELSE @ + 1]
      /\ alone' = IF has \/ t # Watched THEN alone ELSE alone \cup {new}
      BY DEF Synthesize
<1>3. doc \in Docs
      BY DEF Docs
<1>4. /\ new \in Rows /\ new.id.tenant = t /\ new.id.n = n /\ new.id.kind = "skill" /\ new.doc \in Docs
      /\ Id("code", t, 0) \in Names
  <2> HIDE DEF doc
  <2> QED
      BY <1>1, <1>3 DEF Skill, Id, Rows, Names, Kinds, Values, SkillNames
<1> HIDE DEF doc, new, n
<1>5. held' \in Processes
  <2>1. file \in Names
        BY <1>4 DEF Rows
  <2> HIDE DEF file, has
  <2>2. held' = [registry |-> held.registry, files |-> [held.files EXCEPT ![name] = file],
                 imported |-> held.imported]
        BY <1>1, <1>2 DEF Processes
  <2> QED
      BY <1>1, <2>1, <2>2 DEF Processes
<1>6. CASE has
  <2>1. db' = db /\ alone' = alone /\ made' = [made EXCEPT ![t] = @]
        BY <1>2, <1>6
  <2>2. made' = made
        BY <2>1 DEF IInv, TypeOK
  <2> QED
      BY <1>2, <1>5, <2>1, <2>2 DEF IInv, TypeOK, Keyed, Counted, Numbered, Own
<1>7. CASE ~has
  <2>1. db' = out /\ made' = [made EXCEPT ![t] = @ + 1]
        /\ alone' = IF t # Watched THEN alone ELSE alone \cup {new}
        BY <1>2, <1>7
  <2>2. out \in SUBSET Rows /\ Keyed(out)
        BY <1>1, <1>4, AdjoinKeyed
  <2>3. alone' = Own(out)
    <3>1. CASE t = Watched
          BY <1>1, <1>4, <2>1, <3>1 DEF Own
    <3>2. CASE t # Watched
          BY <1>1, <1>4, <2>1, <3>2 DEF Own
    <3> QED
        BY <3>1, <3>2
  <2>4. \A r \in out : (\E s \in db : r.id = s.id) \/ (r.id.tenant = t /\ r.id.n = n)
        BY <1>4
  <2> QED
      BY <1>2, <1>5, <2>1, <2>2, <2>3, <2>4, CountedOn DEF n
<1> QED
    BY <1>6, <1>7

(* The invariant holds at the start ...                                    *)
LEMMA InvInit ==
  Init => IInv
<1> SUFFICES ASSUME Init PROVE IInv
    OBVIOUS
<1> DEFINE Admin(t) == Row(Id("user", t, 1), 1, "admin", TRUE)
           First(t) == Row(Id("key", t, 1), 1, "all", TRUE)
           Viewer == Row(Id("user", Watched, 2), 2, "viewer", TRUE)
           Second == Row(Id("key", Watched, 2), 2, "all", TRUE)
           Narrow == Row(Id("key", Watched, 3), 1, "reads", TRUE)
<1>a. /\ \A r \in db : (\E t \in Tenants : r \in {Admin(t), First(t)}) \/ r \in {Viewer, Second, Narrow}
      /\ (\A t \in Tenants : Admin(t) \in db) /\ Viewer \in db
      BY DEF Init
<1>b. /\ \A t : /\ Admin(t).id = Id("user", t, 1) /\ Admin(t).user = 1 /\ Admin(t).val = "admin"
                /\ First(t).id = Id("key", t, 1) /\ First(t).user = 1 /\ First(t).val = "all"
                /\ Admin(t).on = TRUE /\ First(t).on = TRUE
      /\ Viewer.id = Id("user", Watched, 2) /\ Viewer.user = 2 /\ Viewer.val = "viewer"
      /\ Second.id = Id("key", Watched, 2) /\ Second.user = 2 /\ Second.val = "all"
      /\ Narrow.id = Id("key", Watched, 3) /\ Narrow.user = 1 /\ Narrow.val = "reads"
      BY DEF Row
<1>t. \A t \in Tenants : Admin(t) \in Rows /\ First(t) \in Rows
      BY DEF Row, Id, Rows, Names, Kinds, Values
<1>w. Viewer \in Rows /\ Second \in Rows /\ Narrow \in Rows
      BY TenantsAssumption DEF Row, Id, Rows, Names, Kinds, Values
<1>c. \A k, t, n : Id(k, t, n).kind = k /\ Id(k, t, n).tenant = t /\ Id(k, t, n).n = n
      BY DEF Id
<1> HIDE DEF Admin, First, Viewer, Second, Narrow
<1>1. ASSUME NEW r \in db
      PROVE  \E t \in Tenants : r \in {Admin(t), First(t)} \/ (t = Watched /\ r \in {Viewer, Second, Narrow})
  <2>1. CASE r \in {Viewer, Second, Narrow}
        BY <2>1, TenantsAssumption
  <2>2. CASE \E t \in Tenants : r \in {Admin(t), First(t)}
        BY <2>2
  <2> QED
      BY <1>1, <1>a, <2>1, <2>2
<1>2. \A r \in db : r \in Rows /\ r.id.n < 4
      BY <1>1, <1>b, <1>c, <1>t, <1>w
<1>3. ASSUME NEW r \in db, NEW s \in db, r.id = s.id
      PROVE  r = s
  <2>1. PICK t \in Tenants : r \in {Admin(t), First(t)} \/ (t = Watched /\ r \in {Viewer, Second, Narrow})
        BY <1>1
  <2>2. PICK u \in Tenants : s \in {Admin(u), First(u)} \/ (u = Watched /\ s \in {Viewer, Second, Narrow})
        BY <1>1
  <2>3. r.id.tenant = t /\ s.id.tenant = u
        BY <2>1, <2>2, <1>b, <1>c
  <2>4. t = u
        BY <1>3, <2>3
  <2> QED
      BY <1>3, <2>1, <2>2, <2>4, <1>b, <1>c
<1>4. ASSUME NEW r \in db, r.id.kind = "key"
      PROVE  r.user \in Nat /\ \E s \in db : s.id = Id("user", r.id.tenant, r.user)
  <2>1. PICK t \in Tenants : r \in {Admin(t), First(t)} \/ (t = Watched /\ r \in {Viewer, Second, Narrow})
        BY <1>1
  <2>2. r.id.tenant = t /\ (r.user = 1 \/ (r.user = 2 /\ t = Watched))
        BY <1>4, <2>1, <1>b, <1>c
  <2>3. Admin(t) \in db /\ Viewer \in db
        BY <1>a
  <2> QED
      BY <2>2, <2>3, <1>b
<1>5. \A r \in db : r.id.kind = "user" /\ r.id.n = 2 => r.val = "viewer"
      BY <1>1, <1>b, <1>c
<1>6. \A r \in db : r.id.kind \notin {"conversation", "skill"}
      BY <1>1, <1>b, <1>c
<1>7. Keyed(db)
      BY <1>3, <1>4, <1>5, <1>6 DEF Keyed
<1>8. /\ area \in Areas /\ made = [t \in Tenants |-> 0] /\ alone = Own(db)
      BY DEF Init, Own
<1>p. held \in Processes
      BY DEF Init, Processes
<1>9. TypeOK
      BY <1>2, <1>8, <1>p DEF TypeOK, Own
<1>10. Counted
       BY <1>2, <1>8 DEF Counted, Numbered, Rows, Names
<1> QED
    BY <1>7, <1>8, <1>9, <1>10 DEF IInv

(* ... and after every step.                                               *)
LEMMA InvNext ==
  IInv /\ [Next]_vars => IInv'
<1> SUFFICES ASSUME IInv, [Next]_vars PROVE IInv'
    OBVIOUS
<1>1. CASE \E q \in Requests : Request(q)
      BY <1>1, RequestStep
<1>2. CASE \E k \in Keys : Expire(k)
      BY <1>2, ExpireStep
<1>3. CASE WebhookAlert
      BY <1>3, WebhookStep
<1>4. CASE \E t \in Tenants, user \in {1, 2, None}, name \in {"a", "b"} : Remember(t, user, name)
      BY <1>4, RememberStep
<1>6. CASE \E t \in Tenants, name \in SkillNames, risk \in Risks : Synthesize(t, name, risk)
      BY <1>6, SynthesizeStep
<1>5. CASE UNCHANGED vars
      BY <1>5 DEF vars, IInv, TypeOK, Keyed, Counted, Numbered, Own
<1> QED
    BY <1>1, <1>2, <1>3, <1>4, <1>5, <1>6 DEF Next

-----------------------------------------------------------------------------

(* The shape of the state holds for any tenants and any bound.             *)
THEOREM TypeCorrect == Spec => []TypeOK
<1>1. IInv => TypeOK
      BY DEF IInv
<1> QED
    BY <1>1, InvInit, InvNext, PTL DEF Spec

(* With the invariant, nothing the watched tenant asks is answered by what *)
(* the others have done.                                                   *)
LEMMA UnseenFromInv ==
  IInv => OthersUnseen
<1> SUFFICES ASSUME IInv, NEW q \in RequestsBy({k \in Keys : k.tenant = Watched})
             PROVE  Observed(db, held, q) = Observed(alone, held, q)
    BY DEF OthersUnseen, OwnRequests
<1>1. q \in Requests /\ q.key.tenant = Watched
  <2>1. PICK route \in Routes : AreaOf(route) = area /\
          q \in [route : {route}, key : {k \in Keys : k.tenant = Watched},
                 target : Targets(route), val : Bodies(route)]
        BY DEF RequestsBy
  <2>2. q \in [route : {route}, key : Keys, target : Targets(route), val : Bodies(route)]
        BY <2>1
  <2> QED
      BY <2>1, <2>2 DEF Requests, RequestsBy
<1> DEFINE n == Numbered(Watched)
<1>2. Asks(q) /\ db \in SUBSET Rows /\ Keyed(db) /\ alone = Own(db) /\ held \in Processes
      BY <1>1, RequestShape DEF IInv, TypeOK
<1>3. n \in Nat
      BY TenantsAssumption DEF IInv, TypeOK, Numbered
<1> HIDE DEF n
<1>4. Answer(Own(db), held, n, q).answer = Answer(db, held, n, q).answer
      BY <1>1, <1>2, <1>3, OwnOutcome
<1> QED
    BY <1>2, <1>4 DEF Observed, n

(* Whatever rows the other tenants make, one process gives a request the   *)
(* status, the rows, the audit entries and the skills it would give if     *)
(* those rows did not exist: the channels of api/routes and of             *)
(* authorize_resource_or_404.                                              *)
THEOREM OtherTenantsAreUnseen == Spec => []OthersUnseen
<1> QED
    BY InvInit, InvNext, UnseenFromInv, PTL DEF Spec

(* A request whose principal may only read goes through without a change,  *)
(* unless it refreshes.                                                    *)
LEMMA ReadsLeaveRows ==
  ASSUME NEW rows \in SUBSET Rows, Keyed(rows), NEW q, Asks(q), NEW n, NEW h, NEW p,
         Allowed(p, q), p.may \subseteq Reads, q.route.op # "refresh"
  PROVE  After(rows, h, p, q, n) = rows /\ q.route.op # "approve"
<1>1. q.route \in Routes /\ q.val \in Values
      BY DEF Asks
<1>2. q.route.op \in {"list", "get", "history", "recall"}
      BY <1>1, RouteShape DEF Allowed
<1> DEFINE found == Reached(rows, p, q)
<1>3. found \in SUBSET Rows /\ found \subseteq rows
      BY ReachedShape
<1>4. Created(h, p, q, n) = {}
      BY <1>2 DEF Created
<1> HIDE DEF found
<1>5. Changed(found, q) = found
      BY <1>1, <1>2, <1>3, ChangedShape
<1> QED
    BY <1>2, <1>3, <1>4, <1>5 DEF After, found

(* Of conversations a user finds, by a list, a read or a message, only his.*)
LEMMA OwnThreads ==
  ASSUME NEW rows \in SUBSET Rows, Keyed(rows), NEW q, Asks(q), NEW p, p.user \in Nat,
         q.route.op # "create", NEW r \in Reached(rows, p, q), r.id.kind = "conversation"
  PROVE  r.user = p.user
<1>1. r \in rows /\ q.route.kind = "conversation" /\ q.route \in Routes
      BY ReachedShape DEF Asks
<1>2. \/ q.route.op = "list" /\ q.route.reach = "threads"
      \/ q.route.op \in {"get", "send"} /\ q.route.reach = "thread"
      BY <1>1, RouteShape
<1>3. Matches(r, p, q)
      BY <1>2 DEF Reached
<1>4. r.user \in Nat /\ r.user # None
      BY <1>1, NoneAssumption DEF Keyed
<1> QED
    BY <1>2, <1>3, <1>4 DEF Matches, OwnThread

(* With the invariant, a request stays within the rights of its key.       *)
LEMMA RightsFromInv ==
  IInv => WithinRights
<1> SUFFICES ASSUME IInv, NEW q \in Requests, Authenticates(db, q.key)
             PROVE  LET p == Principal(db, q.key)
                        out == Answer(db, held, Numbered(p.tenant), q)
                        touched == Diff(db, out.rows)
                        key == CHOOSE r \in db : r.id = q.key
                    IN  /\ (key.val = "reads" \/ key.user = 2) /\ q.route.op # "refresh" =>
                             touched = {} /\ out.held = held
                        /\ \A r \in touched \cup out.answer.shown :
                             r.id.kind = "conversation" => r.user = p.user
    BY DEF WithinRights
<1> DEFINE p == Principal(db, q.key)
           n == Numbered(p.tenant)
           out == Answer(db, held, n, q)
           touched == Diff(db, out.rows)
           key == CHOOSE r \in db : r.id = q.key
           found == Reached(db, p, q)
<1>1. /\ Asks(q) /\ q.key.tenant \in Tenants /\ db \in SUBSET Rows /\ Keyed(db) /\ held \in Processes
      /\ q.key \in Names /\ q.key.kind = "key" /\ q.route \in Routes /\ q.val \in Values
      BY RequestShape DEF IInv, TypeOK, Asks
<1>2. PICK user \in db : /\ user.id = Id("user", q.key.tenant, key.user) /\ key.user \in Nat
                         /\ p.tenant = q.key.tenant /\ p.user = key.user
                         /\ p.may = RolePermissions(user.val) \cap Scope(key.val)
  <2>1. PICK k, user \in db :
           /\ k.user \in Nat /\ k = (CHOOSE r \in db : r.id = q.key)
           /\ user.id = Id("user", q.key.tenant, k.user)
           /\ Principal(db, q.key).tenant = q.key.tenant /\ Principal(db, q.key).user = k.user
           /\ Principal(db, q.key).may = RolePermissions(user.val) \cap Scope(k.val)
        BY <1>1, PrincipalKnown
  <2>2. k = key
        BY <2>1
  <2> HIDE DEF key
  <2> QED
      BY <2>1, <2>2
<1>3. p.user \in Nat /\ n \in Nat
      BY <1>1, <1>2 DEF Numbered, IInv, TypeOK
<1>a. /\ out.rows = RowsAfter(db, held, p, q, n) /\ out.answer = AnswerTo(db, held, p, q)
      /\ out.held = HeldAfter(db, held, p, q)
      BY AnswerShape
<1>4. \/ out.rows = db
      \/ /\ out.rows = After(db, held, p, q, n) /\ Allowed(p, q)
         /\ q.route.op = "submit" => Compiles(held, q.target)
  <2> HIDE DEF p, out
  <2>1. out.rows = db \/ (out.rows = After(db, held, p, q, n) /\ Commits(Outcome(db, held, p, q)))
        BY <1>a DEF RowsAfter
  <2>2. Commits(Outcome(db, held, p, q)) =>
          Allowed(p, q) /\ (q.route.op = "submit" => Compiles(held, q.target))
        BY DEF Outcome, Commits, Status
  <2> QED
      BY <2>1, <2>2
<1>5. out.answer.shown = {} \/ out.answer.shown = Shown(found, q)
  <2> HIDE DEF p, out
  <2> QED
      BY <1>a DEF AnswerTo, found
<1>h. out.held = held \/ (Allowed(p, q) /\ q.route.op = "approve")
  <2> HIDE DEF p, out
  <2> QED
      BY <1>a DEF HeldAfter
<1>6. found \in SUBSET Rows /\ found \subseteq db
      BY <1>1, ReachedShape
<1>7. ASSUME key.val = "reads" \/ key.user = 2, q.route.op # "refresh"
      PROVE  touched = {} /\ out.held = held
  <2>1. p.may \subseteq Reads
    <3>1. CASE key.val = "reads"
          BY <1>2, <3>1 DEF Scope
    <3>2. CASE key.user = 2
      <4>1. user.id.kind = "user" /\ user.id.n = 2
            BY <1>2, <3>2 DEF Id
      <4>2. user.val = "viewer"
            BY <1>1, <4>1 DEF Keyed
      <4> QED
          BY <1>2, <4>2 DEF RolePermissions
    <3> QED
        BY <1>7, <3>1, <3>2
  <2> HIDE DEF n, p, out
  <2>2. out.rows = db /\ out.held = held
        BY <1>1, <1>4, <1>7, <1>h, <2>1, ReadsLeaveRows
  <2> QED
      BY <2>2 DEF Diff
<1>8. ASSUME NEW r \in out.answer.shown, r.id.kind = "conversation"
      PROVE  r.user = p.user
  <2>1. r \in found /\ q.route.op # "create"
        BY <1>5, <1>8 DEF Shown
  <2> HIDE DEF p, out
  <2> QED
      BY <1>1, <1>3, <1>8, <2>1, OwnThreads DEF found
<1>9. ASSUME NEW r \in touched, r.id.kind = "conversation"
      PROVE  r.user = p.user
  <2> DEFINE changed == Changed(found, q)
             new == Created(held, p, q, n)
  <2>1. out.rows = (db \ found) \cup changed \cup new
        BY <1>4, <1>9 DEF Diff, After
  <2> HIDE DEF found, n, p, out
  <2>2. CASE r \in new
    <3>1. q.route.op = "submit" => Compiles(held, q.target)
          BY <1>4, <1>9 DEF Diff
    <3> QED
        BY <1>1, <1>2, <1>3, <1>9, <2>2, <3>1, CreatedShape
  <2>3. CASE r \notin new
    <3>1. r \in found \cup changed /\ changed # found
          BY <1>6, <1>9, <2>1, <2>3 DEF Diff
    <3>2. q.route.op # "create"
          BY <1>1, <1>6, <3>1, ChangedShape
    <3>3. PICK s \in found : r.id = s.id /\ r.user = s.user
          BY <1>1, <1>6, <3>1, ChangedShape
    <3> QED
        BY <1>1, <1>3, <1>9, <3>2, <3>3, OwnThreads DEF found
  <2> QED
      BY <2>2, <2>3
<1> QED
    BY <1>7, <1>8, <1>9

(* "What makes a read-only key genuinely read-only": a key or a viewer     *)
(* that may only read changes no row of any table and publishes nothing, a *)
(* dashboard's refresh apart, and nobody sees or touches the conversation of another user,     *)
(* whatever roles, scopes and routes the requests combine.                 *)
THEOREM RequestsStayWithinRights == Spec => []WithinRights
<1> QED
    BY InvInit, InvNext, RightsFromInv, PTL DEF Spec
=============================================================================
