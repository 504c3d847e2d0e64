--------------------------- MODULE PublicationProofs ---------------------------
(***************************************************************************)
(* Proofs about Publication: what is catalogued or published passed the    *)
(* sandbox, under the gate what runs was compared byte for byte and        *)
(* decided by the tenant's own approver, and what was approved is loaded,  *)
(* for any number of tenants, requests, codes and restarts.                *)
(***************************************************************************)
EXTENDS Publication, TLAPS, SequenceTheorems

-----------------------------------------------------------------------------
(* What the variables hold, the locals of a request and of a synthesis by  *)
(* the await they stand at.                                                *)
Places == {"quarantine", "package", "nowhere"}
RequestLocals ==
  {Idle} \cup
  [pc : {"inserting"}, tenant : Tenants, version : Nat \ {0}, row : Rows] \cup
  [pc : {"registering", "activating"}, tenant : Tenants, version : Nat \ {0}] \cup
  [pc : {"superseding"}, tenant : Tenants, version : Nat \ {0}, rollback : BOOLEAN] \cup
  [pc : {"committing"}, tenant : Tenants, version : Nat \ {0}, rollback : BOOLEAN,
   active : SUBSET Nat, at : Places]
SynthesisLocals ==
  {Idle} \cup [pc : {"asking"}, attempt : Nat] \cup [pc : {"cataloguing"}, code : Codes]

Shapes ==
  /\ required \in BOOLEAN /\ imported \in BOOLEAN
  /\ rows \in [Tenants -> Seq(Rows)]
  /\ quarantine \in Codes \cup {None} /\ package \in Codes \cup {None}
  /\ registry \in Codes \cup Documents \cup {None}
  /\ step \in [Tenants -> Codes \cup Documents \cup {None}]
  /\ request \in [Requests -> RequestLocals]
  /\ synthesis \in [Tenants -> SynthesisLocals]
  /\ passed \subseteq Codes /\ verified \subseteq Codes
  /\ approved \in [Tenants -> SUBSET Nat] /\ restored \in [Tenants -> SUBSET Nat]
  /\ ran \subseteq Tenants \X (Codes \cup Documents)

(* A request that waits to insert holds no generated module; one that has  *)
(* a row in hand holds one that exists.                                    *)
Stage(q) ==
  /\ q.pc = "inserting" =>
       /\ q.row.body \notin Codes /\ q.row.status \in {"pending_approval", "active"}
       /\ q.row.status = "active" => q.row.body \in Documents
  /\ q.pc \in {"registering", "activating", "superseding", "committing"} =>
       q.version \in DOMAIN rows[q.tenant]
  /\ q.pc \in {"registering", "activating"} =>
       rows[q.tenant][q.version].body \in Documents
  /\ q.pc = "committing" => q.active \subseteq DOMAIN rows[q.tenant]

Staged == \A r \in Requests : Stage(request[r])

(* What the synthesis has in hand passed, like every row and file.         *)
Passed ==
  /\ \A t \in Tenants : synthesis[t].pc = "cataloguing" => synthesis[t].code \in passed
  /\ NothingUnvalidated

(* Under the gate code reaches the package, the registry and a step only   *)
(* after its comparison with a row.                                        *)
Catalogued == \E u \in Tenants : SynthesizedRows(u) # {}
Reviewed ==
  /\ verified # {} => Catalogued
  /\ required =>
       /\ package \in verified \cup {None}
       /\ registry \in Codes => registry \in verified
       /\ \A t \in Tenants : step[t] \in Codes => step[t] \in verified
  /\ OnlyReviewedBytes

(* Under the gate a synthesized version is callable, or about to be called *)
(* deprecated, only when the tenant has decided on one.                    *)
Decided(t) == \E v \in approved[t] \cup restored[t] : v \in SynthesizedRows(t)
AboutToDeprecate ==
  required => \A r \in Requests : request[r].pc = "committing" =>
    \A v \in request[r].active \cap SynthesizedRows(request[r].tenant) :
      Decided(request[r].tenant)
DecidedFirst ==
  /\ required => \A t \in Tenants : \A v \in SynthesizedRows(t) :
       rows[t][v].status \in Callable => Decided(t)
  /\ AboutToDeprecate
  /\ OwnTenantDecided

PublicationInv == Shapes /\ Staged /\ Passed /\ Reviewed /\ DecidedFirst

-----------------------------------------------------------------------------
(* The two ways a step changes the catalogue: a row is added at the end of *)
(* a tenant's rows, or rows of a tenant are rewritten and keep their body. *)
Extends(t, row) ==
  /\ row \in Rows
  /\ rows' = [rows EXCEPT ![t] = Append(rows[t], row)]

Rewrites(t, new) ==
  /\ new \in [DOMAIN rows[t] -> Rows]
  /\ \A v \in DOMAIN rows[t] : new[v].body = rows[t][v].body
  /\ rows' = [rows EXCEPT ![t] = new]

RowsGrow ==
  /\ rows' \in [Tenants -> Seq(Rows)]
  /\ \A t \in Tenants : \A v \in DOMAIN rows[t] :
       v \in DOMAIN rows'[t] /\ rows'[t][v].body = rows[t][v].body

(* An added row changes no other.                                          *)
LEMMA Extending ==
  ASSUME rows \in [Tenants -> Seq(Rows)], NEW t \in Tenants, NEW row, Extends(t, row)
  PROVE  /\ RowsGrow
         /\ \A u \in Tenants : \A v \in DOMAIN rows'[u] :
              \/ v \in DOMAIN rows[u] /\ rows'[u][v] = rows[u][v]
              \/ u = t /\ v = Len(rows[t]) + 1 /\ rows'[u][v] = row
         /\ Len(rows[t]) + 1 \in DOMAIN rows'[t]
         /\ rows'[t][Len(rows[t]) + 1] = row
<1> DEFINE s == rows[t]
           n == Append(s, row)
<1>1. s \in Seq(Rows) /\ row \in Rows
  BY DEF Extends
<1>2. n \in Seq(Rows) /\ Len(s) \in Nat /\ DOMAIN s = 1..Len(s)
      /\ DOMAIN n = 1..Len(s) + 1 /\ n[Len(s) + 1] = row
      /\ \A v \in 1..Len(s) : n[v] = s[v]
  BY <1>1
<1>3. rows'[t] = n /\ \A u \in Tenants : u # t => rows'[u] = rows[u]
  BY DEF Extends
<1>4. rows' \in [Tenants -> Seq(Rows)]
  <2> HIDE DEF n
  <2> QED BY <1>2, <1>3 DEF Extends
<1> HIDE DEF n
<1>5. \A u \in Tenants : \A v \in DOMAIN rows[u] : v \in DOMAIN rows'[u] /\ rows'[u][v] = rows[u][v]
  <2> SUFFICES ASSUME NEW u \in Tenants, NEW v \in DOMAIN rows[u]
               PROVE  v \in DOMAIN rows'[u] /\ rows'[u][v] = rows[u][v]
    OBVIOUS
  <2> QED BY <1>2, <1>3
<1>6. \A u \in Tenants : \A v \in DOMAIN rows'[u] :
              \/ v \in DOMAIN rows[u] /\ rows'[u][v] = rows[u][v]
              \/ u = t /\ v = Len(rows[t]) + 1 /\ rows'[u][v] = row
  <2> SUFFICES ASSUME NEW u \in Tenants, NEW v \in DOMAIN rows'[u]
               PROVE  \/ v \in DOMAIN rows[u] /\ rows'[u][v] = rows[u][v]
                      \/ u = t /\ v = Len(rows[t]) + 1 /\ rows'[u][v] = row
    OBVIOUS
  <2>1. CASE u # t
    BY <2>1, <1>3
  <2>2. CASE u = t
    BY <2>2, <1>2, <1>3
  <2> QED BY <2>1, <2>2
<1> QED BY <1>2, <1>3, <1>4, <1>5, <1>6 DEF RowsGrow

(* A rewriting keeps the versions and, of other tenants, everything.       *)
LEMMA Rewriting ==
  ASSUME rows \in [Tenants -> Seq(Rows)], NEW t \in Tenants, NEW new, Rewrites(t, new)
  PROVE  /\ RowsGrow
         /\ \A u \in Tenants : DOMAIN rows'[u] = DOMAIN rows[u]
         /\ rows'[t] = new /\ \A u \in Tenants : u # t => rows'[u] = rows[u]
<1>1. rows[t] \in Seq(Rows) /\ Len(rows[t]) \in Nat /\ DOMAIN rows[t] = 1..Len(rows[t])
  BY LenProperties
<1>2. new \in Seq(Rows)
  BY <1>1, SeqDef DEF Rewrites
<1>3. rows'[t] = new /\ \A u \in Tenants : u # t => rows'[u] = rows[u]
  BY DEF Rewrites
<1>4. rows' \in [Tenants -> Seq(Rows)]
  BY <1>2 DEF Rewrites
<1>5. \A u \in Tenants : DOMAIN rows'[u] = DOMAIN rows[u]
  BY <1>3 DEF Rewrites
<1>6. \A u \in Tenants : \A v \in DOMAIN rows[u] : rows'[u][v].body = rows[u][v].body
  BY <1>3 DEF Rewrites
<1> QED BY <1>3, <1>4, <1>5, <1>6 DEF RowsGrow

-----------------------------------------------------------------------------
(* What a request and a synthesis hold at each await.                      *)
LEMMA Locals ==
  ASSUME Shapes, NEW r \in Requests
  PROVE  /\ request[r].pc = "inserting" => request[r] \in
              [pc : {"inserting"}, tenant : Tenants, version : Nat \ {0}, row : Rows]
         /\ request[r].pc \in {"registering", "activating"} => request[r] \in
              [pc : {"registering", "activating"}, tenant : Tenants, version : Nat \ {0}]
         /\ request[r].pc = "superseding" => request[r] \in
              [pc : {"superseding"}, tenant : Tenants, version : Nat \ {0}, rollback : BOOLEAN]
         /\ request[r].pc = "committing" => request[r] \in
              [pc : {"committing"}, tenant : Tenants, version : Nat \ {0}, rollback : BOOLEAN,
               active : SUBSET Nat, at : Places]
<1> PICK q : q = request[r]
  OBVIOUS
<1>1. q \in RequestLocals
  BY DEF Shapes
<1> QED BY <1>1 DEF RequestLocals, Idle

LEMMA SynthesisLocal ==
  ASSUME Shapes, NEW t \in Tenants
  PROVE  /\ synthesis[t].pc = "asking" => synthesis[t] \in [pc : {"asking"}, attempt : Nat]
         /\ synthesis[t].pc = "cataloguing" =>
              synthesis[t] \in [pc : {"cataloguing"}, code : Codes]
<1> PICK q : q = synthesis[t]
  OBVIOUS
<1>1. q \in SynthesisLocals
  BY DEF Shapes
<1> QED BY <1>1 DEF SynthesisLocals, Idle

(* A catalogued module passed, and waits for approval under the gate.      *)
LEMMA CatalogueRows ==
  ASSUME Shapes, Passed, NEW t \in Tenants, Catalogue(t)
  PROVE  \/ rows' = rows
         \/ \E row : /\ Extends(t, row)
                     /\ row.body \in passed /\ row.status = InitialStatus
<1>1. CASE rows[t] # <<>>
  BY <1>1 DEF Catalogue
<1>2. CASE rows[t] = <<>>
  <2> DEFINE row == NewRow(synthesis[t].code, InitialStatus,
                           IF required THEN "quarantine" ELSE "package")
  <2>1. synthesis[t].code \in Codes /\ synthesis[t].code \in passed
    BY SynthesisLocal DEF Catalogue, Passed
  <2>2. row \in Rows /\ row.body \in passed /\ row.status = InitialStatus
    BY <2>1 DEF NewRow, Rows, Bodies, Statuses, InitialStatus
  <2>3. rows' = [rows EXCEPT ![t] = <<row>>]
    BY <1>2 DEF Catalogue
  <2> HIDE DEF row
  <2>4. <<row>> = Append(rows[t], row)
    BY <1>2
  <2>5. Extends(t, row)
    BY <2>2, <2>3, <2>4 DEF Extends
  <2> QED BY <2>2, <2>5
<1> QED BY <1>1, <1>2

(* An inserted row is a document or a manifest.                            *)
LEMMA InsertRows ==
  ASSUME Shapes, Staged, NEW r \in Requests, Insert(r)
  PROVE  \/ rows' = rows
         \/ /\ Extends(request[r].tenant, request[r].row)
            /\ request[r].tenant \in Tenants
            /\ request[r].row.body \notin Codes
            /\ Synthesized(request[r].row.body) => request[r].row.status = "pending_approval"
            /\ request[r].version = Len(rows[request[r].tenant]) + 1
<1>1. request[r].pc = "inserting"
  BY DEF Insert
<1>2. request[r].tenant \in Tenants /\ request[r].row \in Rows
  BY <1>1, Locals
<1>3. /\ request[r].row.body \notin Codes
      /\ Synthesized(request[r].row.body) => request[r].row.status = "pending_approval"
  BY <1>1, CodesAssumption DEF Staged, Stage, Synthesized
<1> QED BY <1>2, <1>3 DEF Insert, Extends

(* A rejection makes a row uncallable.                                     *)
LEMMA RejectRows ==
  ASSUME Shapes, NEW t \in Tenants, NEW v \in DOMAIN rows[t], Reject(t, v)
  PROVE  \E new : /\ Rewrites(t, new)
                  /\ \A w \in DOMAIN rows[t] :
                       new[w] = rows[t][w] \/ new[w].status = "revoked"
<1> DEFINE new == [rows[t] EXCEPT ![v] = [rows[t][v] EXCEPT !.status = "revoked", !.stamped = TRUE]]
<1>1. rows[t] \in [DOMAIN rows[t] -> Rows]
  BY LenProperties DEF Shapes
<1>2. [rows[t][v] EXCEPT !.status = "revoked", !.stamped = TRUE] \in Rows
  BY <1>1 DEF Rows, Statuses
<1>3. rows' = [rows EXCEPT ![t] = new]
  BY DEF Reject, Shapes
<1>4. new \in [DOMAIN rows[t] -> Rows]
  BY <1>1, <1>2
<1>5. \A w \in DOMAIN rows[t] : /\ new[w].body = rows[t][w].body
                                /\ new[w] = rows[t][w] \/ new[w].status = "revoked"
  BY <1>1 DEF Rows
<1> HIDE DEF new
<1> QED BY <1>3, <1>4, <1>5 DEF Rewrites

(* A commit makes callable its own version and, deprecated, the versions   *)
(* that were active when it read them.                                     *)
LEMMA CommitRows ==
  ASSUME Shapes, Staged, NEW r \in Requests, Commit(r)
  PROVE  /\ request[r].tenant \in Tenants
         /\ request[r].version \in DOMAIN rows[request[r].tenant]
         /\ Rewrites(request[r].tenant, Activated(request[r]))
         /\ \A w \in DOMAIN rows[request[r].tenant] :
              \/ w \in request[r].active \cup {request[r].version}
              \/ Activated(request[r])[w] = rows[request[r].tenant][w]
<1> PICK q : q = request[r]
  OBVIOUS
<1>1. q.pc = "committing"
  BY DEF Commit
<1>2. q \in [pc : {"committing"}, tenant : Tenants, version : Nat \ {0}, rollback : BOOLEAN,
             active : SUBSET Nat, at : Places]
  BY <1>1, Locals
<1>3. q.version \in DOMAIN rows[q.tenant] /\ q.active \subseteq DOMAIN rows[q.tenant]
  BY <1>1 DEF Staged, Stage
<1> PICK s : s = rows[q.tenant]
  OBVIOUS
<1>4. s \in [DOMAIN s -> Rows]
  BY <1>2, LenProperties DEF Shapes
<1>5. \A w \in DOMAIN s :
        /\ Activated(q)[w] \in Rows /\ Activated(q)[w].body = s[w].body
        /\ w \in q.active \cup {q.version} \/ Activated(q)[w] = s[w]
  <2> TAKE w \in DOMAIN s
  <2>1. s[w] \in Rows
    BY <1>4
  <2>2. CASE w = q.version
    BY <1>2, <2>1, <2>2 DEF Activated, Rows, Statuses, Places
  <2>3. CASE w # q.version
    BY <1>2, <2>1, <2>3 DEF Activated, Rows, Statuses
  <2> QED BY <2>2, <2>3
<1>6. Activated(q) \in [DOMAIN s -> Rows]
  BY <1>5 DEF Activated
<1>7. rows' = [rows EXCEPT ![q.tenant] = Activated(q)]
  BY DEF Commit
<1> QED BY <1>2, <1>3, <1>5, <1>6, <1>7 DEF Rewrites

-----------------------------------------------------------------------------
(* Nothing is forgotten: rows keep their version and body, decisions and   *)
(* comparisons stand.                                                      *)
HistoryGrows ==
  /\ required' = required
  /\ passed \subseteq passed' /\ verified \subseteq verified'
  /\ \A t \in Tenants : approved[t] \subseteq approved'[t] /\ restored[t] \subseteq restored'[t]

LEMMA Growth ==
  ASSUME Shapes, Staged, Passed, Next
  PROVE  RowsGrow /\ HistoryGrows
<1> USE DEF HistoryGrows, catalogue, files, process, history
<1>0. ASSUME rows' = rows PROVE RowsGrow
  BY <1>0 DEF RowsGrow, Shapes
<1>1. CASE \E t \in Tenants : StartSynthesis(t) \/ Synthesize(t) \/ Resolve(t) \/ Run(t)
  <2> PICK t \in Tenants : StartSynthesis(t) \/ Synthesize(t) \/ Resolve(t) \/ Run(t)
    BY <1>1
  <2>1. CASE Catalogue(t)
    <3>1. RowsGrow
      BY <2>1, <1>0, CatalogueRows, Extending DEF Shapes
    <3> QED BY <3>1, <2>1 DEF Catalogue
  <2>2. CASE ~Catalogue(t)
    <3>1. rows' = rows /\ HistoryGrows
      BY <2>2 DEF StartSynthesis, Synthesize, FailedAttempt, SandboxViolation, Validated,
                  Resolve, Run
    <3> QED BY <3>1, <1>0
  <2> QED BY <2>1, <2>2
<1>2. CASE \E t \in Tenants : \E v \in DOMAIN rows[t] : Reject(t, v)
  <2> PICK t \in Tenants : \E v \in DOMAIN rows[t] : Reject(t, v)
    BY <1>2
  <2> PICK v \in DOMAIN rows[t] : Reject(t, v)
    OBVIOUS
  <2>1. RowsGrow
    BY RejectRows, Rewriting DEF Shapes
  <2> QED BY <2>1 DEF Reject
<1>3. CASE \E r \in Requests, t \in Tenants :
             \/ \E d \in Documents : Submit(r, t, d)
             \/ \E m \in Manifests : Propose(r, t, m)
             \/ \E v \in DOMAIN rows[t] : Approve(r, t, v) \/ Rollback(r, t, v)
  <2>1. rows' = rows /\ HistoryGrows
    BY <1>3 DEF Submit, Propose, Approve, Rollback
  <2> QED BY <2>1, <1>0
<1>4. CASE \E r \in Requests : Proceed(r)
  <2> PICK r \in Requests : Proceed(r)
    BY <1>4
  <2>1. CASE Insert(r)
    <3>1. RowsGrow
      BY <2>1, <1>0, InsertRows, Extending DEF Shapes
    <3> QED BY <3>1, <2>1 DEF Insert
  <2>2. CASE Commit(r)
    <3>1. RowsGrow
      BY <2>2, CommitRows, Rewriting DEF Shapes
    <3>2. HistoryGrows
      BY <2>2 DEF Commit, Shapes
    <3> QED BY <3>1, <3>2
  <2>3. CASE RegisterProcedure(r) \/ Supersede(r) \/ CommitFails(r) \/ ActivateProcedure(r)
    <3>1. rows' = rows /\ HistoryGrows
      BY <2>3 DEF RegisterProcedure, Supersede, CommitFails, ActivateProcedure
    <3> QED BY <3>1, <1>0
  <2> QED BY <2>1, <2>2, <2>3 DEF Proceed
<1>5. CASE Restart
  <2>1. rows' = rows /\ HistoryGrows
    BY <1>5 DEF Restart
  <2> QED BY <2>1, <1>0
<1> QED BY <1>1, <1>2, <1>3, <1>4, <1>5 DEF Next

(* So a generated row stays one, and a tenant that decided has decided.    *)
LEMMA StillDecided ==
  ASSUME RowsGrow, HistoryGrows
  PROVE  /\ \A t \in Tenants : SynthesizedRows(t) \subseteq SynthesizedRows(t)'
         /\ Catalogued => Catalogued'
         /\ \A t \in Tenants : Decided(t) => Decided(t)'
<1>1. \A t \in Tenants : SynthesizedRows(t) \subseteq SynthesizedRows(t)'
  BY DEF RowsGrow, SynthesizedRows, Synthesized
<1>2. Catalogued => Catalogued'
  BY <1>1 DEF Catalogued
<1>3. \A t \in Tenants : Decided(t) => Decided(t)'
  BY <1>1 DEF HistoryGrows, Decided
<1> QED BY <1>1, <1>2, <1>3

-----------------------------------------------------------------------------
(* The process and the files.                                              *)
FilesShaped ==
  /\ imported \in BOOLEAN
  /\ quarantine \in Codes \cup {None} /\ package \in Codes \cup {None}
  /\ registry \in Codes \cup Documents \cup {None}

LEMMA FilesStep ==
  ASSUME Shapes, Staged, Next
  PROVE  FilesShaped'
<1> USE DEF FilesShaped, Shapes, catalogue, files, process, history
<1>1. ASSUME NEW r \in Requests, RegisterProcedure(r) PROVE FilesShaped'
  <2>1. rows[request[r].tenant][request[r].version].body \in Documents
    BY <1>1 DEF RegisterProcedure, Staged, Stage
  <2> QED BY <1>1, <2>1 DEF RegisterProcedure
<1>2. ASSUME NEW r \in Requests, ActivateProcedure(r) PROVE FilesShaped'
  <2>1. rows[request[r].tenant][request[r].version].body \in Documents
    BY <1>2 DEF ActivateProcedure, Staged, Stage
  <2> QED BY <1>2, <2>1 DEF ActivateProcedure
<1>3. ASSUME NEW r \in Requests, Supersede(r) PROVE FilesShaped'
  BY <1>3 DEF Supersede, Import, ImportRaises
<1>4. ASSUME NEW t \in Tenants, NEW c \in Codes, Validated(t, c) PROVE FilesShaped'
  BY <1>4 DEF Validated, Import, ImportRaises
<1>5. CASE Restart
  BY <1>5 DEF Restart
<1>6. ASSUME NEW r \in Requests, Insert(r) \/ Commit(r) \/ CommitFails(r) PROVE FilesShaped'
  BY <1>6 DEF Insert, Commit, CommitFails
<1>7. ASSUME NEW t \in Tenants, NEW r \in Requests, NEW d, NEW v,
             \/ Submit(r, t, d) \/ Propose(r, t, d) \/ Approve(r, t, v) \/ Rollback(r, t, v)
      PROVE  FilesShaped'
  BY <1>7 DEF Submit, Propose, Approve, Rollback
<1>8. ASSUME NEW t \in Tenants, NEW v,
             \/ StartSynthesis(t) \/ FailedAttempt(t) \/ SandboxViolation(t) \/ Catalogue(t)
             \/ Resolve(t) \/ Run(t) \/ Reject(t, v)
      PROVE  FilesShaped'
  BY <1>8 DEF StartSynthesis, FailedAttempt, SandboxViolation, Catalogue, Resolve, Run, Reject
<1> QED BY <1>1, <1>2, <1>3, <1>4, <1>5, <1>6, <1>7, <1>8 DEF Next, Proceed, Synthesize

(* The requests, and what each has in hand.                                *)
RequestsWaiting == request \in [Requests -> RequestLocals] /\ Staged

(* A row in hand stays in hand while the catalogue grows.                  *)
LEMMA StageStands ==
  ASSUME Shapes, Staged, RowsGrow, NEW r \in Requests
  PROVE  Stage(request[r])'  \/ request'[r] # request[r]
<1> SUFFICES ASSUME request'[r] = request[r]
             PROVE  Stage(request[r])'
  OBVIOUS
<1> PICK q : q = request[r]
  OBVIOUS
<1>1. Stage(q)
  BY DEF Staged
<1>2. q.pc \in {"registering", "activating", "superseding", "committing"} => q.tenant \in Tenants
  BY Locals
<1>3. q.pc \in {"registering", "activating", "superseding", "committing"} =>
        q.version \in DOMAIN rows'[q.tenant]
        /\ rows'[q.tenant][q.version].body = rows[q.tenant][q.version].body
  BY <1>1, <1>2 DEF Stage, RowsGrow
<1>4. q.pc = "committing" => q.active \subseteq DOMAIN rows'[q.tenant]
  BY <1>1, <1>2 DEF Stage, RowsGrow
<1>5. /\ q.pc = "inserting" =>
           /\ q.row.body \notin Codes /\ q.row.status \in {"pending_approval", "active"}
           /\ q.row.status = "active" => q.row.body \in Documents
      /\ q.pc \in {"registering", "activating"} => rows'[q.tenant][q.version].body \in Documents
  BY <1>1, <1>3 DEF Stage
<1> QED BY <1>3, <1>4, <1>5 DEF Stage

(* A step that changes one request at most.                                *)
LEMMA OneRequest ==
  ASSUME Shapes, Staged, RowsGrow, NEW r \in Requests, NEW new,
         request' = [request EXCEPT ![r] = new], new \in RequestLocals,
         Stage(request[r])'
  PROVE  RequestsWaiting'
<1>1. request' \in [Requests -> RequestLocals]
  BY DEF Shapes
<1>2. \A s \in Requests : Stage(request[s])'
  <2> TAKE s \in Requests
  <2>1. CASE s = r
    BY <2>1
  <2>2. CASE s # r
    <3>1. request'[s] = request[s]
      BY <2>2 DEF Shapes
    <3> QED BY <3>1, StageStands
  <2> QED BY <2>1, <2>2
<1> QED BY <1>1, <1>2 DEF RequestsWaiting, Staged

(* An answered request holds nothing.                                      *)
LEMMA Answered ==
  ASSUME Shapes, Staged, RowsGrow, NEW r \in Requests, Answer(r)
  PROVE  RequestsWaiting'
<1>1. request'[r] = Idle /\ Idle \in RequestLocals
  BY DEF Answer, Shapes, RequestLocals
<1>2. Stage(request[r])'
  BY <1>1 DEF Stage, Idle
<1> QED BY <1>1, <1>2, OneRequest DEF Answer

LEMMA UntouchedRequests ==
  ASSUME Shapes, Staged, RowsGrow, request' = request
  PROVE  RequestsWaiting'
BY StageStands DEF Shapes, RequestsWaiting, Staged

LEMMA AskedRequests ==
  ASSUME Shapes, Staged, RowsGrow, NEW r \in Requests, NEW t \in Tenants,
         \/ \E d \in Documents : Submit(r, t, d)
         \/ \E m \in Manifests : Propose(r, t, m)
         \/ \E v \in DOMAIN rows[t] : Approve(r, t, v) \/ Rollback(r, t, v)
  PROVE  RequestsWaiting'
<1>1. Len(rows[t]) \in Nat /\ DOMAIN rows[t] = 1..Len(rows[t])
  BY LenProperties DEF Shapes
<1>2. ASSUME NEW d \in Documents, Submit(r, t, d) PROVE RequestsWaiting'
  <2> PICK new : new = [pc |-> "inserting", tenant |-> t, version |-> Len(rows[t]) + 1,
                        row |-> NewRow(d, InitialStatus, "nowhere")]
    OBVIOUS
  <2>1. NewRow(d, InitialStatus, "nowhere") \in Rows
    BY DEF NewRow, Rows, Bodies, Statuses, InitialStatus
  <2>2. new \in RequestLocals
    BY <1>1, <2>1 DEF RequestLocals
  <2>3. request' = [request EXCEPT ![r] = new]
    BY <1>2 DEF Submit, Ask
  <2>4. request'[r] = new
    BY <2>3 DEF Shapes
  <2>5. Stage(new)'
    BY CodesAssumption DEF Stage, NewRow, InitialStatus
  <2> QED BY <2>2, <2>3, <2>4, <2>5, OneRequest
<1>3. ASSUME NEW m \in Manifests, Propose(r, t, m) PROVE RequestsWaiting'
  <2> PICK new : new = [pc |-> "inserting", tenant |-> t, version |-> Len(rows[t]) + 1,
                        row |-> NewRow(m, "pending_approval", "nowhere")]
    OBVIOUS
  <2>1. NewRow(m, "pending_approval", "nowhere") \in Rows
    BY DEF NewRow, Rows, Bodies, Statuses
  <2>2. new \in RequestLocals
    BY <1>1, <2>1 DEF RequestLocals
  <2>3. request' = [request EXCEPT ![r] = new]
    BY <1>3 DEF Propose, Ask
  <2>4. request'[r] = new
    BY <2>3 DEF Shapes
  <2>5. Stage(new)'
    BY CodesAssumption DEF Stage, NewRow
  <2> QED BY <2>2, <2>3, <2>4, <2>5, OneRequest
<1>4. ASSUME NEW v \in DOMAIN rows[t], Approve(r, t, v) \/ Rollback(r, t, v) PROVE RequestsWaiting'
  <2>1. PICK b \in BOOLEAN : request' = [request EXCEPT ![r] =
             [pc |-> "superseding", tenant |-> t, version |-> v, rollback |-> b]]
    BY <1>4 DEF Approve, Rollback, Ask
  <2> DEFINE new == [pc |-> "superseding", tenant |-> t, version |-> v, rollback |-> b]
  <2>2. new \in RequestLocals
    BY <1>1 DEF RequestLocals
  <2>3. request'[r] = new
    BY <2>1 DEF Shapes
  <2>4. v \in DOMAIN rows'[t]
    BY DEF RowsGrow
  <2>5. Stage(new)'
    BY <2>4 DEF Stage
  <2> HIDE DEF new
  <2> QED BY <2>1, <2>2, <2>3, <2>5, OneRequest DEF new
<1> QED BY <1>2, <1>3, <1>4

LEMMA ProceedingRequests ==
  ASSUME Shapes, Staged, RowsGrow, NEW r \in Requests, Proceed(r)
  PROVE  RequestsWaiting'
<1> PICK q : q = request[r]
  OBVIOUS
<1>1. CASE RegisterProcedure(r) \/ CommitFails(r) \/ ActivateProcedure(r)
  BY <1>1, Answered DEF RegisterProcedure, CommitFails, ActivateProcedure
<1>2. CASE Insert(r)
  <2>1. CASE q.version # Len(rows[q.tenant]) + 1
    BY <1>2, <2>1, Answered DEF Insert
  <2>2. CASE q.version = Len(rows[q.tenant]) + 1 /\ q.row.status # "active"
    <3>1. Answer(r)
      BY <1>2, <2>2 DEF Insert, Answer
    <3> QED BY <3>1, Answered
  <2>3. CASE q.version = Len(rows[q.tenant]) + 1 /\ q.row.status = "active"
    <3> DEFINE new == [pc |-> "registering", tenant |-> q.tenant, version |-> q.version]
    <3>1. q.pc = "inserting" /\ q.row.body \in Documents
      BY <1>2, <2>3 DEF Insert, Staged, Stage
    <3>2. q.tenant \in Tenants /\ q.version \in Nat \ {0}
      BY <3>1, Locals
    <3>3. request' = [request EXCEPT ![r] = new]
          /\ rows' = [rows EXCEPT ![q.tenant] = Append(rows[q.tenant], q.row)]
      BY <1>2, <2>3 DEF Insert
    <3>4. Extends(q.tenant, q.row)
      BY <3>1, <3>3, Locals DEF Extends
    <3>5. q.version \in DOMAIN rows'[q.tenant] /\ rows'[q.tenant][q.version] = q.row
      BY <2>3, <3>2, <3>4, Extending DEF Shapes
    <3>6. new \in RequestLocals
      BY <3>2 DEF RequestLocals
    <3>7. request'[r] = new
      BY <3>3 DEF Shapes
    <3>8. Stage(new)'
      BY <3>1, <3>5 DEF Stage
    <3> HIDE DEF new
    <3> QED BY <3>3, <3>6, <3>7, <3>8, OneRequest
  <2> QED BY <2>1, <2>2, <2>3
<1>3. CASE Supersede(r)
  <2> DEFINE place == IF ~q.rollback /\ rows[q.tenant][q.version].at = "quarantine"
                         /\ quarantine # None
                      THEN "package" ELSE rows[q.tenant][q.version].at
             new == [pc |-> "committing", tenant |-> q.tenant, version |-> q.version,
                     rollback |-> q.rollback, active |-> Active(q.tenant), at |-> place]
  <2>1. CASE Answer(r)
    BY <2>1, Answered
  <2>2. CASE ~Answer(r)
    <3>1. request' = [request EXCEPT ![r] = new]
      BY <1>3, <2>2 DEF Supersede, Answer
    <3>2. q.pc = "superseding"
      BY <1>3 DEF Supersede
    <3>3. q.tenant \in Tenants /\ q.version \in Nat \ {0} /\ q.rollback \in BOOLEAN
          /\ q.version \in DOMAIN rows[q.tenant]
      BY <3>2, Locals DEF Staged, Stage
    <3>4. rows[q.tenant] \in Seq(Rows) /\ DOMAIN rows[q.tenant] = 1..Len(rows[q.tenant])
          /\ Len(rows[q.tenant]) \in Nat
      BY <3>3, LenProperties DEF Shapes
    <3>5. place \in Places
      <4>1. rows[q.tenant][q.version] \in Rows
        BY <3>3, <3>4, ElementOfSeq
      <4>2. rows[q.tenant][q.version].at \in Places
        BY <4>1 DEF Rows, Places
      <4> QED BY <4>2 DEF Places
    <3>6. Active(q.tenant) \in SUBSET Nat /\ Active(q.tenant) \subseteq DOMAIN rows'[q.tenant]
          /\ q.version \in DOMAIN rows'[q.tenant]
      BY <3>3, <3>4 DEF Active, RowsGrow
    <3>7. new \in RequestLocals
      <4> HIDE DEF place
      <4> QED BY <3>3, <3>5, <3>6 DEF RequestLocals
    <3>8. request'[r] = new
      BY <3>1 DEF Shapes
    <3>9. Stage(request[r])'
      <4> HIDE DEF place
      <4> PICK a : a = Active(q.tenant)
        OBVIOUS
      <4> QED BY <3>6, <3>8 DEF Stage
    <3> HIDE DEF new
    <3> QED BY <3>1, <3>7, <3>9, OneRequest
  <2> QED BY <2>1, <2>2
<1>4. CASE Commit(r)
  <2>1. CASE Answer(r)
    BY <2>1, Answered
  <2>2. CASE ~Answer(r)
    <3> DEFINE new == [pc |-> "activating", tenant |-> q.tenant, version |-> q.version]
    <3>1. request' = [request EXCEPT ![r] = new] /\ rows[q.tenant][q.version].body \in Documents
      BY <1>4, <2>2 DEF Commit, Answer
    <3>2. q.pc = "committing"
      BY <1>4 DEF Commit
    <3>3. q.tenant \in Tenants /\ q.version \in Nat \ {0}
          /\ q.version \in DOMAIN rows[q.tenant]
      BY <3>2, Locals DEF Staged, Stage
    <3>4. q.version \in DOMAIN rows'[q.tenant] /\ rows'[q.tenant][q.version].body \in Documents
      BY <3>1, <3>3 DEF RowsGrow
    <3>5. new \in RequestLocals
      BY <3>3 DEF RequestLocals
    <3>6. request'[r] = new
      BY <3>1 DEF Shapes
    <3>7. Stage(new)'
      BY <3>4 DEF Stage
    <3> HIDE DEF new
    <3> QED BY <3>1, <3>5, <3>6, <3>7, OneRequest
  <2> QED BY <2>1, <2>2
<1> QED BY <1>1, <1>2, <1>3, <1>4 DEF Proceed

LEMMA RequestsStep ==
  ASSUME Shapes, Staged, RowsGrow, Next
  PROVE  RequestsWaiting'
<1>1. ASSUME NEW t \in Tenants, NEW v,
             \/ StartSynthesis(t) \/ Synthesize(t) \/ Resolve(t) \/ Run(t) \/ Reject(t, v)
      PROVE  request' = request
  BY <1>1 DEF StartSynthesis, Synthesize, FailedAttempt, SandboxViolation, Validated,
              Catalogue, Resolve, Run, Reject
<1>2. CASE Restart
  <2>1. request' = [r \in Requests |-> Idle]
    BY <1>2 DEF Restart
  <2>2. \A r \in Requests : Stage(request[r])'
    BY <2>1 DEF Stage, Idle
  <2> QED BY <2>1, <2>2 DEF RequestsWaiting, Staged, RequestLocals
<1> QED BY <1>1, <1>2, UntouchedRequests, AskedRequests, ProceedingRequests DEF Next

-----------------------------------------------------------------------------
(* The synthesis, the step in hand and the histories.                      *)
RestShaped ==
  /\ required \in BOOLEAN
  /\ step \in [Tenants -> Codes \cup Documents \cup {None}]
  /\ synthesis \in [Tenants -> SynthesisLocals]
  /\ passed \subseteq Codes /\ verified \subseteq Codes
  /\ approved \in [Tenants -> SUBSET Nat] /\ restored \in [Tenants -> SUBSET Nat]
  /\ ran \subseteq Tenants \X (Codes \cup Documents)

LEMMA RestStep ==
  ASSUME Shapes, Staged, Next
  PROVE  RestShaped'
<1> USE DEF RestShaped, Shapes, catalogue, files, process, history
<1>1. ASSUME NEW t \in Tenants, StartSynthesis(t) PROVE RestShaped'
  BY <1>1 DEF StartSynthesis, SynthesisLocals
<1>2. ASSUME NEW t \in Tenants, FailedAttempt(t) PROVE RestShaped'
  <2>1. synthesis[t] \in [pc : {"asking"}, attempt : Nat]
    BY <1>2, SynthesisLocal DEF FailedAttempt
  <2>2. [pc |-> "asking", attempt |-> synthesis[t].attempt + 1] \in SynthesisLocals
    BY <2>1 DEF SynthesisLocals
  <2>3. synthesis' \in [Tenants -> SynthesisLocals]
    BY <1>2, <2>2 DEF FailedAttempt, SynthesisLocals
  <2> QED BY <1>2, <2>3 DEF FailedAttempt
<1>3. ASSUME NEW t \in Tenants, SandboxViolation(t) \/ Catalogue(t) PROVE RestShaped'
  BY <1>3 DEF SandboxViolation, Catalogue, SynthesisLocals
<1>4. ASSUME NEW t \in Tenants, NEW c \in Codes, Validated(t, c) PROVE RestShaped'
  <2>1. [pc |-> "cataloguing", code |-> c] \in SynthesisLocals /\ Idle \in SynthesisLocals
    BY DEF SynthesisLocals
  <2> QED BY <1>4, <2>1 DEF Validated
<1>5. ASSUME NEW t \in Tenants, Resolve(t) PROVE RestShaped'
  BY <1>5 DEF Resolve
<1>6. ASSUME NEW t \in Tenants, Run(t) PROVE RestShaped'
  BY <1>6, CodesAssumption DEF Run
<1>7. ASSUME NEW r \in Requests, Commit(r) PROVE RestShaped'
  <2> PICK q : q = request[r]
    OBVIOUS
  <2>1. q.version \in Nat /\ q.tenant \in Tenants
    BY <1>7, Locals DEF Commit
  <2>2. /\ approved' = [approved EXCEPT ![q.tenant] = approved[q.tenant] \cup {q.version}]
           \/ approved' = approved
        /\ restored' = [restored EXCEPT ![q.tenant] = restored[q.tenant] \cup {q.version}]
           \/ restored' = restored
    <3>1. CASE q.rollback
      BY <1>7, <3>1 DEF Commit
    <3>2. CASE ~q.rollback
      BY <1>7, <3>2 DEF Commit
    <3> QED BY <3>1, <3>2
  <2>3. approved' \in [Tenants -> SUBSET Nat] /\ restored' \in [Tenants -> SUBSET Nat]
    <3>1. approved[q.tenant] \cup {q.version} \in SUBSET Nat
          /\ restored[q.tenant] \cup {q.version} \in SUBSET Nat
      BY <2>1
    <3> QED BY <2>2, <3>1
  <2> QED BY <1>7, <2>3 DEF Commit
<1>8. ASSUME NEW r \in Requests, Supersede(r) PROVE RestShaped'
  BY <1>8 DEF Supersede, HashMatches
<1>9. ASSUME NEW r \in Requests,
             Insert(r) \/ RegisterProcedure(r) \/ CommitFails(r) \/ ActivateProcedure(r)
      PROVE  RestShaped'
  BY <1>9 DEF Insert, RegisterProcedure, CommitFails, ActivateProcedure
<1>10. ASSUME NEW t \in Tenants, NEW r \in Requests, NEW d, NEW v,
              \/ Submit(r, t, d) \/ Propose(r, t, d) \/ Approve(r, t, v) \/ Rollback(r, t, v)
       PROVE  RestShaped'
  BY <1>10 DEF Submit, Propose, Approve, Rollback
<1>12. ASSUME NEW t \in Tenants, NEW v, Reject(t, v) PROVE RestShaped'
  BY <1>12 DEF Reject
<1>11. CASE Restart
  BY <1>11 DEF Restart, SynthesisLocals
<1> QED BY <1>1, <1>2, <1>3, <1>4, <1>5, <1>6, <1>7, <1>8, <1>9, <1>10, <1>11, <1>12
        DEF Next, Proceed, Synthesize

LEMMA ShapesStep ==
  ASSUME Shapes, Staged, Passed, Next
  PROVE  Shapes' /\ Staged'
BY Growth, FilesStep, RequestsStep, RestStep
   DEF Shapes, RowsGrow, FilesShaped, RequestsWaiting, RestShaped

-----------------------------------------------------------------------------
(* Where a synthesized row of the next state comes from: it stays, it was  *)
(* catalogued, proposed or rejected, or a commit wrote it.                 *)
LEMMA SynthesizedStep ==
  ASSUME Shapes, Staged, Passed, Next, NEW u \in Tenants, NEW v \in SynthesizedRows(u)'
  PROVE  \/ v \in SynthesizedRows(u) /\ rows'[u][v] = rows[u][v]
         \/ rows'[u][v].body \in passed /\ rows'[u][v].status = InitialStatus
         \/ rows'[u][v].body \notin Codes /\ rows'[u][v].status = "pending_approval"
         \/ /\ v \in SynthesizedRows(u) /\ rows'[u][v].body = rows[u][v].body
            /\ \/ rows'[u][v].status = "revoked"
               \/ \E r \in Requests : /\ Commit(r) /\ u = request[r].tenant
                                      /\ v \in request[r].active \cup {request[r].version}
<1> USE DEF SynthesizedRows, Synthesized
<1>0. ASSUME rows' = rows PROVE v \in SynthesizedRows(u) /\ rows'[u][v] = rows[u][v]
  BY <1>0
<1>1. ASSUME NEW t \in Tenants, Catalogue(t)
      PROVE  \/ v \in SynthesizedRows(u) /\ rows'[u][v] = rows[u][v]
             \/ rows'[u][v].body \in passed /\ rows'[u][v].status = InitialStatus
  <2>1. CASE rows' = rows
    BY <1>0, <2>1
  <2>2. CASE rows' # rows
    <3>1. PICK row : Extends(t, row) /\ row.body \in passed /\ row.status = InitialStatus
      BY <1>1, <2>2, CatalogueRows
    <3>2. (v \in DOMAIN rows[u] /\ rows'[u][v] = rows[u][v]) \/ rows'[u][v] = row
      BY <3>1, Extending DEF Shapes
    <3> QED BY <3>1, <3>2
  <2> QED BY <2>1, <2>2
<1>2. ASSUME NEW r \in Requests, Insert(r)
      PROVE  \/ v \in SynthesizedRows(u) /\ rows'[u][v] = rows[u][v]
             \/ rows'[u][v].body \notin Codes /\ rows'[u][v].status = "pending_approval"
  <2>1. CASE rows' = rows
    BY <1>0, <2>1
  <2>2. CASE rows' # rows
    <3>1. /\ Extends(request[r].tenant, request[r].row)
          /\ request[r].tenant \in Tenants
          /\ request[r].row.body \notin Codes
          /\ Synthesized(request[r].row.body) => request[r].row.status = "pending_approval"
      BY <1>2, <2>2, InsertRows
    <3>2. (v \in DOMAIN rows[u] /\ rows'[u][v] = rows[u][v]) \/ rows'[u][v] = request[r].row
      BY <3>1, Extending DEF Shapes
    <3> QED BY <3>1, <3>2
  <2> QED BY <2>1, <2>2
<1>3. ASSUME NEW t \in Tenants, NEW w \in DOMAIN rows[t], Reject(t, w)
      PROVE  /\ v \in SynthesizedRows(u) /\ rows'[u][v].body = rows[u][v].body
             /\ rows'[u][v] = rows[u][v] \/ rows'[u][v].status = "revoked"
  <2>1. PICK new : /\ Rewrites(t, new)
                   /\ \A x \in DOMAIN rows[t] :
                        new[x] = rows[t][x] \/ new[x].status = "revoked"
    BY <1>3, RejectRows
  <2>2. /\ RowsGrow /\ v \in DOMAIN rows[u]
        /\ rows'[t] = new /\ (u # t => rows'[u] = rows[u])
    BY <2>1, Rewriting DEF Shapes
  <2>3. rows'[u][v].body = rows[u][v].body
    BY <2>2 DEF RowsGrow
  <2> QED BY <2>1, <2>2, <2>3
<1>4. ASSUME NEW r \in Requests, Commit(r)
      PROVE  /\ v \in SynthesizedRows(u) /\ rows'[u][v].body = rows[u][v].body
             /\ \/ rows'[u][v] = rows[u][v]
                \/ u = request[r].tenant /\ v \in request[r].active \cup {request[r].version}
  <2> DEFINE t == request[r].tenant
             new == Activated(request[r])
  <2>1. /\ t \in Tenants /\ Rewrites(t, new)
        /\ \A w \in DOMAIN rows[t] :
             w \in request[r].active \cup {request[r].version} \/ new[w] = rows[t][w]
    BY <1>4, CommitRows
  <2> HIDE DEF new
  <2>2. /\ RowsGrow /\ v \in DOMAIN rows[u]
        /\ rows'[t] = new /\ (u # t => rows'[u] = rows[u])
    BY <2>1, Rewriting DEF Shapes
  <2>3. rows'[u][v].body = rows[u][v].body
    BY <2>2 DEF RowsGrow
  <2> QED BY <2>1, <2>2, <2>3
<1>5. ASSUME NEW t \in Tenants, NEW r \in Requests, NEW d, NEW w,
             \/ Submit(r, t, d) \/ Propose(r, t, d) \/ Approve(r, t, w) \/ Rollback(r, t, w)
      PROVE  rows' = rows
  BY <1>5 DEF Submit, Propose, Approve, Rollback, catalogue
<1>6. ASSUME NEW t \in Tenants, StartSynthesis(t) \/ Synthesize(t) \/ Resolve(t) \/ Run(t)
      PROVE  rows' = rows \/ Catalogue(t)
  BY <1>6 DEF StartSynthesis, Synthesize, FailedAttempt, SandboxViolation, Validated,
              Resolve, Run, catalogue
<1>7. ASSUME NEW r \in Requests, Proceed(r)
      PROVE  rows' = rows \/ Insert(r) \/ Commit(r)
  BY <1>7 DEF Proceed, RegisterProcedure, Supersede, CommitFails, ActivateProcedure, catalogue
<1>8. CASE Restart
  BY <1>8, <1>0 DEF Restart, catalogue
<1> QED
  <2> HIDE DEF SynthesizedRows
  <2> QED BY <1>0, <1>1, <1>2, <1>3, <1>4, <1>5, <1>6, <1>7, <1>8 DEF Next

-----------------------------------------------------------------------------
(* What is catalogued or published passed the sandbox.                     *)
LEMMA PassedStep ==
  ASSUME Shapes, Staged, Passed, Next
  PROVE  Passed'
<1> USE DEF catalogue, files, process, history
<1>1. RowsGrow /\ HistoryGrows
  BY Growth
<1>2. ASSUME NEW t \in Tenants, NEW v \in GeneratedRows(t)'
      PROVE  rows'[t][v].body \in passed'
  <2>1. v \in SynthesizedRows(t)' /\ rows'[t][v].body \in Codes
    BY <1>2 DEF GeneratedRows, SynthesizedRows, Synthesized
  <2>2. ASSUME v \in SynthesizedRows(t), rows'[t][v].body = rows[t][v].body
        PROVE  rows[t][v].body \in passed
    BY <2>1, <2>2 DEF Passed, NothingUnvalidated, GeneratedRows, SynthesizedRows
  <2>3. \/ v \in SynthesizedRows(t) /\ rows'[t][v].body = rows[t][v].body
        \/ rows'[t][v].body \in passed
    BY <2>1, SynthesizedStep
  <2> QED BY <1>1, <2>2, <2>3 DEF HistoryGrows
<1>3. {quarantine', package'} \subseteq passed' \cup {None}
      /\ \A t \in Tenants : synthesis'[t].pc = "cataloguing" => synthesis'[t].code \in passed'
  <2> DEFINE FilesPassed == {quarantine, package} \subseteq passed \cup {None}
             SynthesisPassed == \A t \in Tenants :
               synthesis[t].pc = "cataloguing" => synthesis[t].code \in passed
  <2>1. FilesPassed /\ SynthesisPassed /\ passed \subseteq passed'
    BY <1>1 DEF Passed, NothingUnvalidated, HistoryGrows
  <2>2. ASSUME NEW t \in Tenants, NEW c \in Codes, Validated(t, c)
        PROVE  FilesPassed' /\ SynthesisPassed'
    BY <2>1, <2>2 DEF Validated, Shapes, Idle
  <2>3. ASSUME NEW r \in Requests, Supersede(r) PROVE FilesPassed' /\ SynthesisPassed'
    BY <2>1, <2>3 DEF Supersede
  <2>4. ASSUME NEW t \in Tenants,
               \/ StartSynthesis(t) \/ FailedAttempt(t) \/ SandboxViolation(t) \/ Catalogue(t)
        PROVE  FilesPassed' /\ SynthesisPassed'
    <3>1. FilesPassed'
      BY <2>1, <2>4 DEF StartSynthesis, FailedAttempt, SandboxViolation, Catalogue
    <3>2. /\ \A u \in Tenants : u # t => synthesis'[u] = synthesis[u]
          /\ synthesis'[t].pc # "cataloguing"
          /\ passed' = passed
      BY <2>4 DEF StartSynthesis, FailedAttempt, SandboxViolation, Catalogue, Shapes, Idle
    <3> QED BY <3>1, <3>2, <2>1
  <2>5. ASSUME NEW t \in Tenants, NEW v, Resolve(t) \/ Run(t) \/ Reject(t, v)
        PROVE  FilesPassed' /\ SynthesisPassed'
    BY <2>1, <2>5 DEF Resolve, Run, Reject
  <2>6. ASSUME NEW t \in Tenants, NEW r \in Requests, NEW d, NEW v,
               \/ Submit(r, t, d) \/ Propose(r, t, d) \/ Approve(r, t, v) \/ Rollback(r, t, v)
        PROVE  FilesPassed' /\ SynthesisPassed'
    BY <2>1, <2>6 DEF Submit, Propose, Approve, Rollback
  <2>7. ASSUME NEW r \in Requests,
               \/ Insert(r) \/ RegisterProcedure(r) \/ Commit(r) \/ CommitFails(r)
               \/ ActivateProcedure(r)
        PROVE  FilesPassed' /\ SynthesisPassed'
    BY <2>1, <2>7 DEF Insert, RegisterProcedure, Commit, CommitFails, ActivateProcedure
  <2>8. ASSUME Restart PROVE FilesPassed' /\ SynthesisPassed'
    BY <2>1, <2>8 DEF Restart, Idle
  <2>9. FilesPassed' /\ SynthesisPassed'
    <3> HIDE DEF FilesPassed, SynthesisPassed
    <3> QED BY <2>2, <2>3, <2>4, <2>5, <2>6, <2>7, <2>8 DEF Next, Proceed, Synthesize
  <2> QED BY <2>9
<1> QED BY <1>2, <1>3 DEF Passed, NothingUnvalidated

-----------------------------------------------------------------------------
(* Under the gate what is loaded was compared with a row.                  *)
Loaded ==
  required =>
    /\ package \in verified \cup {None}
    /\ registry \in Codes => registry \in verified
    /\ \A t \in Tenants : step[t] \in Codes => step[t] \in verified

LEMMA LoadedStep ==
  ASSUME Shapes, Staged, Passed, Loaded, Next
  PROVE  Loaded'
<1> USE DEF Loaded, catalogue, files, process, history
<1>1. RowsGrow /\ HistoryGrows
  BY Growth
<1>2. ASSUME NEW r \in Requests, Supersede(r) PROVE Loaded'
  <2>1. CASE request'[r] = Idle /\ UNCHANGED <<files, registry, imported, verified>>
    BY <1>2, <2>1 DEF Supersede
  <2>2. CASE UNCHANGED <<files, registry, imported, verified>>
    BY <1>2, <2>2 DEF Supersede
  <2>3. CASE ~UNCHANGED <<files, registry, imported, verified>>
    <3>1. /\ package' = quarantine /\ quarantine \in verified'
          /\ registry' = registry \/ registry' = quarantine
          /\ required' = required /\ step' = step /\ verified \subseteq verified'
      BY <1>2, <2>3 DEF Supersede, HashMatches, Import
    <3> QED BY <3>1
  <2> QED BY <2>2, <2>3
<1>3. ASSUME NEW t \in Tenants, NEW c \in Codes, Validated(t, c) PROVE Loaded'
  BY <1>3 DEF Validated, Shapes
<1>4. ASSUME NEW r \in Requests, RegisterProcedure(r) \/ ActivateProcedure(r) PROVE Loaded'
  <2>1. rows[request[r].tenant][request[r].version].body \in Documents
    BY <1>4 DEF RegisterProcedure, ActivateProcedure, Staged, Stage
  <2>2. rows[request[r].tenant][request[r].version].body \notin Codes
    BY <2>1, CodesAssumption
  <2>3. registry' = registry \/ registry' \notin Codes
    BY <1>4, <2>2 DEF RegisterProcedure, ActivateProcedure
  <2>4. UNCHANGED <<package, step>>
    BY <1>4 DEF RegisterProcedure, ActivateProcedure
  <2> QED BY <1>1, <2>3, <2>4 DEF HistoryGrows
<1>5. ASSUME NEW t \in Tenants, Resolve(t) PROVE Loaded'
  BY <1>5 DEF Resolve, Shapes
<1>6. ASSUME NEW t \in Tenants, Run(t) PROVE Loaded'
  BY <1>6, CodesAssumption DEF Run, Shapes
<1>7. ASSUME Restart PROVE Loaded'
  BY <1>7, CodesAssumption DEF Restart
<1>8. ASSUME NEW t \in Tenants, NEW v,
             \/ StartSynthesis(t) \/ FailedAttempt(t) \/ SandboxViolation(t) \/ Catalogue(t)
             \/ Reject(t, v)
      PROVE  UNCHANGED <<package, registry, step>>
  BY <1>8 DEF StartSynthesis, FailedAttempt, SandboxViolation, Catalogue, Reject
<1>9. ASSUME NEW t \in Tenants, NEW r \in Requests, NEW d, NEW v,
             \/ Submit(r, t, d) \/ Propose(r, t, d) \/ Approve(r, t, v) \/ Rollback(r, t, v)
      PROVE  UNCHANGED <<package, registry, step>>
  BY <1>9 DEF Submit, Propose, Approve, Rollback
<1>10. ASSUME NEW r \in Requests, Insert(r) \/ Commit(r) \/ CommitFails(r)
       PROVE  UNCHANGED <<package, registry, step>>
  BY <1>10 DEF Insert, Commit, CommitFails
<1>11. ASSUME UNCHANGED <<package, registry, step>> PROVE Loaded'
  BY <1>1, <1>11 DEF HistoryGrows
<1> HIDE DEF Loaded
<1> QED BY <1>2, <1>3, <1>4, <1>5, <1>6, <1>7, <1>8, <1>9, <1>10, <1>11
        DEF Next, Proceed, Synthesize

(* A comparison is with a row, which stays.                                *)
LEMMA VerifiedStep ==
  ASSUME Shapes, Staged, Passed, verified # {} => Catalogued, Next
  PROVE  (verified # {} => Catalogued)'
<1>1. RowsGrow /\ HistoryGrows /\ (Catalogued => Catalogued')
  BY Growth, StillDecided
<1>2. CASE verified' = verified
  BY <1>1, <1>2
<1>3. CASE verified' # verified
  <2>1. PICK r \in Requests : Supersede(r)
    BY <1>3 DEF Next, Proceed, Synthesize, StartSynthesis, FailedAttempt, SandboxViolation,
                Validated, Catalogue, Resolve, Run, Reject, Submit, Propose, Approve, Rollback,
                Insert, RegisterProcedure, Commit, CommitFails, ActivateProcedure, Restart,
                history
  <2> PICK q : q = request[r]
    OBVIOUS
  <2>2. /\ q.pc = "superseding" /\ quarantine # None
        /\ quarantine = rows[q.tenant][q.version].body
    BY <1>3, <2>1 DEF Supersede, HashMatches
  <2>3. q.tenant \in Tenants /\ q.version \in DOMAIN rows[q.tenant]
    BY <2>2, Locals DEF Staged, Stage
  <2>4. q.version \in SynthesizedRows(q.tenant)
    BY <2>2, <2>3 DEF SynthesizedRows, Synthesized, Shapes
  <2>5. Catalogued
    BY <2>3, <2>4 DEF Catalogued
  <2> QED BY <1>1, <2>5
<1> QED BY <1>2, <1>3

(* An execution is of the step in hand, through the gate.                  *)
LEMMA RanStep ==
  ASSUME Shapes, Next, NEW e \in ran', e \notin ran
  PROVE  \E t \in Tenants : e = <<t, step[t]>> /\ GateAllows(t)
<1>1. PICK t \in Tenants : Run(t)
  BY DEF Next, Proceed, Synthesize, StartSynthesis, FailedAttempt, SandboxViolation,
         Validated, Catalogue, Resolve, Reject, Submit, Propose, Approve, Rollback,
         Insert, RegisterProcedure, Supersede, Commit, CommitFails, ActivateProcedure, Restart,
         history
<1> QED BY <1>1 DEF Run

LEMMA ReviewedStep ==
  ASSUME Shapes, Staged, Passed, Reviewed, Next
  PROVE  Reviewed'
<1>1. RowsGrow /\ HistoryGrows
  BY Growth
<1>2. Loaded /\ Loaded'
  BY LoadedStep DEF Reviewed, Loaded
<1>3. (verified # {} => Catalogued)'
  BY VerifiedStep DEF Reviewed
<1>4. OnlyReviewedBytes'
  <2> SUFFICES ASSUME required', NEW e \in ran', e[2] \in Codes
               PROVE  e[2] \in verified'
    BY DEF OnlyReviewedBytes
  <2>1. CASE e \in ran
    BY <1>1, <2>1 DEF HistoryGrows, Reviewed, OnlyReviewedBytes
  <2>2. CASE e \notin ran
    <3>1. PICK t \in Tenants : e = <<t, step[t]>>
      BY <2>2, RanStep
    <3> QED BY <1>1, <1>2, <3>1 DEF HistoryGrows, Loaded
  <2> QED BY <2>1, <2>2
<1> QED BY <1>2, <1>3, <1>4 DEF Reviewed, Loaded

-----------------------------------------------------------------------------
(* Only the second statement of approve and rollback_to makes a request    *)
(* wait for its commit.                                                    *)
LEMMA NewCommitting ==
  ASSUME Shapes, Next, NEW r \in Requests, request'[r].pc = "committing"
  PROVE  request'[r] = request[r] \/ Supersede(r)
<1>1. ASSUME NEW t \in Tenants, NEW v,
             \/ StartSynthesis(t) \/ Synthesize(t) \/ Resolve(t) \/ Run(t) \/ Reject(t, v)
      PROVE  request' = request
  BY <1>1 DEF StartSynthesis, Synthesize, FailedAttempt, SandboxViolation, Validated,
              Catalogue, Resolve, Run, Reject
<1>2. ASSUME NEW s \in Requests, s # r, Proceed(s) PROVE request'[r] = request[r]
  BY <1>2 DEF Proceed, Insert, RegisterProcedure, Supersede, Commit, CommitFails,
              ActivateProcedure, Answer, Shapes
<1>3. ASSUME NEW s \in Requests, NEW t \in Tenants, NEW d, NEW v,
             \/ Submit(s, t, d) \/ Propose(s, t, d) \/ Approve(s, t, v) \/ Rollback(s, t, v)
      PROVE  request'[r] = request[r]
  BY <1>3 DEF Submit, Propose, Approve, Rollback, Ask, Shapes
<1>4. ASSUME Proceed(r) PROVE Supersede(r)
  BY <1>4 DEF Proceed, Insert, RegisterProcedure, Commit, CommitFails, ActivateProcedure,
              Answer, Idle, Shapes
<1>5. ASSUME Restart PROVE FALSE
  BY <1>5 DEF Restart, Idle
<1> QED BY <1>1, <1>2, <1>3, <1>4, <1>5 DEF Next

(* Under the gate a callable synthesized version is a decision of its      *)
(* tenant's.                                                               *)
LEMMA DecidedStep ==
  ASSUME Shapes, Staged, Passed, Reviewed, DecidedFirst, Next
  PROVE  DecidedFirst'
<1>1. RowsGrow /\ HistoryGrows
  BY Growth
<1>2. \A t \in Tenants : Decided(t) => Decided(t)'
  BY <1>1, StillDecided
<1>3. ASSUME required', NEW t \in Tenants, NEW v \in SynthesizedRows(t)',
             rows'[t][v].status \in Callable
      PROVE  Decided(t)'
  <2>1. required
    BY <1>1, <1>3 DEF HistoryGrows
  <2>2. CASE v \in SynthesizedRows(t) /\ rows'[t][v] = rows[t][v]
    BY <1>2, <1>3, <2>1, <2>2 DEF DecidedFirst
  <2>3. CASE rows'[t][v].status \in {InitialStatus, "pending_approval", "revoked"}
    BY <1>3, <2>1, <2>3 DEF InitialStatus, Callable
  <2>4. CASE \E r \in Requests : /\ Commit(r) /\ t = request[r].tenant
                                 /\ v \in request[r].active \cup {request[r].version}
    <3>1. PICK r \in Requests : /\ Commit(r) /\ t = request[r].tenant
                                /\ v \in request[r].active \cup {request[r].version}
      BY <2>4
    <3>2. CASE v = request[r].version
      <4>1. v \in approved'[t] \cup restored'[t]
        BY <3>1, <3>2 DEF Commit, Shapes
      <4> QED BY <4>1, <1>3 DEF Decided
    <3>3. CASE v \in request[r].active
      <4>1. v \in DOMAIN rows[t]
        BY <3>1, <3>3 DEF Staged, Stage, Commit
      <4>2. v \in SynthesizedRows(t)
        BY <4>1, <1>1, <1>3 DEF RowsGrow, SynthesizedRows, Synthesized
      <4>3. Decided(t)
        <5>1. request[r].pc = "committing"
          BY <3>1 DEF Commit
        <5> QED BY <2>1, <3>1, <3>3, <4>2, <5>1 DEF DecidedFirst, AboutToDeprecate
      <4> QED BY <1>2, <4>3
    <3> QED BY <3>1, <3>2, <3>3
  <2> QED BY <2>2, <2>3, <2>4, <1>3, SynthesizedStep
<1>4. AboutToDeprecate'
  <2> SUFFICES ASSUME required', NEW r \in Requests, NEW q, q = request'[r],
                      q.pc = "committing", NEW v \in q.active, v \in SynthesizedRows(q.tenant)'
               PROVE  Decided(q.tenant)'
    BY DEF AboutToDeprecate
  <2>0. required
    BY <1>1 DEF HistoryGrows
  <2>1. ASSUME q.tenant \in Tenants, v \in DOMAIN rows[q.tenant] PROVE v \in SynthesizedRows(q.tenant)
    BY <2>1, <1>1 DEF RowsGrow, SynthesizedRows, Synthesized
  <2>2. CASE q = request[r]
    <3>1. q.tenant \in Tenants /\ v \in DOMAIN rows[q.tenant]
      BY <2>2, Locals DEF Staged, Stage
    <3>2. Decided(q.tenant)
      BY <2>0, <2>1, <2>2, <3>1 DEF DecidedFirst, AboutToDeprecate
    <3> QED BY <1>2, <3>1, <3>2
  <2>3. CASE Supersede(r) /\ q # request[r]
    <3>1. /\ request[r].pc = "superseding"
          /\ q.tenant = request[r].tenant /\ q.active = Active(q.tenant)
      BY <2>3 DEF Supersede, Answer, Idle, Shapes
    <3>2. q.tenant \in Tenants
      BY <3>1, Locals
    <3>3. v \in DOMAIN rows[q.tenant] /\ rows[q.tenant][v].status = "active"
      BY <3>1 DEF Active
    <3>4. Decided(q.tenant)
      BY <2>0, <2>1, <3>2, <3>3 DEF DecidedFirst, Callable
    <3> QED BY <1>2, <3>2, <3>4
  <2>4. q = request[r] \/ Supersede(r)
    BY NewCommitting
  <2> QED BY <2>2, <2>3, <2>4
<1>5. OwnTenantDecided'
  <2> SUFFICES ASSUME required', NEW e \in ran', e[2] \in Codes
               PROVE  Decided(e[1])'
    BY DEF OwnTenantDecided, Decided
  <2>0. required
    BY <1>1 DEF HistoryGrows
  <2>1. CASE e \in ran
    <3>1. Decided(e[1]) /\ e[1] \in Tenants
      BY <2>0, <2>1 DEF DecidedFirst, OwnTenantDecided, Decided, Shapes
    <3> QED BY <1>2, <3>1
  <2>2. CASE e \notin ran
    <3>1. PICK t \in Tenants : e = <<t, step[t]>> /\ GateAllows(t)
      BY <2>2, RanStep
    <3>2. step[t] \in verified
      BY <2>0, <3>1 DEF Reviewed
    <3>3. Catalogued
      BY <3>2 DEF Reviewed
    <3>4. PICK v \in SynthesizedRows(t) : rows[t][v].status \in Callable
      BY <3>1, <3>3 DEF GateAllows, Catalogued
    <3>5. Decided(t)
      BY <2>0, <3>4 DEF DecidedFirst
    <3> QED BY <1>2, <3>1, <3>5
  <2> QED BY <2>1, <2>2
<1> QED BY <1>3, <1>4, <1>5 DEF DecidedFirst

-----------------------------------------------------------------------------
(* The inductive invariant: the shapes and stages say what a request has   *)
(* in hand, the other three what it may do with it.                        *)
LEMMA InitInv ==
  ASSUME Init
  PROVE  PublicationInv
<1> USE DEF Init
<1>1. \A t \in Tenants : SynthesizedRows(t) = {}
  BY DEF SynthesizedRows
<1>2. Shapes
  <2>1. <<>> \in Seq(Rows) /\ rows \in [Tenants -> Seq(Rows)]
    OBVIOUS
  <2>2. /\ request \in [Requests -> RequestLocals] /\ synthesis \in [Tenants -> SynthesisLocals]
        /\ step \in [Tenants -> Codes \cup Documents \cup {None}]
        /\ approved \in [Tenants -> SUBSET Nat] /\ restored \in [Tenants -> SUBSET Nat]
    BY DEF RequestLocals, SynthesisLocals
  <2> QED BY <2>1, <2>2, GateAssumption DEF Shapes
<1>3. Staged
  BY DEF Staged, Stage, Idle
<1>4. Passed
  BY DEF Passed, NothingUnvalidated, GeneratedRows, Idle
<1>5. Reviewed
  BY CodesAssumption DEF Reviewed, OnlyReviewedBytes
<1>6. DecidedFirst
  BY <1>1 DEF DecidedFirst, AboutToDeprecate, OwnTenantDecided, Idle
<1> QED BY <1>2, <1>3, <1>4, <1>5, <1>6 DEF PublicationInv

LEMMA InvStep ==
  ASSUME PublicationInv, [Next]_vars
  PROVE  PublicationInv'
<1>1. CASE Next
  BY <1>1, ShapesStep, PassedStep, ReviewedStep, DecidedStep DEF PublicationInv
<1>2. CASE UNCHANGED vars
  BY <1>2 DEF vars, catalogue, files, process, history, PublicationInv, Shapes, Staged, Stage,
              Passed, NothingUnvalidated, Reviewed, Catalogued, OnlyReviewedBytes,
              DecidedFirst, AboutToDeprecate, Decided, OwnTenantDecided, SynthesizedRows, GeneratedRows
<1> QED BY <1>1, <1>2

LEMMA InvHolds == Spec => []PublicationInv
<1>1. Init => PublicationInv
  BY InitInv
<1>2. PublicationInv /\ [Next]_vars => PublicationInv'
  BY InvStep
<1> QED BY <1>1, <1>2, PTL DEF Spec

(* Every generated module in a row or a file passed its self-test in the   *)
(* sandbox: _register writes only after it, and Supersede moves only what  *)
(* is quarantined.                                                         *)
THEOREM OnlyPassedIsPublished == Spec => []NothingUnvalidated
<1>1. PublicationInv => NothingUnvalidated
  BY DEF PublicationInv, Passed
<1> QED BY <1>1, InvHolds, PTL

(* Under the gate, generated code that ran was compared with the bytes of  *)
(* a row before promote_quarantined_code made it importable.               *)
THEOREM OnlyReviewedBytesRun == Spec => []OnlyReviewedBytes
<1>1. PublicationInv => OnlyReviewedBytes
  BY DEF PublicationInv, Reviewed
<1> QED BY <1>1, InvHolds, PTL

(* Under the gate, a tenant whose step ran generated code has approved or  *)
(* restored a synthesized version itself.                                  *)
THEOREM TenantsDecideForThemselves == Spec => []OwnTenantDecided
<1>1. PublicationInv => OwnTenantDecided
  BY DEF PublicationInv, DecidedFirst
<1> QED BY <1>1, InvHolds, PTL

-----------------------------------------------------------------------------
(* Something loadable: a module in hand, in a row or about to be committed *)
(* has its file where the record says, or in the package; and what the     *)
(* package holds is registered.                                            *)
Registered ==
  /\ imported => registry # None
  /\ package # None => registry # None
Written == quarantine # None \/ package # None
Backed(at) == at \in {"quarantine", "package"} /\ Written /\ (at = "package" => package # None)

SynthesisBacked ==
  \A t \in Tenants : synthesis[t].pc = "cataloguing" =>
    Written /\ (required \/ package # None)
RowsBacked == \A t \in Tenants : \A v \in GeneratedRows(t) : Backed(rows[t][v].at)
CommitBacked(q) ==
  q.pc = "committing" /\ q.version \in GeneratedRows(q.tenant) =>
    Backed(q.at) /\ (q.rollback \/ package # None)
ApprovedPublished ==
  \A t \in Tenants :
    /\ approved[t] \subseteq DOMAIN rows[t]
    /\ approved[t] \cap GeneratedRows(t) # {} => package # None

LoadableInv ==
  /\ Registered /\ SynthesisBacked /\ RowsBacked /\ ApprovedPublished
  /\ \A r \in Requests : CommitBacked(request[r])

(* A file is moved or overwritten, never removed, and what is published    *)
(* takes the name or finds it taken.                                       *)
LEMMA FilesStand ==
  ASSUME Shapes, Staged, Registered, Next
  PROVE  /\ Registered'
         /\ package # None => package' # None
         /\ Written => Written'
<1> DEFINE Stand == Registered' /\ (package # None => package' # None) /\ (Written => Written')
<1> USE DEF Registered, Written
<1>1. ASSUME NEW r \in Requests, RegisterProcedure(r) \/ ActivateProcedure(r) PROVE Stand
  <2>1. rows[request[r].tenant][request[r].version].body \in Documents
    BY <1>1 DEF RegisterProcedure, ActivateProcedure, Staged, Stage
  <2>2. rows[request[r].tenant][request[r].version].body # None
    BY <2>1, CodesAssumption
  <2>3. registry # None => registry' # None
    BY <1>1, <2>2 DEF RegisterProcedure, ActivateProcedure
  <2>4. UNCHANGED <<quarantine, package, imported>>
    BY <1>1 DEF RegisterProcedure, ActivateProcedure, files
  <2> QED BY <2>3, <2>4
<1>2. ASSUME NEW r \in Requests, Supersede(r) PROVE Stand
  <2>1. CASE UNCHANGED <<files, registry, imported>>
    BY <2>1 DEF files
  <2>2. CASE ~UNCHANGED <<files, registry, imported>>
    <3>1. quarantine # None /\ package' = quarantine /\ Import(quarantine)
      BY <1>2, <2>2 DEF Supersede
    <3> QED BY <3>1 DEF Import, ImportRaises
  <2> QED BY <2>1, <2>2
<1>3. ASSUME NEW t \in Tenants, NEW c \in Codes, Validated(t, c) PROVE Stand
  <2>1. c # None
    BY CodesAssumption
  <2> QED BY <1>3, <2>1 DEF Validated, Import, ImportRaises
<1>4. ASSUME Restart PROVE Stand
  BY <1>4 DEF Restart, files
<1>5. ASSUME NEW r \in Requests, Insert(r) \/ Commit(r) \/ CommitFails(r) PROVE Stand
  BY <1>5 DEF Insert, Commit, CommitFails, files, process
<1>6. ASSUME NEW t \in Tenants, NEW r \in Requests, NEW d, NEW v,
             \/ Submit(r, t, d) \/ Propose(r, t, d) \/ Approve(r, t, v) \/ Rollback(r, t, v)
      PROVE  Stand
  BY <1>6 DEF Submit, Propose, Approve, Rollback, files, process
<1>7. ASSUME NEW t \in Tenants, NEW v,
             \/ StartSynthesis(t) \/ FailedAttempt(t) \/ SandboxViolation(t) \/ Catalogue(t)
             \/ Resolve(t) \/ Run(t) \/ Reject(t, v)
      PROVE  Stand
  BY <1>7 DEF StartSynthesis, FailedAttempt, SandboxViolation, Catalogue, Resolve, Run, Reject,
              files, process
<1>8. Stand
  <2> HIDE DEF Stand
  <2> QED BY <1>1, <1>2, <1>3, <1>4, <1>5, <1>6, <1>7 DEF Next, Proceed, Synthesize
<1> QED BY <1>8

(* A synthesis that waits for its row has written its file.                *)
LEMMA SynthesisBackedStep ==
  ASSUME Shapes, Staged, Registered, SynthesisBacked, Next
  PROVE  SynthesisBacked'
<1>1. (package # None => package' # None) /\ (Written => Written') /\ required' = required
  <2>1. required' = required
    BY DEF Next, Proceed, Synthesize, StartSynthesis, FailedAttempt, SandboxViolation,
           Validated, Catalogue, Resolve, Run, Reject, Submit, Propose, Approve, Rollback,
           Insert, RegisterProcedure, Supersede, Commit, CommitFails, ActivateProcedure, Restart,
           catalogue
  <2> QED BY <2>1, FilesStand
<1> SUFFICES ASSUME NEW t \in Tenants, synthesis'[t].pc = "cataloguing"
             PROVE  Written' /\ (required' \/ package' # None)
    BY DEF SynthesisBacked
<1>2. CASE synthesis'[t] = synthesis[t]
  BY <1>1, <1>2 DEF SynthesisBacked
<1>3. CASE \E c \in Codes : Validated(t, c)
  BY <1>1, <1>3, CodesAssumption DEF Validated, Written
<1>4. synthesis'[t] = synthesis[t] \/ \E c \in Codes : Validated(t, c)
  <2>1. ASSUME NEW u \in Tenants, StartSynthesis(u) \/ FailedAttempt(u) \/ SandboxViolation(u) \/ Catalogue(u)
        PROVE  synthesis'[t] = synthesis[t]
    <3>1. u # t => synthesis'[t] = synthesis[t]
      BY <2>1 DEF StartSynthesis, FailedAttempt, SandboxViolation, Catalogue, Shapes
    <3>2. synthesis'[u].pc # "cataloguing"
      BY <2>1 DEF StartSynthesis, FailedAttempt, SandboxViolation, Catalogue, Shapes, Idle
    <3> QED BY <3>1, <3>2
  <2>2. ASSUME NEW u \in Tenants, NEW c \in Codes, Validated(u, c)
        PROVE  synthesis'[t] = synthesis[t] \/ u = t
    BY <2>2 DEF Validated, Shapes
  <2>3. ASSUME NEW u \in Tenants, NEW v, Resolve(u) \/ Run(u) \/ Reject(u, v)
        PROVE  synthesis'[t] = synthesis[t]
    BY <2>3 DEF Resolve, Run, Reject
  <2>4. ASSUME NEW u \in Tenants, NEW r \in Requests, NEW d, NEW v,
               \/ Submit(r, u, d) \/ Propose(r, u, d) \/ Approve(r, u, v) \/ Rollback(r, u, v)
        PROVE  synthesis'[t] = synthesis[t]
    BY <2>4 DEF Submit, Propose, Approve, Rollback
  <2>5. ASSUME NEW r \in Requests, Proceed(r) PROVE synthesis'[t] = synthesis[t]
    BY <2>5 DEF Proceed, Insert, RegisterProcedure, Supersede, Commit, CommitFails,
                ActivateProcedure
  <2>6. ~Restart
    BY DEF Restart, Idle
  <2> QED BY <2>1, <2>2, <2>3, <2>4, <2>5, <2>6 DEF Next, Synthesize
<1> QED BY <1>2, <1>3, <1>4

(* Where a generated row's recorded place comes from: it stays, a          *)
(* synthesis wrote it, or a commit wrote what its request had in hand.     *)
LEMMA PlaceStep ==
  ASSUME Shapes, Staged, Passed, Next, NEW u \in Tenants, NEW v \in GeneratedRows(u)'
  PROVE  \/ v \in GeneratedRows(u) /\ rows'[u][v].at = rows[u][v].at
         \/ /\ synthesis[u].pc = "cataloguing"
            /\ rows'[u][v].at = IF required THEN "quarantine" ELSE "package"
         \/ \E r \in Requests : /\ request[r].pc = "committing" /\ u = request[r].tenant
                                /\ v = request[r].version /\ v \in GeneratedRows(u)
                                /\ rows'[u][v].at = request[r].at
<1> USE DEF GeneratedRows
<1>0. ASSUME rows' = rows PROVE v \in GeneratedRows(u) /\ rows'[u][v] = rows[u][v]
  BY <1>0
<1>1. ASSUME NEW t \in Tenants, Catalogue(t)
      PROVE  \/ v \in GeneratedRows(u) /\ rows'[u][v] = rows[u][v]
             \/ /\ synthesis[u].pc = "cataloguing"
                /\ rows'[u][v].at = IF required THEN "quarantine" ELSE "package"
  <2>1. CASE rows' = rows \/ u # t
    <3>1. rows'[u] = rows[u]
      BY <1>1, <2>1 DEF Catalogue, Shapes
    <3> QED BY <3>1
  <2>2. CASE rows' # rows /\ u = t
    <3> DEFINE row == NewRow(synthesis[t].code, InitialStatus, IF required THEN "quarantine" ELSE "package")
    <3>1. rows' = [rows EXCEPT ![t] = <<row>>] /\ synthesis[u].pc = "cataloguing"
      BY <1>1, <2>2 DEF Catalogue
    <3>2. row.at = IF required THEN "quarantine" ELSE "package"
      BY DEF NewRow
    <3> HIDE DEF row
    <3>3. rows'[u] = <<row>>
      BY <2>2, <3>1 DEF Shapes
    <3>4. v = 1
      BY <3>3
    <3> QED BY <3>1, <3>2, <3>3, <3>4
  <2> QED BY <2>1, <2>2
<1>2. ASSUME NEW r \in Requests, Insert(r)
      PROVE  v \in GeneratedRows(u) /\ rows'[u][v] = rows[u][v]
  <2>1. CASE rows' = rows
    BY <1>0, <2>1
  <2>2. CASE rows' # rows
    <3>1. /\ Extends(request[r].tenant, request[r].row)
          /\ request[r].tenant \in Tenants
          /\ request[r].row.body \notin Codes
      BY <1>2, <2>2, InsertRows
    <3>2. (v \in DOMAIN rows[u] /\ rows'[u][v] = rows[u][v]) \/ rows'[u][v] = request[r].row
      BY <3>1, Extending DEF Shapes
    <3> QED BY <3>1, <3>2
  <2> QED BY <2>1, <2>2
<1>3. ASSUME NEW t \in Tenants, NEW w \in DOMAIN rows[t], Reject(t, w)
      PROVE  v \in GeneratedRows(u) /\ rows'[u][v].at = rows[u][v].at
  <2>1. RowsGrow /\ v \in DOMAIN rows[u]
    BY <1>3, RejectRows, Rewriting DEF Shapes
  <2>2. rows[t] \in [DOMAIN rows[t] -> Rows]
    BY LenProperties DEF Shapes
  <2>3. rows[t][w] \in Rows
    BY <2>2
  <2> DEFINE new == [rows[t][w] EXCEPT !.status = "revoked", !.stamped = TRUE]
  <2>4. rows' = [rows EXCEPT ![t] = [rows[t] EXCEPT ![w] = new]]
    BY <1>3, Zenon DEF Reject, Shapes
  <2>5. new.at = rows[t][w].at
    BY <2>3 DEF Rows
  <2> HIDE DEF new
  <2>6. rows'[u][v].at = rows[u][v].at
    BY <2>1, <2>2, <2>4, <2>5 DEF Shapes
  <2> QED BY <2>1, <2>6 DEF RowsGrow
<1>4. ASSUME NEW r \in Requests, Commit(r)
      PROVE  /\ v \in GeneratedRows(u)
             /\ \/ rows'[u][v].at = rows[u][v].at
                \/ /\ request[r].pc = "committing" /\ u = request[r].tenant
                   /\ v = request[r].version /\ rows'[u][v].at = request[r].at
  <2> PICK q : q = request[r]
    OBVIOUS
  <2> PICK new : new = Activated(q)
    OBVIOUS
  <2>1. /\ q.tenant \in Tenants /\ q.version \in DOMAIN rows[q.tenant] /\ Rewrites(q.tenant, new)
    BY <1>4, CommitRows
  <2>2. /\ RowsGrow /\ v \in DOMAIN rows[u]
        /\ rows'[q.tenant] = new /\ (u # q.tenant => rows'[u] = rows[u])
    BY <2>1, Rewriting DEF Shapes
  <2>3. v \in GeneratedRows(u)
    BY <2>2 DEF RowsGrow
  <2>4. ASSUME u = q.tenant PROVE new[v].at = rows[u][v].at \/ (v = q.version /\ new[v].at = q.at)
    <3>1. rows[u] \in [DOMAIN rows[u] -> Rows]
      BY LenProperties DEF Shapes
    <3>2. rows[u][v] \in Rows
      BY <2>2, <3>1
    <3>3. v \in DOMAIN rows[q.tenant] /\ rows[q.tenant][v] = rows[u][v]
      BY <2>2, <2>4
    <3>4. new[v] = IF v = q.version
                   THEN [rows[q.tenant][v] EXCEPT !.status = "active", !.at = q.at,
                                                  !.stamped = @ \/ ~q.rollback]
                   ELSE IF v \in q.active THEN [rows[q.tenant][v] EXCEPT !.status = "deprecated"]
                   ELSE rows[q.tenant][v]
      BY <3>3, Zenon DEF Activated
    <3>5. CASE v = q.version
      BY <3>2, <3>3, <3>5, <3>4 DEF Rows
    <3>6. CASE v # q.version
      BY <3>2, <3>3, <3>6, <3>4 DEF Rows
    <3> QED BY <3>5, <3>6
  <2>5. q.pc = "committing"
    BY <1>4 DEF Commit
  <2> HIDE DEF GeneratedRows
  <2> QED BY <2>2, <2>3, <2>4, <2>5
<1>5. ASSUME NEW t \in Tenants, NEW r \in Requests, NEW d, NEW w,
             \/ Submit(r, t, d) \/ Propose(r, t, d) \/ Approve(r, t, w) \/ Rollback(r, t, w)
      PROVE  rows' = rows
  BY <1>5 DEF Submit, Propose, Approve, Rollback, catalogue
<1>6. ASSUME NEW t \in Tenants, StartSynthesis(t) \/ Synthesize(t) \/ Resolve(t) \/ Run(t)
      PROVE  rows' = rows \/ Catalogue(t)
  BY <1>6 DEF StartSynthesis, Synthesize, FailedAttempt, SandboxViolation, Validated,
              Resolve, Run, catalogue
<1>7. ASSUME NEW r \in Requests, Proceed(r)
      PROVE  rows' = rows \/ Insert(r) \/ Commit(r)
  BY <1>7 DEF Proceed, RegisterProcedure, Supersede, CommitFails, ActivateProcedure, catalogue
<1>8. CASE Restart
  BY <1>8, <1>0 DEF Restart, catalogue
<1> QED
  <2> HIDE DEF GeneratedRows
  <2> QED BY <1>0, <1>1, <1>2, <1>3, <1>4, <1>5, <1>6, <1>7, <1>8 DEF Next

(* The module a row or a commit records is in its place, or published.     *)
LEMMA LoadableStep ==
  ASSUME Shapes, Staged, Passed, LoadableInv, Next
  PROVE  LoadableInv'
<1>1. RowsGrow /\ HistoryGrows
  BY Growth
<1>2. /\ Registered' /\ SynthesisBacked'
      /\ (package # None => package' # None) /\ (Written => Written')
  BY FilesStand, SynthesisBackedStep DEF LoadableInv
<1>3. ASSUME NEW at, Backed(at) PROVE Backed(at)'
  BY <1>2, <1>3 DEF Backed
<1>4. RowsBacked'
  <2> SUFFICES ASSUME NEW u \in Tenants, NEW v \in GeneratedRows(u)', NEW at, at = rows'[u][v].at
               PROVE  Backed(at)'
    BY DEF RowsBacked, Backed
  <2>1. CASE v \in GeneratedRows(u) /\ rows'[u][v].at = rows[u][v].at
    <3>1. Backed(rows[u][v].at)
      BY <2>1 DEF LoadableInv, RowsBacked
    <3> QED BY <1>2, <2>1, <3>1 DEF Backed
  <2>2. CASE /\ synthesis[u].pc = "cataloguing"
             /\ rows'[u][v].at = IF required THEN "quarantine" ELSE "package"
    <3>1. Written /\ (required \/ package # None)
      BY <2>2 DEF LoadableInv, SynthesisBacked
    <3> QED BY <1>2, <2>2, <3>1 DEF Backed
  <2>3. ASSUME NEW r \in Requests, request[r].pc = "committing", u = request[r].tenant,
               v = request[r].version, v \in GeneratedRows(u), rows'[u][v].at = request[r].at
        PROVE  Backed(at)'
    <3>1. Backed(request[r].at)
      BY <2>3 DEF LoadableInv, CommitBacked
    <3> QED BY <1>2, <2>3, <3>1 DEF Backed
  <2> QED BY <2>1, <2>2, <2>3, PlaceStep
<1>5. ASSUME NEW r \in Requests PROVE CommitBacked(request[r])'
  <2> PICK q : q = request'[r]
    OBVIOUS
  <2> SUFFICES ASSUME q.pc = "committing", q.version \in GeneratedRows(q.tenant)'
               PROVE  Backed(q.at)' /\ (q.rollback \/ package' # None)
    BY DEF CommitBacked, Backed
  <2>1. ASSUME q.tenant \in Tenants, q.version \in DOMAIN rows[q.tenant]
        PROVE  q.version \in GeneratedRows(q.tenant)
    BY <2>1, <1>1 DEF RowsGrow, GeneratedRows
  <2>2. CASE q = request[r]
    <3>1. q.tenant \in Tenants /\ q.version \in DOMAIN rows[q.tenant]
      BY <2>2, Locals DEF Staged, Stage
    <3>2. Backed(q.at) /\ (q.rollback \/ package # None)
      BY <2>1, <2>2, <3>1 DEF LoadableInv, CommitBacked
    <3> QED BY <1>2, <3>2 DEF Backed
  <2>3. CASE Supersede(r) /\ q # request[r]
    <3> PICK p : p = request[r]
      OBVIOUS
    <3> PICK record : record = rows[p.tenant][p.version]
      OBVIOUS
    <3>1. /\ p.pc = "superseding" /\ q.tenant = p.tenant /\ q.version = p.version /\ q.rollback = p.rollback
          /\ \/ q.at = record.at /\ (p.rollback \/ record.at # "quarantine" \/ quarantine = None)
             \/ quarantine # None /\ package' = quarantine /\ q.at = "package"
      BY <2>3 DEF Supersede, Answer, Idle, Shapes
    <3>2. p.tenant \in Tenants /\ p.version \in DOMAIN rows[p.tenant]
      BY <3>1, Locals DEF Staged, Stage
    <3>3. Backed(record.at)
      BY <2>1, <3>1, <3>2 DEF LoadableInv, RowsBacked
    <3> QED BY <1>2, <3>1, <3>3 DEF Backed, Written
  <2>4. q = request[r] \/ Supersede(r)
    BY NewCommitting
  <2> QED BY <2>2, <2>3, <2>4
<1>6. ApprovedPublished'
  <2> SUFFICES ASSUME NEW t \in Tenants, NEW v \in approved'[t]
               PROVE  v \in DOMAIN rows'[t] /\ (v \in GeneratedRows(t)' => package' # None)
    BY DEF ApprovedPublished
  <2>1. ASSUME v \in DOMAIN rows[t], v \in GeneratedRows(t)'
        PROVE  v \in GeneratedRows(t)
    BY <2>1, <1>1 DEF RowsGrow, GeneratedRows
  <2>2. CASE v \in approved[t]
    <3>1. v \in DOMAIN rows[t] /\ (v \in GeneratedRows(t) => package # None)
      BY <2>2 DEF LoadableInv, ApprovedPublished
    <3> QED BY <1>1, <1>2, <2>1, <3>1 DEF RowsGrow
  <2>3. ASSUME NEW r \in Requests, Commit(r), v \notin approved[t]
        PROVE  v \in DOMAIN rows'[t] /\ (v \in GeneratedRows(t)' => package' # None)
    <3> PICK q : q = request[r]
      OBVIOUS
    <3>1. q.pc = "committing" /\ ~q.rollback /\ t = q.tenant /\ v = q.version /\ UNCHANGED files
      BY <2>3 DEF Commit, Shapes
    <3>2. v \in DOMAIN rows[t]
      BY <3>1 DEF Staged, Stage
    <3>3. v \in GeneratedRows(t) => package # None
      BY <3>1 DEF LoadableInv, CommitBacked
    <3> QED BY <1>1, <1>2, <2>1, <3>2, <3>3 DEF RowsGrow
  <2>4. v \in approved[t] \/ \E r \in Requests : Commit(r)
    BY DEF Next, Proceed, Synthesize, StartSynthesis, FailedAttempt, SandboxViolation,
           Validated, Catalogue, Resolve, Run, Reject, Submit, Propose, Approve, Rollback,
           Insert, RegisterProcedure, Supersede, CommitFails, ActivateProcedure, Restart,
           history
  <2> QED BY <2>2, <2>3, <2>4
<1> QED BY <1>2, <1>4, <1>5, <1>6 DEF LoadableInv

(* Once an approval of a generated version has committed, the name is      *)
(* registered from then on (promote_quarantined_code, discover_skills): a  *)
(* file is where its record says or published, and what is published is    *)
(* registered, also after a restart.                                       *)
THEOREM ApprovalsAreLoaded == Spec => []ApprovedIsLoaded
<1>1. Init => LoadableInv
  <2> SUFFICES ASSUME Init PROVE LoadableInv
    OBVIOUS
  <2>1. \A t \in Tenants : GeneratedRows(t) = {}
    BY DEF Init, GeneratedRows
  <2>2. Registered /\ SynthesisBacked /\ RowsBacked /\ ApprovedPublished
    BY <2>1 DEF Init, Registered, SynthesisBacked, RowsBacked, ApprovedPublished, Idle
  <2>3. \A r \in Requests : CommitBacked(request[r])
    BY DEF Init, CommitBacked, Idle
  <2> QED BY <2>2, <2>3 DEF LoadableInv
<1>2. PublicationInv /\ LoadableInv /\ [Next]_vars => LoadableInv'
  <2> SUFFICES ASSUME PublicationInv, LoadableInv, [Next]_vars PROVE LoadableInv'
    OBVIOUS
  <2>1. CASE Next
    BY <2>1, LoadableStep DEF PublicationInv
  <2>2. CASE UNCHANGED vars
    BY <2>2 DEF vars, catalogue, files, process, history, LoadableInv, Registered, SynthesisBacked,
                RowsBacked, ApprovedPublished, CommitBacked, Backed, Written, GeneratedRows
  <2> QED BY <2>1, <2>2
<1>3. LoadableInv => ApprovedIsLoaded
  BY DEF LoadableInv, Registered, ApprovedPublished, ApprovedIsLoaded
<1> QED BY <1>1, <1>2, <1>3, InvHolds, PTL DEF Spec
=============================================================================
