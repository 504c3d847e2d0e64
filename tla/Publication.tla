------------------------------ MODULE Publication ------------------------------
(***************************************************************************)
(* How one capability name becomes runnable: synthesis into quarantine     *)
(* (agents/capability_factory.py, sandbox/executor.py), submitted          *)
(* procedures (agents/procedure_registry.py, api/routes/skills.py), the    *)
(* decisions of SkillPublisher (agents/publication.py), the process-wide   *)
(* registry (agents/skill_registry.py) and the gate of run_step            *)
(* (core/orchestrator.py).                                                 *)
(*                                                                         *)
(* The registry, the quarantined file and the published file are keyed by  *)
(* the name alone and shared by the tenants; the catalogue rows are per    *)
(* tenant.  A request is split at its awaits: what it read is stale when   *)
(* it commits, and no statement locks a row.                               *)
(***************************************************************************)
EXTENDS Integers, Sequences, FiniteSets

CONSTANTS
  Tenants,      \* tenants, each with authors and approvers
  Requests,     \* slots for requests in progress
  Codes,        \* generated modules the model may answer
  Documents,    \* SKILL.md documents under this name
  Manifests,    \* manifests given to propose
  Flagged,      \* those of them with manifest.synthesized set
  None,         \* no code
  GateSettings, \* the values of Settings.require_skill_approval
  MaxAttempts,  \* _MAX_ATTEMPTS
  MaxRequests,  \* bound: requests ever made
  MaxSyntheses, \* bound: syntheses ever started
  MaxRestarts   \* bound: restarts of the process

ASSUME GateAssumption == GateSettings \subseteq BOOLEAN
ASSUME CodesAssumption ==
  /\ Flagged \subseteq Manifests
  /\ None \notin Codes \cup Documents \cup Manifests
  /\ Codes \cap Documents = {} /\ Manifests \cap (Codes \cup Documents) = {}
ASSUME BoundsAssumption ==
  MaxAttempts \in Nat \ {0} /\ {MaxRequests, MaxSyntheses, MaxRestarts} \subseteq Nat

Statuses == {"pending_approval", "active", "deprecated", "revoked"}
Callable == {"active", "deprecated"}

(* What a row, a file or the registry holds.  The row of a generated       *)
(* module says it is synthesized, that of a document does not, and that of *)
(* a proposal says what its manifest does.                                 *)
Bodies == Codes \cup Documents \cup Manifests
Synthesized(body) == body \in Codes \cup Flagged

Rows == [body : Bodies, status : Statuses, stamped : BOOLEAN,
         at : {"quarantine", "package", "nowhere"}]

VARIABLES
  required,    \* Settings.require_skill_approval
  rows,        \* the `skills` table: per tenant, row v is version v
  quarantine,  \* the generated file in _quarantine/
  package,     \* the generated file in praxis/agents/skills/
  registry,    \* _SKILLS[name]
  imported,    \* whether sys.modules holds the generated module
  toolUp,      \* whether the tool the documents compose is registered
  request,     \* the requests in progress
  synthesis,   \* the synthesis each tenant has in progress
  step,        \* the skill object each tenant's plan step has resolved
  passed,      \* history: code the sandbox has passed
  verified,    \* history: code an approval compared with the file's bytes
  approved,    \* history: versions whose approve committed
  restored,    \* history: versions whose rollback_to committed
  ran,         \* history: <<tenant, body>> of every execution
  spent        \* the bounds used up

catalogue == <<required, rows>>
process == <<registry, imported, toolUp>>
files == <<quarantine, package>>
history == <<passed, verified, approved, restored, ran>>
vars == <<catalogue, files, process, request, synthesis, step, history, spent>>

Idle == [pc |-> "idle"]

TypeOK ==
  /\ required \in BOOLEAN /\ imported \in BOOLEAN /\ toolUp \in BOOLEAN
  /\ rows \in [Tenants -> Seq(Rows)]
  /\ quarantine \in Codes \cup {None} /\ package \in Codes \cup {None}
  /\ registry \in Codes \cup Documents \cup {None}
  /\ \A r \in Requests : request[r] # Idle =>
       request[r].tenant \in Tenants /\ request[r].version \in Nat \ {0}
  /\ \A t \in Tenants : synthesis[t] = Idle \/ synthesis[t].pc \in {"asking", "cataloguing"}
  /\ step \in [Tenants -> Codes \cup Documents \cup {None}]
  /\ passed \subseteq Codes /\ verified \subseteq Codes
  /\ ran \subseteq Tenants \X (Codes \cup Documents)

Init ==
  /\ required \in GateSettings
  /\ rows = [t \in Tenants |-> <<>>]
  /\ quarantine = None /\ package = None
  /\ registry = None /\ imported = FALSE /\ toolUp = TRUE
  /\ request = [r \in Requests |-> Idle]
  /\ synthesis = [t \in Tenants |-> Idle]
  /\ step = [t \in Tenants |-> None]
  /\ passed = {} /\ verified = {} /\ ran = {}
  /\ approved = [t \in Tenants |-> {}] /\ restored = [t \in Tenants |-> {}]
  /\ spent = [requests |-> 0, syntheses |-> 0, restarts |-> 0]

Active(t) == {v \in DOMAIN rows[t] : rows[t][v].status = "active"}
InitialStatus == IF required THEN "pending_approval" ELSE "active"
NewRow(body, status, at) == [body |-> body, status |-> status, stamped |-> FALSE, at |-> at]

Answer(r) == request' = [request EXCEPT ![r] = Idle]
Ask(r, locals) ==
  /\ request[r] = Idle /\ spent.requests < MaxRequests
  /\ request' = [request EXCEPT ![r] = locals]
  /\ spent' = [spent EXCEPT !.requests = @ + 1]

-----------------------------------------------------------------------------
(* Importing the generated module: nothing when sys.modules has it, else   *)
(* its register_skill call, which raises when the name is taken.           *)
ImportRaises == ~imported /\ registry # None
Import(code) ==
  /\ registry' = IF imported \/ ImportRaises THEN registry ELSE code
  /\ imported' = ~ImportRaises

(* A plan step names a skill that is not registered.                       *)
StartSynthesis(t) ==
  /\ registry = None /\ synthesis[t] = Idle /\ spent.syntheses < MaxSyntheses
  /\ synthesis' = [synthesis EXCEPT ![t] = [pc |-> "asking", attempt |-> 1]]
  /\ spent' = [spent EXCEPT !.syntheses = @ + 1]
  /\ UNCHANGED <<catalogue, files, process, request, step, history>>

(* (A mutant: the last attempt is registered although its test failed.)    *)
RegistersLastAttempt(t) ==
  /\ synthesis[t].pc = "asking"
  /\ \E c \in Codes :
       synthesis' = [synthesis EXCEPT ![t] =
         IF @.attempt < MaxAttempts THEN [pc |-> "asking", attempt |-> @.attempt + 1]
         ELSE [pc |-> "cataloguing", code |-> c]]
  /\ UNCHANGED <<catalogue, files, process, request, step, history, spent>>

(* An answer that does not parse, a self-test that fails or runs out of    *)
(* time: the next attempt, until the last.                                 *)
FailedAttempt(t) ==
  /\ synthesis[t].pc = "asking"
  /\ synthesis' = [synthesis EXCEPT ![t] =
       IF @.attempt < MaxAttempts THEN [pc |-> "asking", attempt |-> @.attempt + 1] ELSE Idle]
  /\ UNCHANGED <<catalogue, files, process, request, step, history, spent>>

(* The container was OOM-killed: SandboxViolationError, which no attempt   *)
(* follows.                                                                *)
SandboxViolation(t) ==
  /\ synthesis[t].pc = "asking"
  /\ synthesis' = [synthesis EXCEPT ![t] = Idle]
  /\ UNCHANGED <<catalogue, files, process, request, step, history, spent>>

(* The self-test passed: _register writes the file, into quarantine under  *)
(* the gate, else into the package, which it then imports.                 *)
Validated(t, code) ==
  /\ synthesis[t].pc = "asking"
  /\ passed' = passed \cup {code}
  /\ IF required
     THEN /\ quarantine' = code
          /\ UNCHANGED <<package, registry, imported>>
     ELSE /\ package' = code
          /\ Import(code)
          /\ UNCHANGED quarantine
  /\ synthesis' = [synthesis EXCEPT ![t] =
       IF ~required /\ ImportRaises THEN Idle ELSE [pc |-> "cataloguing", code |-> code]]
  /\ UNCHANGED <<catalogue, toolUp, request, step, verified, approved, restored, ran, spent>>

(* The row of a synthesized skill takes the column's default version, 1:   *)
(* the constraint on (tenant, name, version) refuses it when there is one. *)
Catalogue(t) ==
  /\ synthesis[t].pc = "cataloguing"
  /\ rows' = IF rows[t] # <<>> THEN rows
             ELSE [rows EXCEPT ![t] = <<NewRow(synthesis[t].code, InitialStatus,
                     IF required THEN "quarantine" ELSE "package")>>]
  /\ synthesis' = [synthesis EXCEPT ![t] = Idle]
  /\ UNCHANGED <<required, files, process, request, step, history, spent>>

-----------------------------------------------------------------------------
(* Compiling a document resolves its tool in the live registry.            *)
Compiles(d) == toolUp

(* POST /skills: the highest version is read, the row inserted and         *)
(* committed later.                                                        *)
Submit(r, t, d) ==
  /\ Compiles(d)
  /\ Ask(r, [pc |-> "inserting", tenant |-> t, version |-> Len(rows[t]) + 1,
             row |-> NewRow(d, InitialStatus, "nowhere")])
  /\ UNCHANGED <<catalogue, files, process, synthesis, step, history>>

(* SkillPublisher.propose after its policy check: a session reads the next *)
(* version, another inserts it, with the flag of the manifest.  (Nothing   *)
(* in the application calls it; its code is taken to have no file.)        *)
Propose(r, t, m) ==
  /\ Ask(r, [pc |-> "inserting", tenant |-> t, version |-> Len(rows[t]) + 1,
             row |-> NewRow(m, "pending_approval", "nowhere")])
  /\ UNCHANGED <<catalogue, files, process, synthesis, step, history>>

Insert(r) ==
  LET q == request[r] IN
  /\ q.pc = "inserting"
  /\ IF q.version = Len(rows[q.tenant]) + 1
     THEN /\ rows' = [rows EXCEPT ![q.tenant] = Append(@, q.row)]
          /\ request' = [request EXCEPT ![r] =
               IF q.row.status = "active"
               THEN [pc |-> "registering", tenant |-> q.tenant, version |-> q.version]
               ELSE Idle]
     ELSE Answer(r) /\ UNCHANGED rows
  /\ UNCHANGED <<required, files, process, synthesis, step, history, spent>>

(* Without the gate register_procedure registers what it compiled; a name  *)
(* that is taken stays with its owner.                                     *)
RegisterProcedure(r) ==
  LET q == request[r] IN
  /\ q.pc = "registering"
  /\ registry' = IF registry = None THEN rows[q.tenant][q.version].body ELSE registry
  /\ Answer(r)
  /\ UNCHANGED <<catalogue, files, imported, toolUp, synthesis, step, history, spent>>

-----------------------------------------------------------------------------
(* reject (or revoke) writes the row whatever its status was.              *)
Reject(t, v) ==
  /\ v \in DOMAIN rows[t] /\ spent.requests < MaxRequests
  /\ spent' = [spent EXCEPT !.requests = @ + 1]
  /\ rows' = [rows EXCEPT ![t][v].status = "revoked", ![t][v].stamped = TRUE]
  /\ UNCHANGED <<required, files, process, request, synthesis, step, history>>

(* approve and rollback_to load the row and test it first.                 *)
Approve(r, t, v) ==
  /\ v \in DOMAIN rows[t] /\ rows[t][v].status = "pending_approval"
  /\ Ask(r, [pc |-> "superseding", tenant |-> t, version |-> v, rollback |-> FALSE])
  /\ UNCHANGED <<catalogue, files, process, synthesis, step, history>>

Rollback(r, t, v) ==
  /\ v \in DOMAIN rows[t] /\ rows[t][v].stamped
  /\ Ask(r, [pc |-> "superseding", tenant |-> t, version |-> v, rollback |-> TRUE])
  /\ UNCHANGED <<catalogue, files, process, synthesis, step, history>>

(* The second statement of approve and rollback_to reads the active        *)
(* versions.  approve goes on to promote_quarantined_code: nothing when    *)
(* the recorded path holds no file or is the package; a refusal when the   *)
(* bytes are not those of the row; else move and import.                   *)
(* (A mutant: the record's hash is compared with itself.)                  *)
TrustsRecord(code) == TRUE

HashMatches(code) == quarantine = code

Supersede(r) ==
  LET q == request[r]
      row == rows[q.tenant][q.version]
      promotes == ~q.rollback /\ row.at = "quarantine" /\ quarantine # None
      goesOn == [pc |-> "committing", tenant |-> q.tenant, version |-> q.version,
                 rollback |-> q.rollback, active |-> Active(q.tenant),
                 at |-> IF promotes THEN "package" ELSE row.at]
  IN
  /\ q.pc = "superseding"
  /\ IF ~promotes
     THEN /\ request' = [request EXCEPT ![r] = goesOn]
          /\ UNCHANGED <<files, registry, imported, verified>>
     ELSE IF ~HashMatches(row.body)
     THEN Answer(r) /\ UNCHANGED <<files, registry, imported, verified>>
     ELSE /\ package' = quarantine /\ quarantine' = None
          /\ verified' = verified \cup {row.body}
          /\ Import(quarantine)
          /\ request' = [request EXCEPT ![r] = IF ImportRaises THEN Idle ELSE goesOn]
  /\ UNCHANGED <<catalogue, toolUp, synthesis, step, passed, approved, restored, ran, spent>>

(* The commit writes the columns that changed in the objects the session   *)
(* loaded, whatever the rows say by now.                                   *)
Activated(q) ==
  [v \in DOMAIN rows[q.tenant] |->
     IF v = q.version
     THEN [rows[q.tenant][v] EXCEPT !.status = "active", !.at = q.at,
                                    !.stamped = @ \/ ~q.rollback]
     ELSE IF v \in q.active THEN [rows[q.tenant][v] EXCEPT !.status = "deprecated"]
     ELSE rows[q.tenant][v]]

Commit(r) ==
  LET q == request[r] IN
  /\ q.pc = "committing"
  /\ rows' = [rows EXCEPT ![q.tenant] = Activated(q)]
  /\ IF q.rollback
     THEN /\ restored' = [restored EXCEPT ![q.tenant] = @ \cup {q.version}]
          /\ UNCHANGED approved
     ELSE /\ approved' = [approved EXCEPT ![q.tenant] = @ \cup {q.version}]
          /\ UNCHANGED restored
  /\ request' = [request EXCEPT ![r] =
       IF ~q.rollback /\ rows[q.tenant][q.version].body \in Documents
       THEN [pc |-> "activating", tenant |-> q.tenant, version |-> q.version] ELSE Idle]
  /\ UNCHANGED <<required, files, process, synthesis, step, passed, verified, ran, spent>>

(* The commit fails: the session rolls back, the moved file stays.         *)
CommitFails(r) ==
  /\ request[r].pc = "committing"
  /\ Answer(r)
  /\ UNCHANGED <<catalogue, files, process, synthesis, step, history, spent>>

(* An approved document is compiled again from the row and registered, in  *)
(* place of what holds the name; if it no longer compiles the request ends *)
(* with the row already active.                                            *)
ActivateProcedure(r) ==
  LET q == request[r]
      d == rows[q.tenant][q.version].body
  IN
  /\ q.pc = "activating"
  /\ registry' = IF Compiles(d) THEN d ELSE registry
  /\ Answer(r)
  /\ UNCHANGED <<catalogue, files, imported, toolUp, synthesis, step, history, spent>>

-----------------------------------------------------------------------------
(* _approval_gate_blocks, over the rows of every tenant.                   *)
SynthesizedRows(t) == {v \in DOMAIN rows[t] : Synthesized(rows[t][v].body)}
GeneratedRows(t) == {v \in DOMAIN rows[t] : rows[t][v].body \in Codes}

(* (A mutant: a callable row of any tenant opens the gate.)                *)
GateOfAnyTenant(t) ==
  \/ \A u \in Tenants : SynthesizedRows(u) = {}
  \/ \E u \in Tenants : \E v \in SynthesizedRows(u) : rows[u][v].status \in Callable

GateAllows(t) ==
  \/ \A u \in Tenants : SynthesizedRows(u) = {}
  \/ \E v \in SynthesizedRows(t) : rows[t][v].status \in Callable

(* run_step takes the skill object from the registry, then asks the gate.  *)
Resolve(t) ==
  /\ step[t] = None /\ registry # None
  /\ step' = [step EXCEPT ![t] = registry]
  /\ UNCHANGED <<catalogue, files, process, request, synthesis, history, spent>>

Run(t) ==
  /\ step[t] # None
  /\ ran' = IF GateAllows(t) THEN ran \cup {<<t, step[t]>>} ELSE ran
  /\ step' = [step EXCEPT ![t] = None]
  /\ UNCHANGED <<catalogue, files, process, request, synthesis, passed, verified, approved,
                 restored, spent>>

(* (A mutant: the restart does not scan the published files.)              *)
RestartWithoutDiscovery ==
  /\ spent.restarts < MaxRestarts
  /\ spent' = [spent EXCEPT !.restarts = @ + 1]
  /\ registry' = None /\ imported' = FALSE /\ toolUp' \in BOOLEAN
  /\ request' = [r \in Requests |-> Idle]
  /\ synthesis' = [t \in Tenants |-> Idle]
  /\ step' = [t \in Tenants |-> None]
  /\ UNCHANGED <<catalogue, files, history>>

(* The process dies and starts again: discover_skills imports the package. *)
(* A submitted document has no file behind it, so load_from_disk does not  *)
(* find it; the tool it composes may be such a document.                   *)
Restart ==
  /\ spent.restarts < MaxRestarts
  /\ spent' = [spent EXCEPT !.restarts = @ + 1]
  /\ registry' = package /\ imported' = (package # None)
  /\ toolUp' \in BOOLEAN
  /\ request' = [r \in Requests |-> Idle]
  /\ synthesis' = [t \in Tenants |-> Idle]
  /\ step' = [t \in Tenants |-> None]
  /\ UNCHANGED <<catalogue, files, history>>

Synthesize(t) ==
  \/ FailedAttempt(t) \/ SandboxViolation(t)
  \/ \E c \in Codes : Validated(t, c)
  \/ Catalogue(t)

Proceed(r) ==
  \/ Insert(r) \/ RegisterProcedure(r) \/ Supersede(r) \/ Commit(r) \/ CommitFails(r)
  \/ ActivateProcedure(r)

Next ==
  \/ \E t \in Tenants :
       \/ StartSynthesis(t) \/ Synthesize(t) \/ Resolve(t) \/ Run(t)
       \/ \E v \in DOMAIN rows[t] : Reject(t, v)
  \/ \E r \in Requests, t \in Tenants :
       \/ \E d \in Documents : Submit(r, t, d)
       \/ \E m \in Manifests : Propose(r, t, m)
       \/ \E v \in DOMAIN rows[t] : Approve(r, t, v) \/ Rollback(r, t, v)
  \/ \E r \in Requests : Proceed(r)
  \/ Restart

Spec == Init /\ [][Next]_vars

-----------------------------------------------------------------------------
(* Every catalogued or published generated module passed its self-test in  *)
(* the sandbox, whichever attempt produced it and whoever overwrote the    *)
(* file since.                                                             *)
NothingUnvalidated ==
  /\ \A t \in Tenants : \A v \in GeneratedRows(t) : rows[t][v].body \in passed
  /\ {quarantine, package} \subseteq passed \cup {None}

(* Under the gate a generated module that ran had its very bytes compared  *)
(* with an approved row before they became importable: neither a restart,  *)
(* a failed commit nor another tenant's file in the same place gets round  *)
(* it.                                                                     *)
OnlyReviewedBytes ==
  required => \A e \in ran : e[2] \in Codes => e[2] \in verified

(* Under the gate a tenant runs generated code only after an approver of   *)
(* its own approved or restored a synthesized version; another tenant's    *)
(* approval does not carry over.                                           *)
OwnTenantDecided ==
  required => \A e \in ran : e[2] \in Codes =>
    \E v \in approved[e[1]] \cup restored[e[1]] : v \in SynthesizedRows(e[1])

(* An approval of a generated module that has committed left something     *)
(* runnable under the name, across restarts, lost files and failed         *)
(* imports.                                                                *)
ApprovedIsLoaded ==
  \A t \in Tenants : approved[t] \cap GeneratedRows(t) # {} => registry # None

(* The docstring of rollback_to: only a version that was approved before   *)
(* is activated again.                                                     *)
(* (The code does not: README, "Known disagreements".)                     *)
RollbackRestoresApproved ==
  \A t \in Tenants : restored[t] \subseteq approved[t]
=============================================================================
