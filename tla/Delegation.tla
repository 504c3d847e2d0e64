------------------------------ MODULE Delegation ------------------------------
(***************************************************************************)
(* Specialists at work: the steps of one task that call the skill          *)
(* delegate_to_specialist (agents/skills/delegate.py) side by side, and an *)
(* investigation (api/routes/investigations.py), that is an AgentLoop      *)
(* (agents/loop.py) whose policy (agents/policy.py) may call a skill,      *)
(* delegate, or use that same skill.  The structural limits of both are in *)
(* a DelegationRegistry (agents/delegation.py): one for the task, shared   *)
(* by its steps, one for the loop, and a fresh one for a skill call        *)
(* without a task id.                                                      *)
(*                                                                         *)
(* A caller waits for one delegation at a time, so a delegation is named   *)
(* by its caller.  Its acceptance criteria are chosen when they are first  *)
(* looked at, by the review.  The shipped specialists call no model.       *)
(***************************************************************************)
EXTENDS Integers, Sequences, FiniteSets, Critic

CONSTANTS
  Steps,          \* steps of the task that delegate
  Loop,           \* the investigation
  Agents,         \* specialists
  AgentTools,     \* AgentManifest.tools
  Tools,          \* the deployment's skills
  ReadOnlyTools,  \* those whose risk is read_only
  Objectives,     \* objectives a delegation may state
  Supervise,      \* the objective of the root of a skill's tree
  Asked,          \* the objective of the investigation
  Ceilings,       \* max_llm_calls an investigation may be given
  MaxIterations, StallThreshold,           \* of AgentLoop
  MaxConcurrency, MaxChildren, MaxDepth,   \* DelegationLimits; every registry
                                           \* is made with the defaults
  MaxAttempts,    \* Settings.max_replan_attempts + 1
  MaxTrees        \* bound: trees made in the task's name

Callers == Steps \cup {Loop}

ASSUME CallersAssumption == IsFiniteSet(Steps) /\ Loop \notin Steps
ASSUME ToolsAssumption == ReadOnlyTools \subseteq Tools /\ AgentTools \in [Agents -> SUBSET Tools]
ASSUME ObjectivesAssumption == Asked \in Objectives /\ Supervise \notin Objectives
ASSUME LimitsAssumption ==
  /\ {MaxIterations, StallThreshold, MaxAttempts, MaxTrees} \subseteq Nat \ {0}
  /\ {MaxConcurrency, MaxChildren, MaxDepth} \subseteq Nat \ {0}
  /\ Ceilings \subseteq Nat

(* The trees: those made for the task one after the other, the loop's own, *)
(* and the one of a skill call by the loop.                                *)
TaskTrees == 1 .. MaxTrees
LoopTree == 0
StrayTree == -1
Trees == TaskTrees \cup {LoopTree, StrayTree}
NoTree == -2

VARIABLES
  attempt,    \* number of the plan whose steps these are; 0: the task is over
  cancelled,  \* the task was cancelled, its steps may still run
  current,    \* _REGISTRIES[task_id], NoTree without one
  made,       \* trees made for the task
  admitted,   \* history: delegations of this attempt that were admitted
  strays,     \* some tree of _REGISTRIES belongs to no task
  tree,       \* per registry: children of its root, holders of its semaphore
  del,        \* the delegation of each caller
  ceiling,    \* max_llm_calls of the investigation
  loop,       \* where the loop stands
  trace,      \* the fingerprints of its iterations
  result,     \* its stop reason
  spent,      \* llm_calls of its tracker
  unmetered,  \* history: model calls it caused that no tracker saw
  misjudged   \* history: a delegation reported success although its specialist
              \* failed or its criteria were not all met

treeVars == <<attempt, cancelled, current, made, admitted, strays, tree>>
loopVars == <<ceiling, loop, trace, result, spent, unmetered>>
delegationVars == <<treeVars, del, loopVars, misjudged>>

Idle == [pc |-> "idle", tree |-> NoTree, tools |-> {}, succeeded |-> FALSE]
EmptyTree == [children |-> 0, holders |-> {}]

DelegationInit ==
  /\ attempt = 1 /\ cancelled = FALSE
  /\ current = NoTree /\ made = 0 /\ admitted = 0 /\ strays = FALSE
  /\ tree = [t \in Trees |-> EmptyTree]
  /\ del = [c \in Callers |-> Idle]
  /\ ceiling \in Ceilings
  /\ loop = "deciding" /\ trace = <<>> /\ result = "none" /\ spent = 0 /\ unmetered = 0
  /\ misjudged = FALSE

-----------------------------------------------------------------------------
(* The registry: what authorize_delegation requires of a child of the root. *)

RootObjective(t) == IF t = LoopTree THEN Asked ELSE Supervise

MayDelegate(t, objective) ==
  /\ 1 <= MaxDepth
  /\ tree[t].children + 1 <= MaxChildren
  /\ objective # RootObjective(t)

(* The tools of the child contract (child_of), and what AgentContext.tool  *)
(* hands out: those the contract authorizes among those of the context.    *)
Authorizes(granted, tool) == granted = {} \/ tool \in granted

ChildTools(parent, requested) == IF parent = {} THEN requested ELSE requested \cap parent

(* The skill's root contract is unrestricted, its context holds the child's *)
(* tools by name.                                                          *)
SkillTools(agent) == ChildTools({}, AgentTools[agent])

(* A mutant: the context offers what the specialist declares.              *)
LoopTools_AsDeclared(agent) == AgentTools[agent]

(* The loop holds the read-only skills; a specialist without tools gets    *)
(* the loop's, and one left with none is unrestricted among them.          *)
LoopTools(agent) ==
  LET requested == IF AgentTools[agent] = {} THEN ReadOnlyTools ELSE AgentTools[agent]
      granted == ChildTools(ReadOnlyTools, requested)
  IN {tool \in ReadOnlyTools : Authorizes(granted, tool)}

(* The declared risk is true: no mutating tool in the manifest.            *)
SkillAccepts(agent) == AgentTools[agent] \subseteq ReadOnlyTools

(* A delegation admitted to tree t.                                        *)
Admitted(t) == [tree EXCEPT ![t].children = @ + 1]
Delegated(t, tools) == [Idle EXCEPT !.pc = "queued", !.tree = t, !.tools = tools]

-----------------------------------------------------------------------------
(* delegate_to_specialist, called by a step of the task.                   *)

(* A mutant: every call makes its own tree.                                *)
TreeFor_PerCall == made + 1

(* _tree_for: the task's tree, made on first use, also after its release.  *)
TreeFor == IF current = NoTree THEN made + 1 ELSE current

(* The step was started before a cancellation: the call may come later.    *)
CallSkill(c, agent, objective) ==
  LET t == TreeFor IN
  /\ del[c].pc = "idle" /\ SkillAccepts(agent)
  /\ t \in TaskTrees
  /\ current' = t /\ made' = IF t > made THEN t ELSE made
  /\ IF MayDelegate(t, objective)
     THEN /\ tree' = Admitted(t) /\ admitted' = admitted + 1
          /\ del' = [del EXCEPT ![c] = Delegated(t, SkillTools(agent))]
     ELSE /\ del' = [del EXCEPT ![c].pc = "failed"]
          /\ UNCHANGED <<tree, admitted>>
  /\ UNCHANGED <<attempt, cancelled, strays, loopVars, misjudged>>

(* A specialist that declares a mutating tool is refused before the tree   *)
(* is touched.                                                             *)
RefuseAgent(c, agent) ==
  /\ del[c].pc = "idle" /\ ~SkillAccepts(agent)
  /\ del' = [del EXCEPT ![c].pc = "failed"]
  /\ UNCHANGED <<treeVars, loopVars, misjudged>>

(* A step that does not delegate after all: it was skipped or failed.      *)
SkipStep(c) ==
  /\ del[c].pc = "idle"
  /\ del' = [del EXCEPT ![c].pc = "failed"]
  /\ UNCHANGED <<treeVars, loopVars, misjudged>>

(* run_bounded: the specialist starts when the tree's semaphore admits it. *)
StartSpecialist(c) ==
  /\ del[c].pc = "queued"
  /\ Cardinality(tree[del[c].tree].holders) < MaxConcurrency
  /\ tree' = [tree EXCEPT ![del[c].tree].holders = @ \cup {c}]
  /\ del' = [del EXCEPT ![c].pc = "running"]
  /\ UNCHANGED <<attempt, cancelled, current, made, admitted, strays, loopVars, misjudged>>

(* The semaphore is released before the review.                            *)
ReleaseSlot(c) == tree' = [tree EXCEPT ![del[c].tree].holders = @ \ {c}]

(* An admitted delegation of a step is over, with a result or without.     *)
Over(c) == del' = [del EXCEPT ![c] = [Idle EXCEPT !.pc = "done"]]

SpecialistReturns(c, succeeded) ==
  /\ del[c].pc = "running" /\ del[c].tree # LoopTree
  /\ ReleaseSlot(c)
  /\ del' = [del EXCEPT ![c].pc = "reviewing", ![c].tools = {},
                            ![c].succeeded = succeeded]
  /\ UNCHANGED <<attempt, cancelled, current, made, admitted, strays, loopVars, misjudged>>

SpecialistRaises(c) ==
  /\ del[c].pc = "running" /\ c \in Steps
  /\ ReleaseSlot(c)
  /\ Over(c)
  /\ UNCHANGED <<attempt, cancelled, current, made, admitted, strays, loopVars, misjudged>>

(* Critic.review of any contract, with any answer of the reviewer: whether *)
(* it asks the model, whether it accepts, and whether something speaks     *)
(* against that.                                                           *)
Reviews ==
  UNION {{[asked |-> AsksModel(terms, TRUE),
           accepted |-> Accepts(terms, TRUE, response),
           unsatisfied |-> Unsatisfied(terms, response)] : response \in Replies(terms)} :
         terms \in Contracts}

(* "succeeded" of the skill's result: the specialist's word and the        *)
(* critic's verdict.                                                       *)
ReportsSuccess(c, review) == del[c].succeeded /\ review.accepted

Reported(c, review) ==
  misjudged' = \/ misjudged
               \/ /\ ReportsSuccess(c, review)
                  /\ (~del[c].succeeded \/ review.unsatisfied)

Review(c, review) ==
  /\ del[c].pc = "reviewing" /\ c \in Steps
  /\ Reported(c, review)
  /\ Over(c)
  /\ UNCHANGED <<treeVars, loopVars>>

(* The reviewer cannot be reached: the skill raises, the step fails.       *)
ReviewRaises(c) ==
  /\ del[c].pc = "reviewing" /\ c \in Steps
  /\ Over(c)
  /\ UNCHANGED <<treeVars, loopVars, misjudged>>

(* _settle, _release_thread: an attempt is over when all its steps are.    *)
(* Its tree is released.  The next attempt (_drive_with_ledger) has steps  *)
(* of its own.                                                             *)
Settle(replanned) ==
  /\ ~cancelled /\ attempt # 0
  /\ \A c \in Steps : del[c].pc \in {"done", "failed"}
  /\ replanned => attempt < MaxAttempts
  /\ attempt' = IF replanned THEN attempt + 1 ELSE 0
  /\ current' = NoTree /\ admitted' = 0
  /\ del' = IF replanned THEN [c \in Callers |-> IF c = Loop THEN del[c] ELSE Idle] ELSE del
  /\ UNCHANGED <<cancelled, made, strays, tree, loopVars, misjudged>>

(* cancel_task releases the tree while the steps run; such a run is not    *)
(* settled.                                                                *)
CancelTask ==
  /\ ~cancelled /\ attempt # 0
  /\ cancelled' = TRUE /\ current' = NoTree
  /\ UNCHANGED <<attempt, made, admitted, strays, tree, del, loopVars, misjudged>>

-----------------------------------------------------------------------------
(* The investigation.                                                      *)

Stop(reason) == loop' = "returned" /\ result' = reason /\ UNCHANGED ceiling

(* A mutant: the latest observation is not among those counted.            *)
Repeats_Earlier(s, fingerprint) == Cardinality({i \in 1 .. (Len(s) - 1) : s[i] = fingerprint})

Repeats(s, fingerprint) == Cardinality({i \in DOMAIN s : s[i] = fingerprint})

(* An iteration is kept, then _route decides.                              *)
Observed(fingerprint) ==
  LET grown == Append(trace, fingerprint) IN
  /\ trace' = grown
  /\ IF Repeats(grown, fingerprint) >= StallThreshold THEN Stop("stalled")
     ELSE IF Len(grown) >= MaxIterations THEN Stop("max_iterations")
     ELSE loop' = "deciding" /\ UNCHANGED <<ceiling, result>>

(* LLMCatalogue.complete checks the tracker before the call.               *)
Affordable == spent + 1 <= ceiling

AskPolicy ==
  /\ loop = "deciding"
  /\ IF Affordable THEN loop' = "thinking" /\ UNCHANGED <<ceiling, result>>
     ELSE Stop("budget_exhausted")
  /\ UNCHANGED <<treeVars, del, trace, spent, unmetered, misjudged>>

(* The provider fails; nothing is recorded and the loop ends.              *)
PolicyRaises ==
  /\ loop = "thinking"
  /\ Stop("failed")
  /\ UNCHANGED <<treeVars, del, trace, spent, unmetered, misjudged>>

(* The answer is recorded, then parsed: an unusable one ends the loop.     *)
Answered == loop = "thinking" /\ spent' = spent + 1

Conclude ==
  /\ Answered
  /\ \E reason \in {"goal_reached", "failed"} : Stop(reason)
  /\ UNCHANGED <<treeVars, del, trace, unmetered, misjudged>>

(* A finish whose evidence is not a list of numbers: run() raises, and     *)
(* there is no result.                                                     *)
ConcludeRaises ==
  /\ Answered
  /\ loop' = "raised"
  /\ UNCHANGED <<treeVars, del, ceiling, trace, result, unmetered, misjudged>>

(* A skill, a chain or an agent that is not there or not authorized, or a  *)
(* delegation without an objective: a failed observation at once.          *)
ActionRefused ==
  /\ Answered
  /\ Observed("refused")
  /\ UNCHANGED <<treeVars, del, unmetered, misjudged>>

CallTool ==
  /\ Answered
  /\ loop' = "acting"
  /\ UNCHANGED <<treeVars, del, ceiling, trace, result, unmetered, misjudged>>

ToolReturns(observation) ==
  /\ loop = "acting" /\ del[Loop].pc = "idle"
  /\ Observed(observation)
  /\ UNCHANGED <<treeVars, del, spent, unmetered, misjudged>>

(* _act_delegate: register_child in the loop's own registry, then the      *)
(* specialist runs, without the semaphore.                                 *)
Delegate(agent, objective) ==
  /\ Answered
  /\ IF MayDelegate(LoopTree, objective)
     THEN /\ tree' = Admitted(LoopTree)
          /\ del' = [del EXCEPT ![Loop] = [Delegated(LoopTree, LoopTools(agent))
                                             EXCEPT !.pc = "running"]]
          /\ loop' = "acting"
          /\ UNCHANGED <<ceiling, trace, result>>
     ELSE /\ Observed("refused")
          /\ UNCHANGED <<tree, del>>
  /\ UNCHANGED <<attempt, cancelled, current, made, admitted, strays, unmetered, misjudged>>

(* The loop calls delegate_to_specialist as a skill: no task id, so a tree *)
(* of its own, which nobody releases.                                      *)
DelegateBySkill(agent) ==
  /\ Answered /\ SkillAccepts(agent)
  /\ tree' = [tree EXCEPT ![StrayTree] = [EmptyTree EXCEPT !.children = 1]]
  /\ strays' = TRUE
  /\ del' = [del EXCEPT ![Loop] = Delegated(StrayTree, SkillTools(agent))]
  /\ loop' = "acting"
  /\ UNCHANGED <<attempt, cancelled, current, made, admitted, ceiling, trace, result, unmetered,
                 misjudged>>

(* A specialist of the loop's own delegation: its result is believed.      *)
DelegateReturns(observation) ==
  /\ del[Loop].pc = "running" /\ del[Loop].tree = LoopTree
  /\ del' = [del EXCEPT ![Loop] = Idle]
  /\ Observed(observation)
  /\ UNCHANGED <<treeVars, spent, unmetered, misjudged>>

(* The review of the loop's skill call: a model call on a catalogue that   *)
(* has no tracker.                                                         *)
ReviewInLoop(review, observation) ==
  /\ del[Loop].pc = "reviewing"
  /\ Reported(Loop, review)
  /\ unmetered' = unmetered + (IF review.asked THEN 1 ELSE 0)
  /\ del' = [del EXCEPT ![Loop] = Idle]
  /\ Observed(observation)
  /\ UNCHANGED <<treeVars, spent>>

-----------------------------------------------------------------------------
Observations == {"same", "other"}

StepNext ==
  \/ \E c \in Steps :
       \/ \E agent \in Agents, objective \in Objectives : CallSkill(c, agent, objective)
       \/ \E agent \in Agents : RefuseAgent(c, agent)
       \/ SkipStep(c)
       \/ SpecialistRaises(c) \/ ReviewRaises(c)
       \/ \E review \in Reviews : Review(c, review)
  \/ \E replanned \in BOOLEAN : Settle(replanned)
  \/ CancelTask

Specialist(c) ==
  \/ StartSpecialist(c)
  \/ \E succeeded \in BOOLEAN : SpecialistReturns(c, succeeded)

LoopNext ==
  \/ AskPolicy \/ PolicyRaises \/ Conclude \/ ConcludeRaises \/ ActionRefused \/ CallTool
  \/ \E agent \in Agents, objective \in Objectives : Delegate(agent, objective)
  \/ \E agent \in Agents : DelegateBySkill(agent)
  \/ \E observation \in Observations :
       \/ ToolReturns(observation)
       \/ DelegateReturns(observation)
       \/ \E review \in Reviews : ReviewInLoop(review, observation)

DelegationNext == StepNext \/ LoopNext \/ \E c \in Callers : Specialist(c)

DelegationSpec == DelegationInit /\ [][DelegationNext]_delegationVars

-----------------------------------------------------------------------------
(* A specialist reached by a read-only path never gets hold of a mutating  *)
(* tool, whatever its manifest and its parent's contract leave of its      *)
(* grant (delegate.py "The declared risk is true", investigations.py).     *)
OnlyReads == \A c \in Callers : del[c].pc = "running" => del[c].tools \subseteq ReadOnlyTools

(* The steps of an attempt share one tree: however they interleave, no     *)
(* more specialists run at once and no more are admitted in all than the   *)
(* limits say (delegate.py "shared across sibling steps"), until the task  *)
(* is cancelled.                                                           *)
LimitsAreShared ==
  ~cancelled =>
    /\ Cardinality({c \in Steps : del[c].pc = "running"}) <= MaxConcurrency
    /\ admitted <= MaxChildren

(* delegate.py: the registry is "the task's own", its limits "count the    *)
(* whole tree rather than one step at a time", until "a task reaches a     *)
(* terminal state": over all its attempts a task has at most the children  *)
(* of one tree.                                                            *)
(* (The code does not: README, "Known disagreements".)                     *)
TaskLimitHolds == \A t, u \in TaskTrees : t # u => tree[t].children + tree[u].children <= MaxChildren

(* A delegation reports success only if its specialist did and every       *)
(* criterion may be taken as met: no machine check failed, no criterion's  *)
(* own entry in the reviewer's answer rejects it, and none is without an   *)
(* entry unless there is junk in the answer (_review_by_model).            *)
AcceptedIsReviewed == ~misjudged

(* The loop says why it stopped, and it is so.                             *)
StopReasonTrue ==
  /\ result = "stalled" <=> \E x \in Observations \cup {"refused"} :
                              Cardinality({i \in DOMAIN trace : trace[i] = x}) >= StallThreshold
  /\ result = "max_iterations" => Len(trace) = MaxIterations
  /\ result = "budget_exhausted" => spent = ceiling
  /\ Len(trace) <= MaxIterations /\ spent <= ceiling

(* The ceiling of the request covers every model call the investigation    *)
(* causes (investigations.py:78).                                          *)
(* (The code does not: README, "Known disagreements".)                     *)
CeilingHolds == spent + unmetered <= ceiling

===============================================================================
