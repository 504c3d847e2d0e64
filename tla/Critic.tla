-------------------------------- MODULE Critic --------------------------------
(***************************************************************************)
(* The review of a specialist's result against the acceptance criteria of  *)
(* its contract (agents/critic.py).                                        *)
(*                                                                         *)
(* A criterion is checked by a named machine check, or judged by a model:  *)
(* one call returns the verdicts of all judged criteria, in order.  An     *)
(* entry of its answer that is not an object is junk.                      *)
(***************************************************************************)
EXTENDS Naturals, Sequences, FiniteSets, SequencesExt

CONSTANTS
  MaxJudged,  \* bound: judged criteria of a contract
  MaxEntries  \* bound: entries of a reviewer's answer

ASSUME CriticAssumption == MaxJudged \in Nat /\ MaxEntries \in Nat

(* What the reviewer may return: a list, or a text that is no list.  The   *)
(* "passed" of an entry is a Boolean, or a "text": any other value that    *)
(* bool() takes for true, such as the string "false".                      *)
Answers == SeqOf({"passed", "failed", "text", "junk"}, MaxEntries)
Unparseable == <<"unparseable">>
Responses == Answers \cup {Unparseable}
Silent == <<>>

(* A contract: how many criteria are judged, and how its machine checks    *)
(* come out; a check that does not exist fails.                            *)
Contracts == [judged : 0 .. MaxJudged, machine : BOOLEAN]

(* _parse_review_response keeps the objects of the list: these are the     *)
(* places of the verdicts, and the number of the verdict at place i.       *)
Verdicts(answer) == {i \in DOMAIN answer : answer[i] # "junk"}
Number(answer, i) == Cardinality({j \in Verdicts(answer) : j <= i})

Truthy == {"passed", "text"}

(* A mutant: a criterion without a verdict counts as passed.               *)
JudgedPassed_Lenient(n, response) ==
  \A i \in Verdicts(response) : Number(response, i) <= n => response[i] \in Truthy \cup {"unparseable"}

(* _review_by_model: the n-th criterion takes the n-th verdict, wherever   *)
(* it stood.  A criterion without a verdict fails, and so does every       *)
(* criterion when the answer cannot be parsed.                             *)
JudgedPassed(n, response) ==
  /\ response # Unparseable
  /\ Cardinality(Verdicts(response)) >= n
  /\ \A i \in Verdicts(response) : Number(response, i) <= n => response[i] \in Truthy

(* What comes back in a review of a contract: nothing, without a call.     *)
Replies(contract) == IF contract.judged > 0 THEN Responses ELSE {Silent}

(* Critic.review asks the model only about judged criteria, if it has one. *)
AsksModel(contract, reviewer) == contract.judged > 0 /\ reviewer
Accepts(contract, reviewer, response) ==
  /\ contract.machine
  /\ contract.judged > 0 => reviewer /\ JudgedPassed(contract.judged, response)

(* What speaks against acceptance: a machine check failed, a criterion's   *)
(* own entry rejects it, or, in an answer without junk, it has none.       *)
Unsatisfied(contract, response) ==
  \/ ~contract.machine
  \/ \E i \in 1 .. contract.judged : i \in DOMAIN response /\ response[i] = "failed"
  \/ /\ \A i \in DOMAIN response : response[i] # "junk"
     /\ \E i \in 1 .. contract.judged : i \notin DOMAIN response

(* critic.py, docstring of Critic: a criterion that nothing checked is     *)
(* never passed.  An accepted contract has, for every judged criterion, an *)
(* entry at its place that says passed.                                    *)
(* (The code does not: README, "Known disagreements".)                     *)
AcceptedIsPassed ==
  \A contract \in Contracts : \A response \in Replies(contract) :
    Accepts(contract, TRUE, response) =>
      \A i \in 1 .. contract.judged : i \in DOMAIN response /\ response[i] = "passed"

===============================================================================
