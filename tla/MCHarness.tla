------------------------------ MODULE MCHarness ------------------------------
EXTENDS Harness, TLC
CONSTANTS none
Step(skill, text, spelling, needs) ==
  [skill |-> skill, text |-> text, spelling |-> spelling, needs |-> needs]
MCDigit == "read" :> none @@ "send" :> none @@ "s3_read" :> 3
MCPlans ==
  {<<Step("read", "a", "a", {})>>, <<Step("read", "a", "A", {})>>,
   <<Step("read", "a", "a", {}), Step("send", "b", "b", {1})>>,
   <<Step("send", "a", "a", {}), Step("s3_read", "b", "b", {1})>>,
   <<>>}
=============================================================================
