------------------------- MODULE MCThreadPoolPlans --------------------------
(* Programs that keep to one of two ways to use a pool: those that finish    *)
(* it, and those that resize it for as long as they run.                     *)
EXTENDS MCThreadPool

VARIABLE plan

PlannedCalls == FinishCalls \cup ShrinkCalls

PlanInit == Init /\ plan \in {FinishCalls, ShrinkCalls}

Keeps(c) == c = NoCall \/ c \in plan

PlanNext == Next /\ plan' = plan /\ (call' # call /\ cpc # "start" => Keeps(call'))

PlanSpec == PlanInit /\ [][PlanNext]_<<vars, plan>> /\ Fairness
=============================================================================
