\* Registers of up to three milestones against the meaning of the whole plan.
\* The script ends when it has returned.
SPECIFICATION MCSpec
CHECK_DEADLOCK FALSE
CONSTANTS
    Running = Running
INVARIANTS
    AcceptedPlanConsistent
    ConsistentPlanAccepted
