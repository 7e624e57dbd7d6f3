------------------------- MODULE MC_MilestoneRegister -------------------------
(***************************************************************************)
(* Registers of up to three milestones over the identifiers M009, M009A and   *)
(* M010, in three families: every dependency graph and status with the          *)
(* commits in order, every commit, form and status without dependencies, and      *)
(* every PROGRESS.md against registers in order.                               *)
(***************************************************************************)
EXTENDS MilestoneRegister

M009 == [num |-> 9, suffix |-> ""]
M009A == [num |-> 9, suffix |-> "A"]
M010 == [num |-> 10, suffix |-> ""]
MCIds == {M009, M009A, M010}
Unlisted == [num |-> 11, suffix |-> ""]

Orders == {<<M009, M009A, M010>>, <<M010, M009A, M009>>, <<M009, M010, M009>>, <<M009A, M009>>}
AllStatuses == ALLOWED_STATES \cup {"other"}

\* At most one dependency in most entries; two open the diamonds.
DependencySets == {{}} \cup {{d} : d \in MCIds \cup {Unlisted}} \cup {{M009, M009A}}

LatestComplete(order, status) ==
    LET done == {k \in DOMAIN order : status[k] = "complete"}
    IN  IF done = {} THEN 0 ELSE CHOOSE k \in done : \A j \in done : j <= k

Entries(order, status, dependencies, commit, form) ==
    [k \in DOMAIN order |->
        [id |-> order[k], form |-> form[k], status |-> status[k],
         dependencies |-> dependencies[k], commit |-> commit[k]]]

Commits(order, status, latest) ==
    [k \in DOMAIN order |->
        IF status[k] # "complete" THEN "null"
        ELSE IF k = LatestComplete(order, status) THEN latest ELSE "hash"]

Resume(last, next, pushed) ==
    [f \in PROGRESS_FIELDS |->
        CASE f = "Last completed milestone" -> last
          [] f = "Next milestone" -> next
          [] f = "Most recent pushed commit" -> pushed
          [] OTHER -> Unlisted]

\* PROGRESS.md as the register would have it.
ExactResume(order, status) ==
    LET latest == LatestComplete(order, status)
        active == {k \in DOMAIN order : status[k] = "active"}
        last == IF latest = 0 THEN Unlisted ELSE order[latest]
    IN  Resume(last, IF active = {} THEN Unlisted ELSE order[CHOOSE k \in active : TRUE], last)

File(version, milestones, progress) ==
    [data |-> [schema_version |-> version, milestones |-> milestones], progress |-> progress]

Valid(order) == [k \in DOMAIN order |-> "valid"]
None(order) == [k \in DOMAIN order |-> {}]

GraphFiles ==
    \E order \in Orders :
    \E status \in [DOMAIN order -> ALLOWED_STATES \ {"blocked"}],
       dependencies \in [DOMAIN order -> DependencySets] :
        files = File(1, Entries(order, status, dependencies, Commits(order, status, "self"), Valid(order)),
                     ExactResume(order, status))

CommitFiles ==
    \E order \in {<<M009, M010>>, <<M009, M009A, M010>>} :
    \E status \in [DOMAIN order -> AllStatuses],
       commit \in [DOMAIN order -> {"null", "hash", "self", "other"}],
       second \in {"valid", "bad field", "no id"} :
        files = File(1, Entries(order, status, None(order), commit, [Valid(order) EXCEPT ![2] = second]),
                     ExactResume(order, status))

ResumeFiles ==
    \E order \in {<<>>, <<M009>>, <<M009, M009A>>, <<M009, M009A, M010>>},
       version \in {1, 2},
       progress \in {Resume(l, n, p) : l, n, p \in MCIds}
                      \cup {[f \in PROGRESS_FIELDS \ {g} |-> Unlisted] : g \in PROGRESS_FIELDS} :
    \E status \in [DOMAIN order -> ALLOWED_STATES] :
        files = File(version, Entries(order, status, None(order), Commits(order, status, "hash"), Valid(order)),
                     progress)

\* Spec from these files.
MCInit == (GraphFiles \/ CommitFiles \/ ResumeFiles) /\ Init

MCSpec == MCInit /\ [][Next]_vars
===============================================================================
