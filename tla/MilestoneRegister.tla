--------------------------- MODULE MilestoneRegister ---------------------------
(***************************************************************************)
(* The gate over the repository's persistent milestone state                *)
(* (scripts/check_milestones.py over milestones.yaml and PROGRESS.md).       *)
(*                                                                         *)
(* An identifier is [num, suffix]: the letter of M009A, or "".  An entry of   *)
(* the register is [id, form, status, dependencies, commit].  Its form says    *)
(* what _validate_entry makes of it: "valid", "bad field" (a title, subsystem,  *)
(* notes or list of the wrong type, or empty), or "no id" (not a mapping, a       *)
(* field missing, or an identifier off the pattern).  A commit is "null",          *)
(* "hash", "self" (the text self (...)) or "other".  PROGRESS.md is a function      *)
(* from the required fields it has to the identifier each begins with; the five      *)
(* fields that are only required stand as "other fields".                          *)
(***************************************************************************)
EXTENDS Integers, FiniteSets, Sequences, FiniteSetsExt

CONSTANTS
    Running           \* the gate has not returned

ASSUME RunningAssumption == Running \notin {0, 1}

VARIABLES
    files,            \* milestones.yaml and PROGRESS.md, [data, progress]: never written here
    exit_code         \* Running, 0 or 1; an exception also ends the process with 1

vars == <<files, exit_code>>

\* What the parsed files hold: an entry that fails to be a mapping, or lacks fields, still
\* stands for itself.
Identifier == [num : Nat, suffix : STRING]
Entry == [id : Identifier, form : {"valid", "bad field", "no id"}, status : STRING,
          dependencies : SUBSET Identifier, commit : {"null", "hash", "self", "other"}]

ALLOWED_STATES == {"pending", "active", "blocked", "complete"}
PROGRESS_FIELDS ==
    {"Last completed milestone", "Next milestone", "Most recent pushed commit", "other fields"}

\* The error of this kind, about these identifiers, when the condition holds.
ErrorIf(condition, kind, about) == IF condition THEN {[error |-> kind, about |-> about]} ELSE {}

-------------------------------------------------------------------------------
\* _validate_entry.
ValidateEntry(milestone) ==
    IF milestone.form = "no id" THEN ErrorIf(TRUE, "entry", {})
    ELSE ErrorIf(milestone.status \notin ALLOWED_STATES, "status", {milestone.id})
         \cup ErrorIf(milestone.form # "valid", "field", {milestone.id})

\* The entries whose identifiers validate_milestones collects, and these identifiers.
Named(milestones) == {k \in DOMAIN milestones : milestones[k].form # "no id"}
Ids(milestones) == {milestones[k].id : k \in Named(milestones)}

\* positions[id]: a dictionary keeps the last entry of an identifier.  An entry stands for
\* its index in ids: the two are in the same order.
Position(milestones, id) == Max({k \in Named(milestones) : milestones[k].id = id})

\* statuses, likewise.
Statuses(milestones) ==
    LET kept == {k \in DOMAIN milestones :
                    milestones[k].id \in Ids(milestones) /\ milestones[k].status \in ALLOWED_STATES}
    IN  [id \in {milestones[k].id : k \in kept} |->
            milestones[Max({k \in kept : milestones[k].id = id})].status]

-------------------------------------------------------------------------------
\* Mutant: a dependency may stand at the milestone's own position.
OrderErrors_NotStrict(milestones, id, dependency) ==
    IF dependency \in Ids(milestones)
    THEN ErrorIf(Position(milestones, dependency) > Position(milestones, id),
                 "must appear earlier", {id, dependency})
    ELSE ErrorIf(TRUE, "unknown dependency", {id, dependency})

\* The errors of a dependency as such.
OrderErrors(milestones, id, dependency) ==
    IF dependency \in Ids(milestones)
    THEN ErrorIf(Position(milestones, dependency) >= Position(milestones, id),
                 "must appear earlier", {id, dependency})
    ELSE ErrorIf(TRUE, "unknown dependency", {id, dependency})

\* Mutant: blocked and pending milestones are held to it too.
CompletionErrors_EveryStatus(statuses, milestone) ==
    LET incomplete == {d \in milestone.dependencies : d \notin DOMAIN statuses \/ statuses[d] # "complete"}
    IN  ErrorIf(incomplete # {}, "incomplete dependencies", incomplete)

\* What an active or complete milestone needs of its direct dependencies.
CompletionErrors(statuses, milestone) ==
    LET incomplete == {d \in milestone.dependencies : d \notin DOMAIN statuses \/ statuses[d] # "complete"}
    IN  ErrorIf(milestone.status \in {"active", "complete"} /\ incomplete # {},
                "incomplete dependencies", incomplete)

\* _validate_dependencies.
ValidateDependencies(milestones) ==
    LET statuses == Statuses(milestones)
        active == {id \in DOMAIN statuses : statuses[id] = "active"}
        MilestoneErrors(m) ==
            CompletionErrors(statuses, m)
            \cup UNION {OrderErrors(milestones, m.id, d) : d \in m.dependencies}
    IN  ErrorIf(Cardinality(active) # 1, "exactly one active", active)
        \cup UNION {MilestoneErrors(milestones[k]) :
                        k \in {k \in DOMAIN milestones : milestones[k].id \in Ids(milestones)}}

\* _validate_commits.
ValidateCommits(milestones) ==
    LET known == {k \in DOMAIN milestones : milestones[k].id \in Ids(milestones)}
        complete == {k \in known : milestones[k].status = "complete"}
        CommitValid(m) ==
            IF m.status # "complete" THEN m.commit = "null"
            ELSE \/ m.commit = "hash"
                 \/ m.commit = "self" /\ m.id = milestones[Max(complete)].id
    IN  UNION {ErrorIf(~CommitValid(milestones[k]), "commit", {milestones[k].id}) : k \in known}

\* validate_milestones.
ValidateMilestones(data) ==
    LET milestones == data.milestones
        duplicates == {milestones[k].id : k \in {k \in Named(milestones) :
                          \E j \in Named(milestones) : j < k /\ milestones[j].id = milestones[k].id}}
    IN  IF data.schema_version # 1 THEN ErrorIf(TRUE, "schema_version", {})
        ELSE IF milestones = <<>> THEN ErrorIf(TRUE, "nonempty list", {})
        ELSE (UNION {ValidateEntry(milestones[k]) : k \in DOMAIN milestones})
             \cup ErrorIf(duplicates # {}, "duplicate IDs", duplicates)
             \cup ValidateDependencies(milestones)
             \cup ValidateCommits(milestones)

-------------------------------------------------------------------------------
\* str.startswith of a field that begins with the identifier text.
StartsWith(text, id) == text.num = id.num /\ id.suffix \in {"", text.suffix}

\* validate_progress.
ValidateProgress(data, progress) ==
    LET milestones == data.milestones
        Having(status) == {k \in DOMAIN milestones : milestones[k].status = status}
        Mismatch(field, id) == ErrorIf(~StartsWith(progress[field], id), field, {id})
        latest == milestones[Max(Having("complete"))].id
    IN  IF DOMAIN progress # PROGRESS_FIELDS THEN ErrorIf(TRUE, "missing fields", {})
        ELSE (IF Having("complete") = {} THEN {}
              ELSE Mismatch("Last completed milestone", latest)
                   \cup Mismatch("Most recent pushed commit", latest))
             \cup UNION {Mismatch("Next milestone", milestones[k].id) :
                            k \in {k \in Having("active") : Having("active") = {k}}}

-------------------------------------------------------------------------------
\* Whatever the files hold, the gate starts.
Init ==
    /\ files.data.milestones \in Seq(Entry)
    /\ exit_code = Running

\* main.
Main ==
    /\ exit_code = Running
    /\ exit_code' = IF /\ ValidateMilestones(files.data) = {}
                       /\ ValidateProgress(files.data, files.progress) = {}
                    THEN 0 ELSE 1
    /\ UNCHANGED files

Next == Main

Spec == Init /\ [][Next]_vars

-------------------------------------------------------------------------------
\* What the register means, over its whole dependency graph.
Register == files.data.milestones

\* What a milestone names as its dependencies.
Direct(id) == UNION {Register[k].dependencies : k \in {k \in DOMAIN Register : Register[k].id = id}}

\* The prerequisites of a milestone, direct and indirect: what every set holds that has
\* its dependencies and the dependencies of its own members.
Dependencies == UNION {Register[k].dependencies : k \in DOMAIN Register}
HoldsPrerequisites(S, id) == Direct(id) \subseteq S /\ \A d \in S : Direct(d) \subseteq S
Prerequisites(id) ==
    {d \in Dependencies : \A S \in SUBSET Dependencies : HoldsPrerequisites(S, id) => d \in S}

With(status) == {k \in DOMAIN Register : Register[k].status = status}
Completed == {Register[k].id : k \in With("complete")}

PlanConsistent ==
    /\ \A j, k \in DOMAIN Register : Register[j].id = Register[k].id => j = k
    /\ \A k \in DOMAIN Register : Register[k].id \notin Prerequisites(Register[k].id)
    /\ \A k \in With("active") \cup With("complete") : Prerequisites(Register[k].id) \subseteq Completed
    /\ \E k \in DOMAIN Register : With("active") = {k}
    /\ \A k \in DOMAIN Register : Register[k].commit # "null" <=> k \in With("complete")
    /\ \A j, k \in DOMAIN Register : Register[j].commit = "self" /\ Register[k].commit = "self" => j = k

\* A register the gate passes is a plan that can be resumed: no milestone waits on
\* itself through any chain, nothing is started before everything it rests on, near or
\* far, is complete, one milestone is active, and at most one completion has no hash
\* (check_milestones.py:66-147 looks at direct dependencies only).
AcceptedPlanConsistent == exit_code = 0 => PlanConsistent

\* The converse, for a register that lists every milestone after its prerequisites: the
\* gate passes whatever a consistent plan may be in the middle of, a pending milestone
\* whose dependencies are open included (check_milestones.py:88-89).
ListedInOrder ==
    \A k \in DOMAIN Register : Prerequisites(Register[k].id) \subseteq {Register[j].id : j \in 1 .. k - 1}
WellFormed ==
    /\ files.data.schema_version = 1
    /\ \A k \in DOMAIN Register :
         /\ Register[k].form = "valid"
         /\ Register[k].status \in ALLOWED_STATES
         /\ Register[k].commit # "other"
ResumeStateExact ==
    /\ DOMAIN files.progress = PROGRESS_FIELDS
    /\ \A k \in With("active") : files.progress["Next milestone"] = Register[k].id
    /\ \A k \in With("complete") : (\A j \in With("complete") : j <= k)
         => /\ files.progress["Last completed milestone"] = Register[k].id
            /\ files.progress["Most recent pushed commit"] = Register[k].id
SelfOnlyLatest ==
    \A j \in DOMAIN Register, k \in With("complete") : Register[j].commit = "self" => k <= j
ConsistentPlanAccepted ==
    WellFormed /\ PlanConsistent /\ ListedInOrder /\ SelfOnlyLatest /\ ResumeStateExact
        => exit_code # 1

\* "Cross-check human-readable progress against machine-readable state": when the gate
\* passes, the fields of PROGRESS.md name the milestones the register says they do
\* (check_milestones.py:161, error texts at 171-175).
ProgressNamesState ==
    exit_code = 0 => ResumeStateExact
===============================================================================
