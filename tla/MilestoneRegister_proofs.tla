----------------------- MODULE MilestoneRegister_proofs -----------------------
(***************************************************************************)
(* Proofs about the milestone gate, for every register and every PROGRESS.md:  *)
(* checks that look at direct dependencies only decide whether the plan as a    *)
(* whole is consistent.                                                      *)
(*                                                                         *)
(* Both directions go through DirectChecks, what a register without errors     *)
(* looks like entry by entry.  From it the set of the milestones before an       *)
(* entry, and the set of the complete milestones, hold all their prerequisites;  *)
(* the transitive prerequisites lie in every such set.                          *)
(***************************************************************************)
EXTENDS MilestoneRegister, SequenceTheorems, FiniteSetTheorems, WellFoundedInduction, TLAPS

USE DEF vars

-----------------------------------------------------------------------------
(* Errors, and the greatest of a set. *)

\* No error of a kind says that its condition does not hold.
LEMMA NoError ==
    ASSUME NEW condition, NEW kind, NEW about
    PROVE  ErrorIf(condition, kind, about) = {} <=> ~condition
    BY DEF ErrorIf

LEMMA MaxOfOne ==
    ASSUME NEW k \in Int
    PROVE  Max({k}) = k
    BY DEF Max

\* A set of positions that is not empty has a greatest, which Max denotes.
LEMMA MaxOfPositions ==
    ASSUME NEW n \in Nat, NEW T \in SUBSET (1 .. n), T # {}
    PROVE  Max(T) \in T /\ \A k \in T : k <= Max(T)
<1> DEFINE back == {n - k : k \in T}
           less == {p \in Nat \X Nat : p[1] < p[2]}
<1>1. IsWellFoundedOn(less, Nat)
  <2>1. OpToRel(<, Nat) = less
      BY DEF OpToRel
  <2> QED
      BY <2>1, NatLessThanWellFounded
<1>2. back \subseteq Nat /\ back # {}
  <2>1. \A k \in T : n - k \in Nat
      OBVIOUS
  <2>2. PICK k : k \in T
      OBVIOUS
  <2>3. n - k \in back
      BY <2>2
  <2> QED
      BY <2>1, <2>3
<1>3. PICK m \in back : \A j \in back : <<j, m>> \notin less
    BY <1>1, <1>2, WFMin
<1>4. PICK k \in T : m = n - k
    BY <1>3
<1>5. \A j \in T : k >= j
  <2> SUFFICES ASSUME NEW j \in T PROVE k >= j
      OBVIOUS
  <2>1. n - j \in back /\ n - j \in Nat /\ m \in Nat
      BY <1>2
  <2>2. ~(n - j < m)
      BY <1>3, <2>1
  <2> QED
      BY <1>4, <2>2
<1>6. Max(T) \in T /\ \A j \in T : Max(T) >= j
    BY <1>5 DEF Max
<1> QED
    BY <1>6

-----------------------------------------------------------------------------
(* The checks, entry by entry. *)

Valid == \A k \in DOMAIN Register :
            Register[k].form = "valid" /\ Register[k].status \in ALLOWED_STATES
Unique == \A j, k \in DOMAIN Register : Register[j].id = Register[k].id => j = k
DependenciesEarlier ==
    \A k \in DOMAIN Register : \A d \in Register[k].dependencies :
        \E j \in DOMAIN Register : j < k /\ Register[j].id = d
DependenciesComplete ==
    \A k \in With("active") \cup With("complete") : Register[k].dependencies \subseteq Completed
OneActive == \E k \in DOMAIN Register : With("active") = {k}
CommitsRight ==
    \A k \in DOMAIN Register :
        IF k \notin With("complete") THEN Register[k].commit = "null"
        ELSE \/ Register[k].commit = "hash"
             \/ Register[k].commit = "self" /\ k = Max(With("complete"))

DirectChecks ==
    /\ Valid /\ Unique
    /\ DependenciesEarlier /\ DependenciesComplete /\ OneActive
    /\ CommitsRight

\* What the register is.
LEMMA RegisterFacts ==
    ASSUME Register \in Seq(Entry)
    PROVE  /\ Len(Register) \in Nat /\ DOMAIN Register = 1 .. Len(Register)
           /\ \A k \in DOMAIN Register : Register[k] \in Entry /\ k \in Int
    BY LenProperties, ElementOfSeq

\* The dictionaries of _validate_dependencies, when every entry is valid and every
\* identifier its own.
LEMMA Dictionaries ==
    ASSUME Register \in Seq(Entry), Valid, Unique
    PROVE  /\ Named(Register) = DOMAIN Register
           /\ Ids(Register) = {Register[k].id : k \in DOMAIN Register}
           /\ DOMAIN Statuses(Register) = Ids(Register)
           /\ \A k \in DOMAIN Register :
                 /\ Register[k].id \in Ids(Register)
                 /\ Position(Register, Register[k].id) = k
                 /\ Statuses(Register)[Register[k].id] = Register[k].status
<1> DEFINE D == DOMAIN Register
<1>1. Named(Register) = D
    BY DEF Named, Valid
<1>2. Ids(Register) = {Register[k].id : k \in D}
    BY <1>1 DEF Ids
<1>3. \A k \in D : k \in Int /\ Register[k].id \in Ids(Register)
    BY <1>2, RegisterFacts
<1>4. ASSUME NEW k \in D
      PROVE  Position(Register, Register[k].id) = k
  <2>1. {j \in Named(Register) : Register[j].id = Register[k].id} = {k}
      BY <1>1 DEF Unique
  <2> QED
      BY <1>3, <2>1, MaxOfOne DEF Position
<1>5. {k \in D : Register[k].id \in Ids(Register) /\ Register[k].status \in ALLOWED_STATES} = D
    BY <1>3 DEF Valid
<1>6. Statuses(Register) =
        [id \in {Register[k].id : k \in D} |->
            Register[Max({k \in D : Register[k].id = id})].status]
    BY <1>5 DEF Statuses
<1>7. ASSUME NEW k \in D
      PROVE  Statuses(Register)[Register[k].id] = Register[k].status
  <2>1. {j \in D : Register[j].id = Register[k].id} = {k}
      BY DEF Unique
  <2>2. Max({j \in D : Register[j].id = Register[k].id}) = k
      BY <1>3, <2>1, MaxOfOne
  <2> QED
      BY <1>6, <2>2
<1>8. DOMAIN Statuses(Register) = Ids(Register)
    BY <1>2, <1>6
<1> QED
    BY <1>1, <1>2, <1>3, <1>4, <1>7, <1>8

\* The errors of _validate_dependencies, one check at a time.
LEMMA DependencyChecks ==
    ASSUME Register \in Seq(Entry), Valid, Unique
    PROVE  ValidateDependencies(Register) = {}
             <=> DependenciesEarlier /\ DependenciesComplete /\ OneActive
<1> DEFINE D == DOMAIN Register
           statuses == Statuses(Register)
           active == {id \in DOMAIN statuses : statuses[id] = "active"}
           Errors(m) == CompletionErrors(statuses, m)
                        \cup UNION {OrderErrors(Register, m.id, d) : d \in m.dependencies}
<1>1. /\ Ids(Register) = {Register[k].id : k \in D} /\ DOMAIN statuses = Ids(Register)
      /\ \A k \in D : /\ Register[k].id \in Ids(Register) /\ k \in Int
                      /\ Position(Register, Register[k].id) = k
                      /\ statuses[Register[k].id] = Register[k].status
    BY Dictionaries, RegisterFacts
<1>2. ValidateDependencies(Register)
        = ErrorIf(Cardinality(active) # 1, "exactly one active", active)
          \cup UNION {Errors(Register[k]) : k \in D}
  <2>1. {k \in D : Register[k].id \in Ids(Register)} = D
      BY <1>1
  <2> QED
      BY <2>1 DEF ValidateDependencies
<1> HIDE DEF statuses
<1>3. ASSUME NEW k \in D, NEW d
      PROVE  OrderErrors(Register, Register[k].id, d) = {}
               <=> \E j \in D : j < k /\ Register[j].id = d
  <2>1. CASE d \in Ids(Register)
    <3>1. PICK j \in D : Register[j].id = d
        BY <1>1, <2>1
    <3>2. OrderErrors(Register, Register[k].id, d) = {} <=> ~(j >= k)
        BY <1>1, <2>1, <3>1, NoError DEF OrderErrors
    <3>3. \A i \in D : Register[i].id = d => i = j
        BY <3>1 DEF Unique
    <3> QED
        BY <1>1, <3>1, <3>2, <3>3
  <2>2. CASE d \notin Ids(Register)
    <3>1. OrderErrors(Register, Register[k].id, d) # {}
        BY <2>2, NoError DEF OrderErrors
    <3> QED
        BY <1>1, <2>2, <3>1
  <2> QED
      BY <2>1, <2>2
<1>4. \A d : d \in Completed <=> d \in DOMAIN statuses /\ statuses[d] = "complete"
    BY <1>1 DEF Completed, With
<1>5. ASSUME NEW k \in D
      PROVE  CompletionErrors(statuses, Register[k]) = {}
               <=> (k \in With("active") \cup With("complete") => Register[k].dependencies \subseteq Completed)
  <2> DEFINE incomplete == {d \in Register[k].dependencies :
                               d \notin DOMAIN statuses \/ statuses[d] # "complete"}
  <2>1. incomplete # {} <=> ~(Register[k].dependencies \subseteq Completed)
      BY <1>4
  <2>2. k \in With("active") \cup With("complete") <=> Register[k].status \in {"active", "complete"}
      BY DEF With
  <2>3. CompletionErrors(statuses, Register[k]) = {}
          <=> ~(Register[k].status \in {"active", "complete"} /\ incomplete # {})
      BY NoError DEF CompletionErrors
  <2> QED
      BY <2>1, <2>2, <2>3
<1>6. (\A k \in D : Errors(Register[k]) = {}) <=> DependenciesEarlier /\ DependenciesComplete
  <2>1. ASSUME NEW k \in D
        PROVE  Errors(Register[k]) = {}
                 <=> /\ CompletionErrors(statuses, Register[k]) = {}
                     /\ \A d \in Register[k].dependencies :
                           OrderErrors(Register, Register[k].id, d) = {}
      OBVIOUS
  <2> HIDE DEF Errors
  <2>2. \A k \in With("active") \cup With("complete") : k \in D
      BY DEF With
  <2>3. DependenciesEarlier
          <=> \A k \in D : \A d \in Register[k].dependencies :
                 OrderErrors(Register, Register[k].id, d) = {}
      BY <1>3 DEF DependenciesEarlier
  <2>4. DependenciesComplete <=> \A k \in D : CompletionErrors(statuses, Register[k]) = {}
      BY <1>5, <2>2 DEF DependenciesComplete
  <2> QED
      BY <2>1, <2>3, <2>4
<1>7. Cardinality(active) = 1 <=> OneActive
  <2>1. IsFiniteSet(active)
    <3> DEFINE f == [k \in 1 .. Len(Register) |-> Register[k].id]
    <3>1. IsFiniteSet(1 .. Len(Register)) /\ D = 1 .. Len(Register)
        BY RegisterFacts, FS_Interval
    <3>2. IsFiniteSet({f[k] : k \in 1 .. Len(Register)})
      <4>1. f \in Surjection(1 .. Len(Register), {f[k] : k \in 1 .. Len(Register)})
          BY DEF Surjection
      <4> QED
          BY <3>1, <4>1, FS_Surjection
    <3>3. active \subseteq {f[k] : k \in 1 .. Len(Register)}
        BY <1>1, <3>1
    <3> QED
        BY <3>2, <3>3, FS_Subset
  <2>2. Cardinality(active) = 1 <=> \E id : active = {id}
      BY <2>1, FS_Singleton
  <2>3. \A k \in D : k \in With("active") <=> Register[k].id \in active
      BY <1>1 DEF With
  <2>4. \A id \in active : \E k \in D : Register[k].id = id
      BY <1>1
  <2>5. ASSUME NEW id, active = {id}
        PROVE  OneActive
    <3>1. PICK k \in D : Register[k].id = id
        BY <2>4, <2>5
    <3>2. With("active") = {k}
        BY <2>3, <2>5, <3>1 DEF With, Unique
    <3> QED
        BY <3>2 DEF OneActive
  <2>6. ASSUME NEW k \in D, With("active") = {k}
        PROVE  active = {Register[k].id}
      BY <2>3, <2>4, <2>6
  <2> QED
      BY <2>2, <2>5, <2>6 DEF OneActive
<1> HIDE DEF Errors, active
<1>8. ValidateDependencies(Register) = {}
        <=> ~(Cardinality(active) # 1) /\ \A k \in D : Errors(Register[k]) = {}
  <2>1. ErrorIf(Cardinality(active) # 1, "exactly one active", active) = {}
          <=> ~(Cardinality(active) # 1)
      BY NoError
  <2>2. UNION {Errors(Register[k]) : k \in D} = {} <=> \A k \in D : Errors(Register[k]) = {}
    <3> HIDE DEF D
    <3> QED
        OBVIOUS
  <2> QED
      BY <1>2, <2>1, <2>2
<1> QED
    BY <1>6, <1>7, <1>8

\* The errors of _validate_commits.
LEMMA CommitChecks ==
    ASSUME Register \in Seq(Entry), Valid, Unique
    PROVE  ValidateCommits(Register) = {} <=> CommitsRight
<1> DEFINE D == DOMAIN Register
           right(m) == IF m.status # "complete" THEN m.commit = "null"
                       ELSE \/ m.commit = "hash"
                            \/ m.commit = "self" /\ m.id = Register[Max(With("complete"))].id
<1>1. /\ {k \in D : Register[k].id \in Ids(Register)} = D
      /\ {k \in D : Register[k].status = "complete"} = With("complete")
    BY Dictionaries DEF With
<1>2. ValidateCommits(Register)
        = UNION {ErrorIf(~right(Register[k]), "commit", {Register[k].id}) : k \in D}
    BY <1>1 DEF ValidateCommits
<1>3. ASSUME NEW k \in D
      PROVE  right(Register[k])
               <=> IF k \notin With("complete") THEN Register[k].commit = "null"
                   ELSE \/ Register[k].commit = "hash"
                        \/ Register[k].commit = "self" /\ k = Max(With("complete"))
  <2>1. CASE Register[k].status # "complete"
      BY <2>1 DEF With
  <2>2. CASE Register[k].status = "complete"
    <3>1. k \in With("complete") /\ With("complete") \subseteq 1 .. Len(Register)
          /\ Len(Register) \in Nat
        BY <2>2, RegisterFacts DEF With
    <3>2. Max(With("complete")) \in With("complete")
        BY <3>1, MaxOfPositions
    <3>3. Register[k].id = Register[Max(With("complete"))].id <=> k = Max(With("complete"))
        BY <3>1, <3>2 DEF With, Unique
    <3> QED
        BY <2>2, <3>1, <3>3
  <2> QED
      BY <2>1, <2>2
<1> DEFINE errors(k) == ErrorIf(~right(Register[k]), "commit", {Register[k].id})
<1> HIDE DEF right
<1>4. \A k \in D : errors(k) = {} <=> right(Register[k])
    BY NoError
<1>5. ValidateCommits(Register) = UNION {errors(k) : k \in D}
    BY <1>2
<1> HIDE DEF errors
<1>6. ValidateCommits(Register) = {} <=> \A k \in D : right(Register[k])
    BY <1>4, <1>5
<1> QED
    BY <1>3, <1>6 DEF CommitsRight

\* The errors of _validate_entry.
LEMMA EntryChecks ==
    ASSUME NEW milestone
    PROVE  ValidateEntry(milestone) = {}
             <=> milestone.form = "valid" /\ milestone.status \in ALLOWED_STATES
<1>1. CASE milestone.form = "no id"
    BY <1>1, NoError DEF ValidateEntry
<1>2. CASE milestone.form # "no id"
  <2>1. /\ ErrorIf(milestone.status \notin ALLOWED_STATES, "status", {milestone.id}) = {}
             <=> milestone.status \in ALLOWED_STATES
        /\ ErrorIf(milestone.form # "valid", "field", {milestone.id}) = {} <=> milestone.form = "valid"
      BY NoError
  <2> QED
      BY <1>2, <2>1 DEF ValidateEntry
<1> QED
    BY <1>1, <1>2

\* validate_milestones has no error for exactly the registers DirectChecks describes.
LEMMA MilestoneChecks ==
    ASSUME Register \in Seq(Entry)
    PROVE  ValidateMilestones(files.data) = {}
             <=> files.data.schema_version = 1 /\ Register # <<>> /\ DirectChecks
<1> DEFINE D == DOMAIN Register
           entry(k) == ValidateEntry(Register[k])
           duplicates == {Register[k].id : k \in {k \in Named(Register) :
                            \E j \in Named(Register) : j < k /\ Register[j].id = Register[k].id}}
           repeated == ErrorIf(duplicates # {}, "duplicate IDs", duplicates)
<1>1. CASE files.data.schema_version # 1
    BY <1>1, NoError DEF ValidateMilestones
<1>2. CASE files.data.schema_version = 1 /\ Register = <<>>
  <2>1. ValidateMilestones(files.data) = ErrorIf(TRUE, "nonempty list", {})
      BY <1>2 DEF ValidateMilestones, Register
  <2> QED
      BY <1>2, <2>1, NoError
<1>3. CASE files.data.schema_version = 1 /\ Register # <<>>
  <2>1. ValidateMilestones(files.data)
          = (UNION {entry(k) : k \in D}) \cup repeated
            \cup ValidateDependencies(Register) \cup ValidateCommits(Register)
      BY <1>3 DEF ValidateMilestones, Register
  <2>2. Valid <=> \A k \in D : entry(k) = {}
      BY EntryChecks DEF Valid
  <2>3. ASSUME Valid PROVE Unique <=> repeated = {}
    <3>1. Named(Register) = D
        BY <2>3 DEF Named, Valid
    <3>2. \A k \in D : k \in Int
        BY RegisterFacts
    <3>3. duplicates = {} <=> \A j, k \in D : ~(j < k /\ Register[j].id = Register[k].id)
        BY <3>1
    <3> HIDE DEF duplicates
    <3>4. \A j, k \in D : j = k \/ j < k \/ k < j
        BY <3>2
    <3>5. \A j, k \in D : j = k => ~(j < k)
        BY <3>2
    <3>6. Unique <=> duplicates = {}
        BY <3>3, <3>4, <3>5 DEF Unique
    <3> QED
        BY <3>6, NoError
  <2> HIDE DEF entry, repeated
  <2>4. ValidateMilestones(files.data) = {}
          <=> /\ \A k \in D : entry(k) = {}
              /\ repeated = {} /\ ValidateDependencies(Register) = {} /\ ValidateCommits(Register) = {}
      BY <2>1
  <2> QED
      BY <1>3, <2>2, <2>3, <2>4, DependencyChecks, CommitChecks DEF DirectChecks
<1> QED
    BY <1>1, <1>2, <1>3

-----------------------------------------------------------------------------
(* From direct dependencies to the whole graph. *)

\* A set of dependencies that holds the direct ones of a milestone and of its own members
\* holds every prerequisite of the milestone; the set of prerequisites is itself one.
LEMMA PrerequisitesWithin ==
    ASSUME NEW id, NEW S, HoldsPrerequisites(S \cap Dependencies, id)
    PROVE  Prerequisites(id) \subseteq S
    BY DEF Prerequisites

LEMMA DirectArePrerequisites ==
    ASSUME NEW id
    PROVE  Direct(id) \subseteq Prerequisites(id)
<1>1. Direct(id) \subseteq Dependencies
    BY DEF Direct, Dependencies
<1> QED
    BY <1>1 DEF Prerequisites, HoldsPrerequisites

\* With identifiers their own, a milestone's direct dependencies are its entry's.
LEMMA DirectOfEntry ==
    ASSUME Unique, NEW k \in DOMAIN Register
    PROVE  Direct(Register[k].id) = Register[k].dependencies
<1>1. {j \in DOMAIN Register : Register[j].id = Register[k].id} = {k}
    BY DEF Unique
<1> QED
    BY <1>1 DEF Direct

\* The prerequisites of an entry stand before it.
LEMMA PrerequisitesEarlier ==
    ASSUME Register \in Seq(Entry), Unique, DependenciesEarlier, NEW k \in DOMAIN Register
    PROVE  Prerequisites(Register[k].id) \subseteq {Register[j].id : j \in 1 .. k - 1}
<1> DEFINE D == DOMAIN Register
           S == {Register[j].id : j \in 1 .. k - 1}
<1>1. /\ D = 1 .. Len(Register) /\ Len(Register) \in Nat
      /\ \A j \in D : j \in Int
    BY RegisterFacts
<1>2. ASSUME NEW j \in D, NEW d \in Direct(Register[j].id), j <= k
      PROVE  d \in S /\ d \in Dependencies
  <2>1. d \in Register[j].dependencies
      BY DirectOfEntry
  <2>2. PICK i \in D : i < j /\ Register[i].id = d
      BY <2>1 DEF DependenciesEarlier
  <2>3. i \in 1 .. k - 1
      BY <1>1, <1>2, <2>2
  <2> QED
      BY <2>1, <2>2, <2>3 DEF Dependencies
<1>3. Direct(Register[k].id) \subseteq S \cap Dependencies
  <2>1. k <= k
      BY <1>1
  <2> HIDE DEF S
  <2> QED
      BY <1>2, <2>1
<1>4. ASSUME NEW d \in S \cap Dependencies
      PROVE  Direct(d) \subseteq S \cap Dependencies
  <2>1. PICK j \in 1 .. k - 1 : Register[j].id = d
      OBVIOUS
  <2>2. j \in D /\ j <= k
      BY <1>1, <2>1
  <2> QED
      BY <1>2, <2>1, <2>2
<1> HIDE DEF S
<1>5. HoldsPrerequisites(S \cap Dependencies, Register[k].id)
    BY <1>3, <1>4 DEF HoldsPrerequisites
<1>6. Prerequisites(Register[k].id) \subseteq S
    BY <1>5, PrerequisitesWithin
<1> QED
    BY <1>6 DEF S

\* The prerequisites of what is started are complete.
LEMMA PrerequisitesComplete ==
    ASSUME Unique, DependenciesComplete, NEW k \in With("active") \cup With("complete")
    PROVE  Prerequisites(Register[k].id) \subseteq Completed
<1>1. ASSUME NEW j \in With("active") \cup With("complete"), NEW d \in Direct(Register[j].id)
      PROVE  d \in Completed \cap Dependencies
  <2>1. j \in DOMAIN Register
      BY DEF With
  <2>2. d \in Register[j].dependencies
      BY <2>1, DirectOfEntry
  <2> QED
      BY <2>1, <2>2 DEF DependenciesComplete, Dependencies
<1>2. ASSUME NEW d \in Completed \cap Dependencies
      PROVE  Direct(d) \subseteq Completed \cap Dependencies
  <2>1. PICK j \in With("complete") : Register[j].id = d
      BY DEF Completed
  <2> QED
      BY <1>1, <2>1
<1>3. HoldsPrerequisites(Completed \cap Dependencies, Register[k].id)
    BY <1>1, <1>2 DEF HoldsPrerequisites
<1> QED
    BY <1>3, PrerequisitesWithin

\* What the checks establish, entry by entry, is a consistent plan.
LEMMA ChecksMakePlan ==
    ASSUME Register \in Seq(Entry), DirectChecks
    PROVE  PlanConsistent
<1> USE DEF DirectChecks
<1>1. \A k \in DOMAIN Register : k \in Int
    BY RegisterFacts
<1>2. ASSUME NEW k \in DOMAIN Register
      PROVE  Register[k].id \notin Prerequisites(Register[k].id)
  <2>1. SUFFICES ASSUME NEW j \in 1 .. k - 1, Register[j].id = Register[k].id
                 PROVE  FALSE
      BY PrerequisitesEarlier
  <2>2. j \in DOMAIN Register /\ j # k
      BY <1>1, RegisterFacts
  <2> QED
      BY <2>1, <2>2 DEF Unique
<1>3. \A k \in With("active") \cup With("complete") : Prerequisites(Register[k].id) \subseteq Completed
    BY PrerequisitesComplete
<1>4. \A k \in DOMAIN Register : Register[k].commit # "null" <=> k \in With("complete")
    BY DEF CommitsRight
<1>5. \A k \in DOMAIN Register : Register[k].commit = "self" => k = Max(With("complete"))
    BY DEF CommitsRight
<1>6. \A j, k \in DOMAIN Register : Register[j].commit = "self" /\ Register[k].commit = "self" => j = k
    BY <1>5
<1> QED
    BY <1>2, <1>3, <1>4, <1>6 DEF PlanConsistent, Unique, OneActive

\* A consistent plan in order passes them.
LEMMA PlanPassesChecks ==
    ASSUME Register \in Seq(Entry), WellFormed, PlanConsistent, ListedInOrder, SelfOnlyLatest
    PROVE  ValidateMilestones(files.data) = {}
<1> DEFINE D == DOMAIN Register
<1>1. /\ D = 1 .. Len(Register) /\ Len(Register) \in Nat
      /\ \A k \in D : Register[k] \in Entry /\ k \in Int
    BY RegisterFacts
<1>2. Valid
    BY DEF WellFormed, Valid
<1>3. Unique
    BY DEF PlanConsistent, Unique
<1>4. \A k \in D : Register[k].dependencies \subseteq Prerequisites(Register[k].id)
    BY <1>3, DirectArePrerequisites, DirectOfEntry
<1>5. DependenciesEarlier
  <2> SUFFICES ASSUME NEW k \in D, NEW d \in Register[k].dependencies
               PROVE  \E j \in D : j < k /\ Register[j].id = d
      BY DEF DependenciesEarlier
  <2>1. d \in {Register[j].id : j \in 1 .. k - 1}
      BY <1>4 DEF ListedInOrder
  <2>2. \A j \in 1 .. k - 1 : j \in D /\ j < k
      BY <1>1
  <2> QED
      BY <2>1, <2>2
<1>6. DependenciesComplete
  <2>1. \A k \in With("active") \cup With("complete") : k \in D
      BY DEF With
  <2> QED
      BY <1>4, <2>1 DEF DependenciesComplete, PlanConsistent
<1>7. OneActive /\ Register # <<>>
  <2>1. PICK k \in D : With("active") = {k}
      BY DEF PlanConsistent
  <2> QED
      BY <1>1, <2>1 DEF OneActive
<1>8. CommitsRight
  <2>1. ASSUME NEW k \in D, k \notin With("complete")
        PROVE  Register[k].commit = "null"
      BY <2>1 DEF PlanConsistent
  <2>2. ASSUME NEW k \in With("complete"), Register[k].commit = "self"
        PROVE  k = Max(With("complete"))
    <3>1. With("complete") \subseteq 1 .. Len(Register) /\ k \in D
        BY <1>1 DEF With
    <3>2. Max(With("complete")) \in With("complete") /\ k <= Max(With("complete"))
        BY <1>1, <3>1, MaxOfPositions
    <3>3. Max(With("complete")) <= k
        BY <2>2, <3>1, <3>2 DEF SelfOnlyLatest
    <3> QED
        BY <1>1, <3>1, <3>2, <3>3
  <2>3. ASSUME NEW k \in D, k \in With("complete")
        PROVE  Register[k].commit \in {"hash", "self"}
    <3>1. Register[k].commit # "null" /\ Register[k].commit # "other"
        BY <2>3 DEF PlanConsistent, WellFormed
    <3>2. Register[k].commit \in {"null", "hash", "self", "other"}
        BY <1>1 DEF Entry
    <3> QED
        BY <3>1, <3>2
  <2> QED
      BY <2>1, <2>2, <2>3 DEF CommitsRight
<1>9. files.data.schema_version = 1
    BY DEF WellFormed
<1> QED
    BY <1>2, <1>3, <1>5, <1>6, <1>7, <1>8, <1>9, MilestoneChecks DEF DirectChecks

\* A PROGRESS.md that names the state has no error.
LEMMA ExactProgressPasses ==
    ASSUME Register \in Seq(Entry), ResumeStateExact
    PROVE  ValidateProgress(files.data, files.progress) = {}
<1> DEFINE progress == files.progress
           Having(status) == {k \in DOMAIN Register : Register[k].status = status}
           Mismatch(field, id) == ErrorIf(~StartsWith(progress[field], id), field, {id})
           latest == Register[Max(Having("complete"))].id
           next == UNION {Mismatch("Next milestone", Register[k].id) :
                            k \in {k \in Having("active") : Having("active") = {k}}}
           last == Mismatch("Last completed milestone", latest)
                   \cup Mismatch("Most recent pushed commit", latest)
<1>1. Having("active") = With("active") /\ Having("complete") = With("complete")
    BY DEF With
<1>2. ASSUME NEW field, NEW id, progress[field] = id
      PROVE  Mismatch(field, id) = {}
    BY <1>2, NoError DEF StartsWith
<1>3. next = {}
  <2>1. \A k \in Having("active") : Mismatch("Next milestone", Register[k].id) = {}
      BY <1>1, <1>2 DEF ResumeStateExact
  <2> HIDE DEF Mismatch
  <2> QED
      BY <2>1
<1>4. Having("complete") # {} => last = {}
  <2>1. ASSUME Having("complete") # {}
        PROVE  /\ progress["Last completed milestone"] = latest
               /\ progress["Most recent pushed commit"] = latest
    <3>1. With("complete") \subseteq 1 .. Len(Register) /\ Len(Register) \in Nat
        BY RegisterFacts DEF With
    <3>2. /\ Max(With("complete")) \in With("complete")
          /\ \A j \in With("complete") : j <= Max(With("complete"))
        BY <1>1, <2>1, <3>1, MaxOfPositions
    <3> QED
        BY <1>1, <3>2 DEF ResumeStateExact
  <2> QED
      BY <1>2, <2>1
<1>5. ValidateProgress(files.data, files.progress)
        = (IF Having("complete") = {} THEN {} ELSE last) \cup next
    BY DEF ValidateProgress, ResumeStateExact, Register
<1> HIDE DEF next, last
<1> QED
    BY <1>3, <1>4, <1>5

-----------------------------------------------------------------------------
(* The specification. *)

\* The inductive invariant: the gate's exit code is its verdict on the files.
Errors == ValidateMilestones(files.data) \cup ValidateProgress(files.data, files.progress)
GateInv ==
    /\ Register \in Seq(Entry)
    /\ exit_code \in {Running, 0, 1}
    /\ exit_code = 0 => Errors = {}
    /\ exit_code = 1 => Errors # {}

\* The exit code of main is the verdict on the files it read, in every reachable state.
THEOREM GateInvariant == Spec => []GateInv
<1>1. Init => GateInv
    BY RunningAssumption DEF Init, GateInv, Register
<1>2. GateInv /\ [Next]_vars => GateInv'
  <2> SUFFICES ASSUME GateInv, [Next]_vars PROVE GateInv'
      OBVIOUS
  <2>1. CASE Main
    <3>1. files' = files
        BY <2>1 DEF Main
    <3>2. /\ Errors' = Errors /\ Register' = Register
        BY <3>1 DEF Errors, Register, ValidateMilestones, ValidateProgress
    <3>3. exit_code' = IF Errors = {} THEN 0 ELSE 1
        BY <2>1 DEF Main, Errors
    <3> HIDE DEF Errors
    <3> QED
        BY <3>2, <3>3 DEF GateInv
  <2>2. CASE UNCHANGED vars
      BY <2>2 DEF GateInv, Register, Errors
  <2> QED
      BY <2>1, <2>2 DEF Next
<1> QED
    BY <1>1, <1>2, PTL DEF Spec

\* Whatever milestones.yaml and PROGRESS.md hold, a register the gate passes is a plan
\* that can be resumed: though check_milestones.py:66-147 looks at direct dependencies only,
\* no milestone rests on itself, and nothing is started before all it rests on is complete.
THEOREM AcceptedPlansConsistent == Spec => []AcceptedPlanConsistent
<1>1. GateInv => AcceptedPlanConsistent
    BY MilestoneChecks, ChecksMakePlan DEF GateInv, Errors, AcceptedPlanConsistent
<1> QED
    BY <1>1, GateInvariant, PTL

\* And the gate stops no plan of any length it should pass: a well-formed, consistent
\* register in order, with PROGRESS.md naming its state, never ends it with 1.
THEOREM ConsistentPlansAccepted == Spec => []ConsistentPlanAccepted
<1>1. GateInv => ConsistentPlanAccepted
    BY PlanPassesChecks, ExactProgressPasses DEF GateInv, Errors, ConsistentPlanAccepted
<1> QED
    BY <1>1, GateInvariant, PTL
===============================================================================
