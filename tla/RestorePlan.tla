---------------------------- MODULE RestorePlan -----------------------------
(***************************************************************************)
(* Which tapes a restore job asks for (applyParam of                       *)
(* executor/job_restore_init.go): a file may lie on several tapes; the     *)
(* tape that has most of the files still wanted is taken next, until no    *)
(* tape is left.  One step is one round of the loop.                       *)
(***************************************************************************)
EXTENDS Naturals, Sequences, FiniteSets

CONSTANTS
    FileIds,        \* the files the restore asks for
    TapeIds         \* ids tapes ever had, known to the library or deleted

(* autoincrement starts at 1; the loop uses 0 for "no tape yet" *)
ASSUME PlanAssumption == TapeIds \subseteq Nat \ {0} /\ IsFiniteSet(TapeIds) /\ IsFiniteSet(FileIds)

VARIABLES
    on,             \* tape id -> the files that have a position on it
    known,          \* tapes the library still has
    mapping,        \* tapes not looked at yet -> the files wanted from them
    plan            \* the tapes of the job, each with its files

vars == <<on, known, mapping, plan>>

(* Mutants, never used by the model: what a plausible bug would make of the *)
(* definition of the same name below.                                       *)
MutBefore(s, t) ==
    \/ Cardinality(mapping[s]) < Cardinality(mapping[t])
    \/ Cardinality(mapping[s]) = Cardinality(mapping[t]) /\ s < t
MutRest(t) == [s \in DOMAIN mapping \ {t} |-> mapping[s]]
MutRestDropped(t) ==
    [s \in {s \in DOMAIN mapping \ {t} : mapping[s] \cap mapping[t] = {}} |-> mapping[s]]
MutFound == [t \in {t \in TapeIds : on[t] # {}} |-> on[t]]

(* a tape with more files goes first, of two with as many that with the     *)
(* smaller id                                                               *)
Before(s, t) ==
    \/ Cardinality(mapping[s]) > Cardinality(mapping[t])
    \/ Cardinality(mapping[s]) = Cardinality(mapping[t]) /\ s < t

(* the other tapes need not give what this one gives *)
Rest(t) == [s \in DOMAIN mapping \ {t} |-> mapping[s] \ mapping[t]]

Extended(t) == IF mapping[t] = {} THEN plan
               ELSE Append(plan, [tape |-> t, files |-> mapping[t]])

(* tapeMapping: the tapes of the files' positions, unknown tapes left out   *)
Found == [t \in {t \in known : on[t] # {}} |-> on[t]]

Init ==
    /\ on \in [TapeIds -> SUBSET FileIds]
    /\ known \in SUBSET TapeIds
    /\ mapping = Found
    /\ plan = <<>>

Pick(t) ==
    /\ t \in DOMAIN mapping
    /\ \A s \in DOMAIN mapping : s # t => Before(t, s)
    /\ mapping' = Rest(t)
    /\ plan' = Extended(t)
    /\ UNCHANGED <<on, known>>

Next == \E t \in TapeIds : Pick(t)

Spec == Init /\ [][Next]_vars
-----------------------------------------------------------------------------
Ready == mapping = [t \in {} |-> {}]
Planned == UNION {plan[k].files : k \in DOMAIN plan}
Wanted == UNION {on[t] : t \in known}

TypeOK ==
    /\ on \in [TapeIds -> SUBSET FileIds]
    /\ known \subseteq TapeIds
    /\ DOMAIN mapping \subseteq known
    /\ mapping \in [DOMAIN mapping -> SUBSET FileIds]
    /\ plan \in Seq([tape : known, files : SUBSET FileIds])

(* The job reads each file from one tape, and every tape it asks for is a   *)
(* tape the library knows, comes once, has all the files listed for it and  *)
(* is not asked for in vain (what RestoreJob assumes of its entries).       *)
PlanIsSound ==
    /\ \A k \in DOMAIN plan :
            /\ plan[k].tape \in known
            /\ plan[k].files # {}
            /\ plan[k].files \subseteq on[plan[k].tape]
    /\ \A k, l \in DOMAIN plan : k # l =>
            /\ plan[k].tape # plan[l].tape
            /\ plan[k].files \cap plan[l].files = {}

(* A restore that can be done is planned whole: what lies on a known tape   *)
(* is read from one.                                                        *)
PlanIsComplete == Ready => Planned = Wanted

(* The first tapes give most: each gives at least as many files as the next.*)
PlanIsGreedy ==
    \A k \in DOMAIN plan : k + 1 \in DOMAIN plan =>
        Cardinality(plan[k].files) >= Cardinality(plan[k + 1].files)

(* How many tapes are really needed. *)
Covers == {T \in SUBSET known : UNION {on[t] : t \in T} = Wanted}
Fewest == CHOOSE n \in 0..Cardinality(known) :
            /\ \E T \in Covers : Cardinality(T) = n
            /\ \A T \in Covers : Cardinality(T) >= n

(* Of n tapes that would do, greedy asks for at most H(m) * n, where m is   *)
(* the largest number of wanted files on one tape; here m is at most 4, and *)
(* H(4) = 25/12.                                                            *)
PlanIsNearlyMinimal == Ready => 12 * Len(plan) <= 25 * Fewest
=============================================================================
