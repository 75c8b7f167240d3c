------------------------------ MODULE Migrate -------------------------------
(***************************************************************************)
(* store.Migrate: any number of "api migrate" commands, of one release or  *)
(* of several, bring one database up to date at the same time.  Each goes  *)
(* through its embedded files in order, looks a version up in              *)
(* schema_migrations and, if it is not there, runs the file and records    *)
(* the version in one transaction.                                         *)
(***************************************************************************)
EXTENDS Integers, FiniteSets

CONSTANTS
    Commands,    \* the migrate commands that may run
    Files,       \* for each, the versions its binary embeds
    MaxFailures, \* bound on failed calls and crashes
    MaxStarts    \* bound on how often the commands are run

Versions == UNION {Files[c] : c \in Commands}

ASSUME MigrateAssumption ==
    /\ Files \in [Commands -> SUBSET Nat]
    /\ MaxFailures \in Nat
    /\ MaxStarts \in Nat

VARIABLES
    recorded,    \* the committed rows of schema_migrations
    ran,         \* history: how often a version's SQL was committed (0, 1, 2+)
    mg,          \* where each command stands
    failures, starts

migrateVars == <<recorded, ran, mg, failures, starts>>

(* check: about to look up the first version of left; sql, record, commit: *)
(* in that version's transaction, about to take the step so named.         *)
CommandState == [pc: {"off", "check", "sql", "record", "commit", "done", "failed"},
                 left: SUBSET Versions]

Active(c) == mg[c].pc \in {"check", "sql", "record", "commit"}

(* Tables, commands and counters have their types, and a transaction is    *)
(* open only for a version that is left.                                   *)
MigrateTypeOK ==
    /\ recorded \subseteq Versions
    /\ ran \in [Versions -> 0..2]
    /\ mg \in [Commands -> CommandState]
    /\ \A c \in Commands : mg[c].pc \in {"sql", "record", "commit"} => mg[c].left # {}
    /\ failures \in 0..MaxFailures
    /\ starts \in 0..MaxStarts

MigrateInit ==
    /\ recorded = {}
    /\ ran = [v \in Versions |-> 0]
    /\ mg = [c \in Commands |-> [pc |-> "off", left |-> {}]]
    /\ failures = 0
    /\ starts = 0

-----------------------------------------------------------------------------
(* The file the loop is at: names are zero-padded and sorted.              *)
current(c) == CHOOSE v \in mg[c].left : \A u \in mg[c].left : v <= u

(* A command is run, again if it ended: CREATE TABLE IF NOT EXISTS, Glob.  *)
Begin(c) ==
    /\ ~Active(c)
    /\ starts < MaxStarts
    /\ starts' = starts + 1
    /\ mg' = [mg EXCEPT ![c] = [pc |-> "check", left |-> Files[c]]]
    /\ UNCHANGED <<recorded, ran, failures>>

(* Mutant of Check: the loop ends at the first version already applied.    *)
Check_StopsEarly(c) ==
    /\ mg[c].pc = "check"
    /\ IF mg[c].left = {} \/ current(c) \in recorded
       THEN mg' = [mg EXCEPT ![c].pc = "done"]
       ELSE mg' = [mg EXCEPT ![c].pc = "sql"]
    /\ UNCHANGED <<recorded, ran, failures, starts>>

(* SELECT EXISTS(...): skip the version, or open a transaction for it.     *)
Check(c) ==
    /\ mg[c].pc = "check"
    /\ IF mg[c].left = {} THEN mg' = [mg EXCEPT ![c].pc = "done"]
       ELSE IF current(c) \in recorded
       THEN mg' = [mg EXCEPT ![c].left = @ \ {current(c)}]
       ELSE mg' = [mg EXCEPT ![c].pc = "sql"]
    /\ UNCHANGED <<recorded, ran, failures, starts>>

(* The file's statements, visible to nobody until the commit.              *)
RunSQL(c) ==
    /\ mg[c].pc = "sql"
    /\ mg' = [mg EXCEPT ![c].pc = "record"]
    /\ UNCHANGED <<recorded, ran, failures, starts>>

(* Mutants of Record: it waits for every transaction that ran the file, as *)
(* an upgrade of a shared lock would; INSERT ... ON CONFLICT DO NOTHING.   *)
Record_LockUpgrade(c) ==
    /\ mg[c].pc = "record"
    /\ \A d \in Commands \ {c} :
          mg[d].pc \in {"record", "commit"} => current(d) # current(c)
    /\ mg' = [mg EXCEPT ![c].pc = IF current(c) \in recorded THEN "failed" ELSE "commit"]
    /\ UNCHANGED <<recorded, ran, failures, starts>>

Record_OnConflict(c) ==
    /\ mg[c].pc = "record"
    /\ mg' = [mg EXCEPT ![c].pc = "commit"]
    /\ UNCHANGED <<recorded, ran, failures, starts>>

(* The INSERT waits for a transaction that has inserted the same version,  *)
(* and fails on the primary key if that one committed.                     *)
Record(c) ==
    /\ mg[c].pc = "record"
    /\ \A d \in Commands \ {c} : mg[d].pc = "commit" => current(d) # current(c)
    /\ mg' = [mg EXCEPT ![c].pc = IF current(c) \in recorded THEN "failed" ELSE "commit"]
    /\ UNCHANGED <<recorded, ran, failures, starts>>

Commit(c) ==
    /\ mg[c].pc = "commit"
    /\ recorded' = recorded \cup {current(c)}
    /\ ran' = [ran EXCEPT ![current(c)] = IF @ = 0 THEN 1 ELSE 2]
    /\ mg' = [mg EXCEPT ![c] = [pc |-> "check", left |-> @.left \ {current(c)}]]
    /\ UNCHANGED <<failures, starts>>

(* A call fails, the deadline passes or the command dies: the open         *)
(* transaction is rolled back and the command ends.                        *)
Fail(c) ==
    /\ Active(c)
    /\ failures < MaxFailures
    /\ failures' = failures + 1
    /\ mg' = [mg EXCEPT ![c].pc = "failed"]
    /\ UNCHANGED <<recorded, ran, starts>>

CommandStep(c) == Check(c) \/ RunSQL(c) \/ Record(c) \/ Commit(c)

MigrateNext == \E c \in Commands : Begin(c) \/ CommandStep(c) \/ Fail(c)

MigrateSpec == MigrateInit /\ [][MigrateNext]_migrateVars

(* A command that runs goes on; nobody has to run one again.               *)
MigrateFairSpec == MigrateSpec /\ \A c \in Commands : WF_migrateVars(CommandStep(c))

-----------------------------------------------------------------------------
(* Types are kept, and a version is recorded exactly when its SQL was      *)
(* committed, which happened once, whatever commands race or die ("the     *)
(* file and its bookkeeping commit (or roll back) together").              *)
AppliedOnce ==
    /\ MigrateTypeOK
    /\ \A v \in Versions : ran[v] = IF v \in recorded THEN 1 ELSE 0

(* A command runs a file only on top of all the earlier files of its       *)
(* release, and when it reports success all of them are applied, by itself *)
(* or by another (the loop's check, the order of names).                   *)
InOrder ==
    \A c \in Commands : Active(c) \/ mg[c].pc = "done" =>
        Files[c] \ mg[c].left \subseteq recorded /\ (mg[c].pc = "done" => mg[c].left = {})

(* Commands that race do not all fail: unless some call failed, one of     *)
(* those that were started reports success in the end.                     *)
SomeoneFinishes ==
    (\E c \in Commands : Active(c)) ~> failures > 0 \/ \E c \in Commands : mg[c].pc = "done"
=============================================================================
