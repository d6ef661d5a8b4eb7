----------------------------- MODULE Migration -----------------------------
(* meshc migrate (meshc/src/migrate.rs): a command reads the tracking      *)
(* table, runs migrations one after another, each as a program of its own, *)
(* and records each in the table.  Nothing makes the two steps one, nor the *)
(* statements of a migration: the command may be cut between any of them.   *)
EXTENDS Naturals, FiniteSets, Sequences, Functions

CONSTANTS Versions,     \* the versions that migration files may have
          MaxCommands,  \* bound: commands given
          MaxCuts       \* bound: commands that are cut short

(* generate_migration numbers a file by the second in which it is made.    *)
ASSUME VersionsAssumption == Versions \subseteq Nat \ {0}

VARIABLES files,    \* versions with a file in migrations/
          table,    \* _mesh_migrations
          schema,   \* schema[v]: what the database has of migration v
          command,  \* idle, up or down
          pending,  \* what the command has still to do, in order
          ran,      \* its first migration has run and is not yet recorded
          done,     \* versions this command has run
          untold,   \* versions that a command ran, or began to, and did not record
          failed,   \* the migration whose failure ended the last command, 0 for none
          commands, cuts

migrationVars == <<files, table, schema, command, pending, ran, done, untold, failed, commands, cuts>>

MigrationInit ==
    /\ files = {} /\ table = {} /\ schema = [v \in Versions |-> "none"] /\ command = "idle" /\ pending = <<>>
    /\ ran = FALSE /\ done = <<>> /\ untold = {} /\ failed = 0 /\ commands = 0 /\ cuts = 0

(* Files arrive in any order, an older version after a newer one too.      *)
generate_migration(v) ==
    /\ command = "idle" /\ v \notin files /\ files' = files \cup {v}
    /\ UNCHANGED <<table, schema, command, pending, ran, done, untold, failed, commands, cuts>>

Start(c, list) ==
    /\ command = "idle" /\ commands < MaxCommands /\ commands' = commands + 1
    /\ command' = c /\ pending' = list /\ done' = <<>> /\ failed' = 0
    /\ UNCHANGED <<files, table, schema, ran, untold, cuts>>

(* Some versions in their order.                                           *)
Sorted(S) == CHOOSE s \in [1..Cardinality(S) -> S] : \A i, j \in DOMAIN s : i < j => s[i] < s[j]

Up_FromLast == Start("up", Sorted({v \in files \ table : \A t \in table : v > t}))

Up == Start("up", Sorted(files \ table))

(* The applied version that is last in the order of versions.              *)
Down ==
    /\ table # {}
    /\ LET last == CHOOSE v \in table : \A t \in table : t <= v
       IN  last \in files /\ Start("down", <<last>>)

(* compile_and_run_migration: the program has called up or down, which is   *)
(* made of statements of its own, and none of them failed.                  *)
Whole == IF command = "up" THEN "whole" ELSE "none"

Run ==
    /\ command # "idle" /\ pending # <<>> /\ ~ran /\ ran' = TRUE
    /\ schema' = [schema EXCEPT ![Head(pending)] = Whole]
    /\ done' = Append(done, Head(pending))
    /\ UNCHANGED <<files, table, command, pending, untold, failed, commands, cuts>>

(* What a run that ends before its time has changed: nothing, some, or all.  *)
Leaves == \E after \in {schema[Head(pending)], "part", Whole} :
              schema' = [schema EXCEPT ![Head(pending)] = after]

RunFails_GoesOn ==
    /\ command # "idle" /\ pending # <<>> /\ ~ran /\ Leaves
    /\ pending' = Tail(pending) /\ failed' = Head(pending) /\ untold' = untold \cup {Head(pending)}
    /\ UNCHANGED <<files, table, command, ran, done, commands, cuts>>

(* It does not compile, reports an error or exits with one: there is no      *)
(* transaction around its statements, and those that went through stand.     *)
RunFails ==
    /\ command # "idle" /\ pending # <<>> /\ ~ran /\ Leaves
    /\ command' = "idle" /\ pending' = <<>> /\ failed' = Head(pending)
    /\ untold' = untold \cup {Head(pending)}
    /\ UNCHANGED <<files, table, ran, done, commands, cuts>>

Record_NotForDown ==
    /\ ran /\ ran' = FALSE /\ pending' = Tail(pending)
    /\ table' = table \cup {Head(pending)} /\ untold' = untold \ {Head(pending)}
    /\ UNCHANGED <<files, schema, command, done, failed, commands, cuts>>

(* The row is inserted, or removed.                                        *)
Record ==
    /\ ran /\ ran' = FALSE /\ pending' = Tail(pending)
    /\ table' = IF command = "up" THEN table \cup {Head(pending)} ELSE table \ {Head(pending)}
    /\ untold' = untold \ {Head(pending)}
    /\ UNCHANGED <<files, schema, command, done, failed, commands, cuts>>

Finish ==
    /\ command # "idle" /\ pending = <<>> /\ command' = "idle"
    /\ UNCHANGED <<files, table, schema, pending, ran, done, untold, failed, commands, cuts>>

(* The command is killed, its migration with it or let to its end, or its    *)
(* connection fails when it records.                                         *)
Cut ==
    /\ command # "idle" /\ pending # <<>> /\ cuts < MaxCuts /\ cuts' = cuts + 1
    /\ IF ran THEN UNCHANGED schema ELSE Leaves
    /\ untold' = untold \cup {Head(pending)}
    /\ command' = "idle" /\ pending' = <<>> /\ ran' = FALSE
    /\ UNCHANGED <<files, table, done, failed, commands>>

MigrationNext ==
    \/ \E v \in Versions : generate_migration(v)
    \/ Up \/ Down \/ Run \/ RunFails \/ Record \/ Finish \/ Cut

MigrationSpec == MigrationInit /\ [][MigrationNext]_migrationVars
-----------------------------------------------------------------------------
MigrationTypeOK ==
    /\ table \subseteq files /\ untold \subseteq files /\ files \subseteq Versions
    /\ schema \in [Versions -> {"none", "part", "whole"}]
    /\ command \in {"idle", "up", "down"} /\ ran \in BOOLEAN /\ failed \in files \cup {0}
    /\ Range(pending) \cup Range(done) \subseteq files

(* run_migrations_up and _down: between commands the table tells what the   *)
(* database has, all of a migration or nothing of it, but for those whose    *)
(* last run failed or was cut.                                               *)
TableTellsSchema ==
    command = "idle" =>
        \A v \in files \ untold : schema[v] = IF v \in table THEN "whole" ELSE "none"

(* run_migrations_up: what one command runs is in the order of versions,   *)
(* and nothing runs after the migration that fails.                        *)
FailureStops ==
    /\ \A i, j \in DOMAIN done : i < j => done[i] < done[j]
    /\ failed # 0 => \A i \in DOMAIN done : done[i] < failed

(* What the table tells, and the order of a command.                       *)
MigrationsAreTold == MigrationTypeOK /\ TableTellsSchema /\ FailureStops

(* run_migrations_up: after it has gone through, every file is applied,    *)
(* also one whose version is older than the last that was applied.         *)
UpApplies ==
    command = "up" /\ command' = "idle" /\ pending = <<>> /\ failed = 0 => files \subseteq table
UpAppliesAll == [][UpApplies]_migrationVars

-----------------------------------------------------------------------------
(* What the tracking table looks like it says, and does not; see the README.  *)
TableIsTrue == command = "idle" => \A v \in files : schema[v] = IF v \in table THEN "whole" ELSE "none"
=============================================================================
