----------------------------- MODULE MCStorage ------------------------------
(* What a program and its tools keep, each on a small instance of its own:  *)
(* a behaviour belongs to the part it starts in, and leaves the others      *)
(* alone.  All but the builders of SQL are the modules themselves.          *)
EXTENDS Pool, Heap, Publish, PgClient, Migration, TLC

VARIABLES part, query, meant

queryVars == <<query, meant>>

(* Two of the three requests publish the same version.                     *)
ThreeVersions == [a |-> 1, b |-> 2, c |-> 2]
ThreeBlobs == [a |-> "x", b |-> "y", c |-> "z"]

(* Texts with ?, with $n, with $n repeated or out of order, and plain ones.*)
Builder == INSTANCE SqlBuilder WITH
    Texts <- {<<0>>, <<0, 0>>, <<1>>, <<2, 1>>, <<1, 1>>, <<>>}, Columns <- 2, MaxCalls <- 3

Parts == {"pool", "heap", "migrations", "publishing", "builder", "client"}

StorageInit ==
    /\ part \in Parts
    /\ Init /\ HeapInit /\ MigrationInit /\ PublishInit /\ Builder!Init /\ PgInit
    /\ part # "pool" => idle = <<CHOOSE h \in Conns : TRUE>>
    /\ part # "client" => mode = "disable"

StorageNext ==
    /\ UNCHANGED part
    /\ \/ /\ part = "pool" /\ Next
          /\ UNCHANGED <<heapVars, migrationVars, publishVars, queryVars, pgVars>>
       \/ /\ part = "heap" /\ HeapNext
          /\ UNCHANGED <<vars, migrationVars, publishVars, queryVars, pgVars>>
       \/ /\ part = "migrations" /\ MigrationNext
          /\ UNCHANGED <<vars, heapVars, publishVars, queryVars, pgVars>>
       \/ /\ part = "publishing" /\ PublishNext
          /\ UNCHANGED <<vars, heapVars, migrationVars, queryVars, pgVars>>
       \/ /\ part = "builder" /\ Builder!Next
          /\ UNCHANGED <<vars, heapVars, migrationVars, publishVars, pgVars>>
       \/ /\ part = "client" /\ PgNext
          /\ UNCHANGED <<vars, heapVars, migrationVars, publishVars, queryVars>>

StorageSpec ==
    StorageInit /\ [][StorageNext]_<<part, vars, heapVars, migrationVars, publishVars, queryVars, pgVars>>

(* Only the pool has handles to permute.                                   *)
Symmetry == Permutations(Clients) \cup Permutations(Conns)
-----------------------------------------------------------------------------
(* repo.rs, query.rs: every placeholder of a statement is bound to the value *)
(* it was written for.                                                       *)
ParametersBind == part = "builder" => Builder!TypeOK /\ Builder!ReadsBind /\ Builder!WritesBind
=============================================================================
