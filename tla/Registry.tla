----------------------------- MODULE Registry ------------------------------
(***************************************************************************)
(* The registry of process names (compiler/mesh-rt/src/actor/registry.rs): *)
(* a map from names to processes, a reverse index, and a lock for each.    *)
(* register and unregister hold the first lock while they take the second, *)
(* so each is one step; cleanup_process takes and releases the lock of the *)
(* index before it takes the one of the names, so it is two.               *)
(***************************************************************************)
CONSTANTS Names,  \* the names
          Pids,   \* the processes
          NoPid,  \* no process
          Loose   \* the names that somebody may unregister

ASSUME NoPidAssumption == NoPid \notin Pids

ASSUME LooseAssumption == Loose \subseteq Names

VARIABLES
    names,      \* ProcessRegistry.names
    pid_names,  \* ProcessRegistry.pid_names
    removing    \* names_to_remove of the cleanup that runs for a process

registry == <<names, pid_names, removing>>

RegistryInit == /\ names = [n \in Names |-> NoPid]
                /\ pid_names = [p \in Pids |-> {}]
                /\ removing = [p \in Pids |-> {}]

\* Mutant: the name is taken over.
Register_TakesOver(n, p) == /\ names' = [names EXCEPT ![n] = p]
                            /\ pid_names' = [pid_names EXCEPT ![p] = @ \cup {n}]
                            /\ UNCHANGED removing

\* register: an error if the name is taken, otherwise both maps are updated.
Register(n, p) == /\ names[n] = NoPid
                  /\ names' = [names EXCEPT ![n] = p]
                  /\ pid_names' = [pid_names EXCEPT ![p] = @ \cup {n}]
                  /\ UNCHANGED removing

\* Mutant: the whole index entry of the owner is removed.
Unregister_WholeEntry(n) == /\ names[n] # NoPid
                            /\ names' = [names EXCEPT ![n] = NoPid]
                            /\ pid_names' = [pid_names EXCEPT ![names[n]] = {}]
                            /\ UNCHANGED removing

\* unregister: the owner is read from the map, under its lock.
Unregister(n) == /\ names[n] # NoPid
                 /\ names' = [names EXCEPT ![n] = NoPid]
                 /\ pid_names' = [pid_names EXCEPT ![names[n]] = @ \ {n}]
                 /\ UNCHANGED removing

\* Mutant: the entry is taken out of the index map and not put back as empty.
CleanupTake_NoDefault(p) == /\ removing' = [removing EXCEPT ![p] = pid_names[p]]
                            /\ pid_names' = [q \in Pids \ {p} |-> pid_names[q]]
                            /\ UNCHANGED names

\* Mutant: the entry is cloned and stays in the index.
CleanupTake_Clones(p) == /\ removing' = [removing EXCEPT ![p] = pid_names[p]]
                         /\ UNCHANGED <<names, pid_names>>

\* cleanup_process, under the lock of the index.
CleanupTake(p) == /\ removing' = [removing EXCEPT ![p] = pid_names[p]]
                  /\ pid_names' = [pid_names EXCEPT ![p] = {}]
                  /\ UNCHANGED names

\* cleanup_process, under the lock of the names: they are removed by name,
\* whoever owns them by now.
CleanupRemove(p) == /\ names' = [n \in Names |-> IF n \in removing[p] THEN NoPid ELSE names[n]]
                    /\ removing' = [removing EXCEPT ![p] = {}]
                    /\ UNCHANGED pid_names

-----------------------------------------------------------------------------
\* The registry on its own, used by any number of threads; the cleanup of a
\* process runs once at a time, on the worker that ends it.
RegistryNext ==
    \/ \E n \in Names, p \in Pids : Register(n, p)
    \/ \E n \in Loose : Unregister(n)
    \/ \E p \in Pids : removing[p] = {} /\ CleanupTake(p)
    \/ \E p \in Pids : removing[p] # {} /\ CleanupRemove(p)

RegistrySpec == RegistryInit /\ [][RegistryNext]_registry

-----------------------------------------------------------------------------
\* The type of the registry.
RegistryTypeOK ==
          /\ names \in [Names -> Pids \cup {NoPid}]
          /\ pid_names \in [Pids -> SUBSET Names]
          /\ removing \in [Pids -> SUBSET Names]

\* No name outlives the cleanup of its owner for want of an index entry: a
\* name in the map is in the index of its owner, or in the hands of the cleanup
\* that is about to remove it.
EveryNameIndexed == \A n \in Names : names[n] # NoPid =>
                       n \in pid_names[names[n]] \cup removing[names[n]]

\* The two maps agree on the names that nobody unregisters: what the index or a
\* cleanup holds of a process is mapped to that process, so that a cleanup never
\* frees the name of another one.
Kept == Names \ Loose
IndexAgrees == \A p \in Pids : \A n \in Kept \cap (pid_names[p] \cup removing[p]) : names[n] = p

\* On those names the registry is a table of names: the cleanup of a process
\* frees every name registered to it when the cleanup began, and no name of any
\* other process ("removes all names registered to the given PID").
Table == INSTANCE NameTable WITH Names    <- Kept,
                                 names    <- [n \in Kept |-> names[n]],
                                 dropping <- [p \in Pids |-> Kept \cap removing[p]]
IsNameTable == Table!Spec

\* Names are neither lost nor taken: together with the types, no name escapes
\* the cleanup of its owner, and no cleanup holds the name of somebody else.
NamesAreKept == RegistryTypeOK /\ EveryNameIndexed /\ IndexAgrees
=============================================================================
