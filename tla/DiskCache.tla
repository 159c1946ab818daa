----------------------------- MODULE DiskCache -----------------------------
(***************************************************************************)
(* boa/util/disk_cache.py: the cache of compiled contracts, a directory    *)
(* shared by all processes and threads (jobs) without any lock.  An entry  *)
(* lives in a sub-directory named after the compiler's version (the salt). *)
(* Jobs interleave at every file-system operation.                         *)
(*                                                                         *)
(* An artefact is modelled by the key it belongs to; a file also knows     *)
(* whether it was written to the end and whether its last access is more   *)
(* than the time to live ago.                                              *)
(***************************************************************************)
EXTENDS Naturals

CONSTANTS
  Job,          \* threads of all processes
  Key,          \* source codes, with everything else that goes into the key
  Salt,         \* compiler versions
  SaltOf,       \* [Key -> Salt]: the directory of an entry
  Wants,        \* [Job -> SUBSET Key]: what a job compiles
  MaxMishaps,   \* bound on kills and on files that grow old
  None

ASSUME DiskCacheAssumption ==
  /\ SaltOf \in [Key -> Salt]
  /\ Wants \in [Job -> SUBSET Key]
  /\ MaxMishaps \in Nat
  /\ None \notin Key \union Job

\* File names: the entry of a key, and a job's unfinished version of it.
Entry(k) == <<k, None>>

\* One name for the unfinished file of all jobs.
SharedUnfinished(k, j) == <<k, CHOOSE i \in Job : TRUE>>

\* with_suffix(f".{pid}.{thread}.unfinished")
Unfinished(k, j) == <<k, j>>

Name == Key \X (Job \union {None})
DirOf(n) == SaltOf[n[1]]

VARIABLES
  dirs,         \* the sub-directories that exist
  fs,           \* [Name -> None or [of, whole, old]]
  pc,           \* where each job is
  key,          \* the key each job looks up
  due,          \* is the garbage collection of the job's cache object due?
  prune,        \* gc: directories still to be pruned
  walk,         \* gc: directories still to be walked
  files,        \* gc: files still to be examined
  doomed,       \* gc: the file found too old
  mishaps       \* kills and files that grew old, so far

gcVars == <<prune, walk, files, doomed>>
diskVars == <<dirs, fs, pc, key, due, gcVars, mishaps>>

DiskInit ==
  /\ dirs = {}
  /\ fs = [n \in Name |-> None]
  /\ pc = [j \in Job |-> "idle"]
  /\ key = [j \in Job |-> None]
  /\ due = [j \in Job |-> TRUE]       \* last_gc = 0
  /\ prune = [j \in Job |-> {}] /\ walk = [j \in Job |-> {}]
  /\ files = [j \in Job |-> {}] /\ doomed = [j \in Job |-> None]
  /\ mishaps = 0

Goto(j, where) == pc' = [pc EXCEPT ![j] = where]

\* The lookup of j ends, with an artefact or because the compiler raises.
Return(j) == Goto(j, "idle") /\ key' = [key EXCEPT ![j] = None]

(***************************************************************************)
(* caching_lookup                                                          *)
(***************************************************************************)

\* The walk lists the sub-directories first.
Lookup(j, k) ==
  /\ pc[j] = "idle"
  /\ k \in Wants[j]
  /\ key' = [key EXCEPT ![j] = k]
  /\ IF due[j]
     THEN /\ Goto(j, "prune")
          /\ prune' = [prune EXCEPT ![j] = dirs]
          /\ walk' = [walk EXCEPT ![j] = dirs]
     ELSE Goto(j, "mkdir") /\ UNCHANGED <<prune, walk>>
  /\ UNCHANGED <<dirs, fs, due, files, doomed, mishaps>>

\* A directory deemed empty although it holds an unfinished file.
OccupiedByEntry(d) == \E k \in Key : SaltOf[k] = d /\ fs[Entry(k)] # None

Occupied(d) == \E n \in Name : DirOf(n) = d /\ fs[n] # None

\* Trying again until the sub-directory is gone.
PruneUntilGone(j, d) ==
  /\ pc[j] = "prune" /\ d \in prune[j]
  /\ prune' = [prune EXCEPT ![j] = IF Occupied(d) THEN @ ELSE @ \ {d}]
  /\ dirs' = IF Occupied(d) THEN dirs ELSE dirs \ {d}
  /\ UNCHANGED <<fs, pc, key, due, walk, files, doomed, mishaps>>

\* gc: rmdir of a sub-directory fails, silently, unless it is empty.
Prune(j, d) ==
  /\ pc[j] = "prune" /\ d \in prune[j]
  /\ prune' = [prune EXCEPT ![j] = @ \ {d}]
  /\ dirs' = IF Occupied(d) THEN dirs ELSE dirs \ {d}
  /\ UNCHANGED <<fs, pc, key, due, walk, files, doomed, mishaps>>

\* gc: on to the next sub-directory, whose files are listed.
Walk(j, d) ==
  /\ pc[j] = "prune" /\ prune[j] = {} /\ files[j] = {} /\ doomed[j] = None
  /\ d \in walk[j]
  /\ walk' = [walk EXCEPT ![j] = @ \ {d}]
  /\ files' = [files EXCEPT ![j] = {n \in Name : DirOf(n) = d /\ fs[n] # None}]
  /\ UNCHANGED <<dirs, fs, pc, key, due, prune, doomed, mishaps>>

\* gc: stat of a file, which may be gone by now ...
Stat(j, n) ==
  /\ pc[j] = "prune" /\ prune[j] = {} /\ doomed[j] = None
  /\ n \in files[j]
  /\ files' = [files EXCEPT ![j] = @ \ {n}]
  /\ doomed' = [doomed EXCEPT ![j] = IF fs[n] # None /\ fs[n].old THEN n ELSE None]
  /\ UNCHANGED <<dirs, fs, pc, key, due, prune, walk, mishaps>>

\* ... and unlink of whatever has that name now.
Unlink(j) ==
  /\ pc[j] = "prune" /\ doomed[j] # None
  /\ fs' = [fs EXCEPT ![doomed[j]] = None]
  /\ doomed' = [doomed EXCEPT ![j] = None]
  /\ UNCHANGED <<dirs, pc, key, due, prune, walk, files, mishaps>>

GcDone(j) ==
  /\ pc[j] = "prune"
  /\ prune[j] = {} /\ walk[j] = {} /\ files[j] = {} /\ doomed[j] = None
  /\ due' = [due EXCEPT ![j] = FALSE]
  /\ Goto(j, "mkdir")
  /\ UNCHANGED <<dirs, fs, key, gcVars, mishaps>>

Mkdir(j) ==
  /\ pc[j] = "mkdir"
  /\ dirs' = dirs \union {SaltOf[key[j]]}
  /\ Goto(j, "read")
  /\ UNCHANGED <<fs, key, due, gcVars, mishaps>>

\* Open and read the entry; any OSError counts as a miss.  Reading is an access,
\* and what was opened is read to its end whatever happens to its name.
Read(j) ==
  /\ pc[j] = "read"
  /\ LET n == Entry(key[j])
     IN  IF fs[n] = None
         THEN Goto(j, "compile") /\ UNCHANGED <<fs, key>>
         ELSE fs' = [fs EXCEPT ![n].old = FALSE] /\ Return(j)
  /\ UNCHANGED <<dirs, due, gcVars, mishaps>>

\* func(): the compiler, which may also raise.
Compile(j) ==
  /\ pc[j] = "compile"
  /\ \/ Goto(j, "create") /\ UNCHANGED key
     \/ Return(j)
  /\ UNCHANGED <<dirs, fs, due, gcVars, mishaps>>

\* Create the unfinished file, or truncate the one that a killed process with the
\* same ids has left, which does not change the time of its last access.
Create(j) ==
  /\ pc[j] = "create"
  /\ SaltOf[key[j]] \in dirs
  /\ fs' = [fs EXCEPT ![Unfinished(key[j], j)] =
              [of |-> key[j], whole |-> FALSE, old |-> @ # None /\ @.old]]
  /\ Goto(j, "write")
  /\ UNCHANGED <<dirs, key, due, gcVars, mishaps>>

\* The directory has been removed meanwhile: FileNotFoundError.
CreateFails(j) ==
  /\ pc[j] = "create"
  /\ SaltOf[key[j]] \notin dirs
  /\ Goto(j, "failed")
  /\ UNCHANGED <<dirs, fs, key, due, gcVars, mishaps>>

\* A file that is open is written even if its name is gone.
Write(j) ==
  /\ pc[j] = "write"
  /\ LET n == Unfinished(key[j], j)
     IN  fs' = IF fs[n] = None THEN fs ELSE [fs EXCEPT ![n].whole = TRUE]
  /\ Goto(j, "rename")
  /\ UNCHANGED <<dirs, key, due, gcVars, mishaps>>

\* The atomic rename gives the entry its name.
Rename(j) ==
  /\ pc[j] = "rename"
  /\ fs[Unfinished(key[j], j)] # None
  /\ fs' = [fs EXCEPT ![Entry(key[j])] = fs[Unfinished(key[j], j)],
                      ![Unfinished(key[j], j)] = None]
  /\ Return(j)
  /\ UNCHANGED <<dirs, due, gcVars, mishaps>>

\* The garbage collector of another job has taken the file for an old one.
RenameFails(j) ==
  /\ pc[j] = "rename"
  /\ fs[Unfinished(key[j], j)] = None
  /\ Goto(j, "failed")
  /\ UNCHANGED <<dirs, fs, key, due, gcVars, mishaps>>

\* The exception leaves caching_lookup, and the caller goes on.
Raise(j) ==
  /\ pc[j] = "failed"
  /\ Return(j)
  /\ UNCHANGED <<dirs, fs, due, gcVars, mishaps>>

(***************************************************************************)
(* The other operations, and time                                          *)
(***************************************************************************)

Invalidate(j, k) ==
  /\ pc[j] = "idle"
  /\ k \in Wants[j]
  /\ fs' = [fs EXCEPT ![Entry(k)] = None]
  /\ UNCHANGED <<dirs, pc, key, due, gcVars, mishaps>>

Mishap == mishaps < MaxMishaps /\ mishaps' = mishaps + 1

\* A process is killed and another one takes its place, with a cache object of
\* its own and, at worst, the same process and thread ids; its unfinished file
\* stays.
Restart(j) ==
  /\ pc[j] # "idle"
  /\ Mishap
  /\ Return(j)
  /\ due' = [due EXCEPT ![j] = TRUE]
  /\ prune' = [prune EXCEPT ![j] = {}] /\ walk' = [walk EXCEPT ![j] = {}]
  /\ files' = [files EXCEPT ![j] = {}] /\ doomed' = [doomed EXCEPT ![j] = None]
  /\ UNCHANGED <<dirs, fs>>

\* A tenth of the time to live has passed since the job's last collection.
GcDue(j) ==
  /\ pc[j] = "idle" /\ ~due[j]
  /\ due' = [due EXCEPT ![j] = TRUE]
  /\ UNCHANGED <<dirs, fs, pc, key, gcVars, mishaps>>

\* The time to live has passed since the file's last access.  A job does not
\* take that long between creating its file and renaming it.
Age(n) ==
  /\ fs[n] # None /\ ~fs[n].old
  /\ Mishap
  /\ ~ \E j \in Job : pc[j] \in {"write", "rename"} /\ n = Unfinished(key[j], j)
  /\ fs' = [fs EXCEPT ![n].old = TRUE]
  /\ UNCHANGED <<dirs, pc, key, due, gcVars>>

Step(j) ==
  \/ \E d \in Salt : Prune(j, d) \/ Walk(j, d)
  \/ \E n \in Name : Stat(j, n)
  \/ Unlink(j) \/ GcDone(j)
  \/ Mkdir(j) \/ Read(j) \/ Compile(j)
  \/ Create(j) \/ CreateFails(j) \/ Write(j) \/ Rename(j) \/ RenameFails(j)
  \/ Raise(j)

DiskNext ==
  \/ \E j \in Job : \/ \E k \in Key : Lookup(j, k) \/ Invalidate(j, k)
                    \/ Step(j)
                    \/ Restart(j) \/ GcDue(j)
  \/ \E n \in Name : Age(n)

\* A running lookup goes on running.
DiskFairness == \A j \in Job : WF_diskVars(Step(j))

DiskSpec == DiskInit /\ [][DiskNext]_diskVars /\ DiskFairness

(***************************************************************************)
(* Properties                                                              *)
(***************************************************************************)

File == [of: Key, whole: BOOLEAN, old: BOOLEAN]
Where == {"idle", "prune", "mkdir", "read", "compile", "create", "write", "rename",
          "failed"}

\* Type correctness of the directory and of each job's caching_lookup and gc; a
\* file only exists in a sub-directory that does (rmdir spares what is in use).
TypeOK ==
  /\ dirs \subseteq Salt
  /\ mishaps \in 0..MaxMishaps
  /\ fs \in [Name -> File \union {None}]
  /\ \A n \in Name : fs[n] # None => DirOf(n) \in dirs
  /\ pc \in [Job -> Where]
  /\ key \in [Job -> Key \union {None}]
  /\ due \in [Job -> BOOLEAN]
  /\ prune \in [Job -> SUBSET Salt] /\ walk \in [Job -> SUBSET Salt]
  /\ files \in [Job -> SUBSET Name] /\ doomed \in [Job -> Name \union {None}]

\* What caching_lookup reads is never another key's artefact or a part of one,
\* although nothing is locked, jobs build the same entry at the same time, are
\* killed in the middle of writing it, and collect each other's garbage.
ReadsAreComplete ==
  \A j \in Job : pc[j] = "read" /\ fs[Entry(key[j])] # None =>
      fs[Entry(key[j])].of = key[j] /\ fs[Entry(key[j])].whole

\* Every lookup returns or raises, whatever other jobs add to the directory while
\* it is being collected.
LookupsEnd == \A j \in Job : pc[j] # "idle" ~> pc[j] = "idle"
=============================================================================
