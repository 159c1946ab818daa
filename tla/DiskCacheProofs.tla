-------------------------- MODULE DiskCacheProofs --------------------------
(***************************************************************************)
(* Proofs about DiskCache, for any number of jobs, keys, compiler versions *)
(* and mishaps.                                                            *)
(***************************************************************************)
EXTENDS DiskCache, TLAPS

(***************************************************************************)
(* The inductive invariant                                                 *)
(***************************************************************************)

\* A job that looks something up knows what.
BusyJobsHaveKeys == \A j \in Job : pc[j] # "idle" => key[j] \in Key

\* Every file, finished or not, holds the artefact its name says.
FilesAreNamed == \A n \in Name : fs[n] # None => fs[n].of = n[1]

\* An entry's file is whole, and so is an unfinished one that is about to get an
\* entry's name.
EntriesAreWhole == \A k \in Key : fs[Entry(k)] # None => fs[Entry(k)].whole

RenamedAreWhole ==
  \A j \in Job : pc[j] = "rename" /\ fs[Unfinished(key[j], j)] # None
                   => fs[Unfinished(key[j], j)].whole

IInv == TypeOK /\ BusyJobsHaveKeys /\ FilesAreNamed /\ EntriesAreWhole /\ RenamedAreWhole

(***************************************************************************)
(* Lemmas about names                                                      *)
(***************************************************************************)

\* Entries and the unfinished files of all jobs have different names, in the
\* directory of their key.
LEMMA Names ==
  ASSUME NEW k \in Key
  PROVE  /\ Entry(k) \in Name /\ Entry(k)[1] = k /\ DirOf(Entry(k)) = SaltOf[k]
         /\ \A l \in Key : Entry(k) = Entry(l) => k = l
         /\ \A j \in Job : /\ Unfinished(k, j) \in Name /\ Unfinished(k, j)[1] = k
                           /\ DirOf(Unfinished(k, j)) = SaltOf[k]
                           /\ \A l \in Key : Unfinished(k, j) # Entry(l)
                           /\ \A l \in Key, i \in Job :
                                Unfinished(k, j) = Unfinished(l, i) => k = l /\ j = i
  BY DiskCacheAssumption DEF Entry, Unfinished, Name, DirOf

\* Every name belongs to a key, whose directory it is in.
LEMMA NameParts ==
  ASSUME NEW n \in Name
  PROVE  n[1] \in Key /\ DirOf(n) \in Salt
  BY DiskCacheAssumption DEF Name, DirOf

\* An access replaces a file by one that differs in nothing but its date.
LEMMA Touch ==
  ASSUME TypeOK, NEW n \in Name, fs[n] # None, NEW b \in BOOLEAN,
         fs' = [fs EXCEPT ![n].old = b]
  PROVE  \E f \in File : /\ fs' = [fs EXCEPT ![n] = f]
                         /\ f.of = fs[n].of /\ f.whole = fs[n].whole
<1> DEFINE g == fs[n]
           f == [of |-> g.of, whole |-> g.whole, old |-> b]
<1>1. g \in File
  BY DEF TypeOK
<1>2. f \in File /\ f = [g EXCEPT !.old = b]
  BY <1>1 DEF File
<1>3. fs' = [fs EXCEPT ![n] = f]
  BY <1>2
<1>4. QED
  BY <1>2, <1>3

\* Writing it to the end changes only that.
LEMMA Complete ==
  ASSUME TypeOK, NEW n \in Name, fs[n] # None, NEW b \in BOOLEAN,
         fs' = [fs EXCEPT ![n].whole = b]
  PROVE  \E f \in File : /\ fs' = [fs EXCEPT ![n] = f]
                         /\ f.of = fs[n].of /\ f.whole = b
<1> DEFINE g == fs[n]
           f == [of |-> g.of, whole |-> b, old |-> g.old]
<1>1. g \in File
  BY DEF TypeOK
<1>2. f \in File /\ f = [g EXCEPT !.whole = b]
  BY <1>1 DEF File
<1>3. fs' = [fs EXCEPT ![n] = f]
  BY <1>2
<1>4. QED
  BY <1>2, <1>3

(***************************************************************************)
(* Type correctness                                                        *)
(***************************************************************************)

\* The cache starts out empty.
LEMMA InitInvariant == DiskInit => IInv
  BY Names, DiskCacheAssumption DEF DiskInit, IInv, TypeOK, BusyJobsHaveKeys, FilesAreNamed,
     EntriesAreWhole, RenamedAreWhole, Where

\* Every operation keeps the types; what is created has a directory to be in, and a
\* directory is removed only when nothing is left in it.
LEMMA NextType == TypeOK /\ BusyJobsHaveKeys /\ [DiskNext]_diskVars => TypeOK'
<1> SUFFICES ASSUME TypeOK, BusyJobsHaveKeys, [DiskNext]_diskVars PROVE TypeOK'
  OBVIOUS
<1> USE DiskCacheAssumption DEF TypeOK, Where, gcVars, Goto, Return
<1>1. ASSUME NEW j \in Job, NEW k \in Key, Lookup(j, k)
      PROVE  TypeOK'
  BY <1>1 DEF Lookup
<1>2. ASSUME NEW j \in Job, NEW k \in Key, Invalidate(j, k)
      PROVE  TypeOK'
  BY <1>2, Names DEF Invalidate
<1>3. ASSUME NEW j \in Job, NEW d \in Salt, Prune(j, d)
      PROVE  TypeOK'
  BY <1>3 DEF Prune, Occupied
<1>4. ASSUME NEW j \in Job, NEW d \in Salt, Walk(j, d)
      PROVE  TypeOK'
  BY <1>4 DEF Walk
<1>5. ASSUME NEW j \in Job, NEW n \in Name, Stat(j, n)
      PROVE  TypeOK'
  BY <1>5 DEF Stat
<1>6. ASSUME NEW j \in Job, Unlink(j)
      PROVE  TypeOK'
  BY <1>6 DEF Unlink
<1>7. ASSUME NEW j \in Job, \/ GcDone(j) \/ Mkdir(j) \/ Compile(j) \/ CreateFails(j)
                              \/ RenameFails(j) \/ Raise(j) \/ GcDue(j)
      PROVE  TypeOK'
  <2>1. CASE GcDone(j)
    BY <2>1 DEF GcDone
  <2>2. CASE Mkdir(j)
    BY <2>2 DEF Mkdir, BusyJobsHaveKeys
  <2>3. CASE Compile(j)
    BY <2>3 DEF Compile
  <2>4. CASE CreateFails(j) \/ RenameFails(j) \/ Raise(j)
    BY <2>4 DEF CreateFails, RenameFails, Raise
  <2>5. CASE GcDue(j)
    BY <2>5 DEF GcDue
  <2>6. QED
    BY <1>7, <2>1, <2>2, <2>3, <2>4, <2>5
<1>8. ASSUME NEW j \in Job, Read(j)
      PROVE  TypeOK'
  <2> DEFINE n == Entry(key[j])
  <2>1. n \in Name
    BY <1>8, Names DEF Read, BusyJobsHaveKeys
  <2>2. CASE fs[n] = None
    BY <1>8, <2>2 DEF Read
  <2>3. CASE fs[n] # None
    <3>1. PICK f \in File : fs' = [fs EXCEPT ![n] = f]
      BY <1>8, <2>1, <2>3, Touch DEF Read
    <3>2. QED
      BY <1>8, <2>1, <2>3, <3>1 DEF Read
  <2>4. QED
    BY <2>2, <2>3
<1>9. ASSUME NEW j \in Job, Create(j)
      PROVE  TypeOK'
  BY <1>9, Names DEF Create, BusyJobsHaveKeys, File
<1>10. ASSUME NEW j \in Job, Write(j)
       PROVE  TypeOK'
  <2> DEFINE n == Unfinished(key[j], j)
  <2>1. n \in Name
    BY <1>10, Names DEF Write, BusyJobsHaveKeys
  <2>2. CASE fs[n] = None
    BY <1>10, <2>2 DEF Write
  <2>3. CASE fs[n] # None
    <3>1. PICK f \in File : fs' = [fs EXCEPT ![n] = f]
      BY <1>10, <2>1, <2>3, Complete, ZenonT(40) DEF Write
    <3>2. QED
      BY <1>10, <2>1, <2>3, <3>1, ZenonT(40) DEF Write
  <2>4. QED
    BY <2>2, <2>3
<1>11. ASSUME NEW j \in Job, Rename(j)
       PROVE  TypeOK'
  BY <1>11, Names, SMTT(20) DEF Rename, BusyJobsHaveKeys
<1>12. ASSUME NEW j \in Job, Restart(j)
       PROVE  TypeOK'
  BY <1>12 DEF Restart, Mishap
<1>13. ASSUME NEW n \in Name, Age(n)
       PROVE  TypeOK'
  <2>1. PICK f \in File : fs' = [fs EXCEPT ![n] = f]
    BY <1>13, Touch DEF Age
  <2>2. /\ DirOf(n) \in dirs /\ mishaps' \in 0..MaxMishaps
        /\ UNCHANGED <<dirs, pc, key, due, gcVars>>
    BY <1>13 DEF Age, Mishap
  <2>3. QED
    BY <2>1, <2>2
<1>14. CASE UNCHANGED diskVars
  BY <1>14 DEF diskVars
<1>15. QED
  BY <1>1, <1>2, <1>3, <1>4, <1>5, <1>6, <1>7, <1>8, <1>9, <1>10, <1>11, <1>12, <1>13, <1>14
     DEF DiskNext, Step

(***************************************************************************)
(* The other parts of the invariant                                        *)
(***************************************************************************)

\* A lookup keeps its key until it ends.
LEMMA NextKeys == TypeOK /\ BusyJobsHaveKeys /\ [DiskNext]_diskVars => BusyJobsHaveKeys'
  BY DiskCacheAssumption, ZenonT(90)
     DEF TypeOK, BusyJobsHaveKeys, DiskNext, Step, diskVars, gcVars, Goto, Return, Lookup, Invalidate,
         Prune, Walk, Stat, Unlink, GcDone, Mkdir, Read, Compile, Create, CreateFails, Write,
         Rename, RenameFails, Raise, Restart, GcDue, Age

\* What a step can do to the files: nothing, remove one, date one, create, finish
\* or rename that of a job's own lookup.
LEMMA FileChanges ==
  ASSUME IInv, [DiskNext]_diskVars
  PROVE  \/ UNCHANGED fs
         \/ \E n \in Name : fs' = [fs EXCEPT ![n] = None]
         \/ \E n \in Name, f \in File : /\ fs[n] # None /\ fs' = [fs EXCEPT ![n] = f]
                                       /\ f.of = fs[n].of /\ f.whole = fs[n].whole
         \/ \E j \in Job : Create(j) \/ Write(j) \/ Rename(j)
<1> USE DEF IInv, BusyJobsHaveKeys
<1>1. ASSUME NEW j \in Job, Read(j), fs' # fs
      PROVE  \E n \in Name, f \in File : /\ fs[n] # None /\ fs' = [fs EXCEPT ![n] = f]
                                       /\ f.of = fs[n].of /\ f.whole = fs[n].whole
  <2> DEFINE n == Entry(key[j])
  <2>1. n \in Name /\ fs[n] # None /\ fs' = [fs EXCEPT ![n].old = FALSE]
    BY <1>1, Names DEF Read
  <2>2. QED
    BY <2>1, Touch
<1>2. ASSUME NEW n \in Name, Age(n)
      PROVE  \E f \in File : /\ fs[n] # None /\ fs' = [fs EXCEPT ![n] = f]
                            /\ f.of = fs[n].of /\ f.whole = fs[n].whole
  BY <1>2, Touch DEF Age
<1>3. ASSUME NEW j \in Job, Unlink(j)
      PROVE  \E n \in Name : fs' = [fs EXCEPT ![n] = None]
  BY <1>3 DEF Unlink, TypeOK
<1>4. ASSUME NEW j \in Job, NEW k \in Key, Invalidate(j, k)
      PROVE  \E n \in Name : fs' = [fs EXCEPT ![n] = None]
  BY <1>4, Names DEF Invalidate
<1>5. QED
  BY <1>1, <1>2, <1>3, <1>4
     DEF DiskNext, Step, diskVars, Lookup, Prune, Walk, Stat, GcDone, Mkdir, Compile, CreateFails,
         RenameFails, Raise, Restart, GcDue

\* No operation writes an artefact under another key's name.
LEMMA NextNamed == IInv /\ [DiskNext]_diskVars => FilesAreNamed'
<1> SUFFICES ASSUME IInv, [DiskNext]_diskVars PROVE FilesAreNamed'
  OBVIOUS
<1> USE DEF IInv, FilesAreNamed, BusyJobsHaveKeys, TypeOK
<1>1. ASSUME NEW n \in Name, NEW f \in File \union {None}, fs' = [fs EXCEPT ![n] = f],
             f # None => f.of = n[1]
      PROVE  FilesAreNamed'
  BY <1>1
<1>2. ASSUME NEW j \in Job, Create(j)
      PROVE  FilesAreNamed'
  BY <1>2, Names DEF Create
<1>3. ASSUME NEW j \in Job, Write(j)
      PROVE  FilesAreNamed'
  <2> DEFINE n == Unfinished(key[j], j)
  <2>1. n \in Name
    BY <1>3, Names DEF Write
  <2>2. CASE fs[n] = None
    BY <1>3, <2>2 DEF Write
  <2>3. CASE fs[n] # None
    <3>1. PICK f \in File : fs' = [fs EXCEPT ![n] = f] /\ f.of = fs[n].of
      BY <1>3, <2>1, <2>3, Complete DEF Write
    <3>2. QED
      BY <2>1, <2>3, <3>1
  <2>4. QED
    BY <2>2, <2>3
<1>4. ASSUME NEW j \in Job, Rename(j)
      PROVE  FilesAreNamed'
  BY <1>4, Names DEF Rename
<1>5. QED
  BY <1>1, <1>2, <1>3, <1>4, FileChanges

\* An entry appears only by the renaming of a file that is whole.
LEMMA NextEntries == IInv /\ [DiskNext]_diskVars => EntriesAreWhole'
<1> SUFFICES ASSUME IInv, [DiskNext]_diskVars PROVE EntriesAreWhole'
  OBVIOUS
<1> USE DEF IInv, EntriesAreWhole, BusyJobsHaveKeys, TypeOK
<1>1. ASSUME NEW n \in Name, NEW f \in File \union {None}, fs' = [fs EXCEPT ![n] = f],
             f # None => fs[n] # None /\ f.whole = fs[n].whole
      PROVE  EntriesAreWhole'
  BY <1>1, Names
<1>2. ASSUME NEW j \in Job, NEW f, fs' = [fs EXCEPT ![Unfinished(key[j], j)] = f], key[j] \in Key
      PROVE  EntriesAreWhole'
  BY <1>2, Names
<1>3. ASSUME NEW j \in Job, Create(j) \/ Write(j)
      PROVE  EntriesAreWhole'
  BY <1>2, <1>3 DEF Create, Write
<1>4. ASSUME NEW j \in Job, Rename(j)
      PROVE  EntriesAreWhole'
  BY <1>4, Names DEF Rename, RenamedAreWhole
<1>5. QED
  BY <1>1, <1>3, <1>4, FileChanges

\* A job that is about to rename a file has written it to the end, and nobody else
\* writes to it.
LEMMA NextRenamed == IInv /\ [DiskNext]_diskVars => RenamedAreWhole'
<1> SUFFICES ASSUME IInv, [DiskNext]_diskVars, NEW i \in Job,
                    pc'[i] = "rename", fs'[Unfinished(key'[i], i)] # None
             PROVE  fs'[Unfinished(key'[i], i)].whole
  BY DEF RenamedAreWhole
<1> USE DEF IInv, BusyJobsHaveKeys, TypeOK
<1>1. ASSUME ~ \E j \in Job : Write(j)
      PROVE  pc[i] = "rename" /\ key'[i] = key[i] /\ key[i] \in Key
  <2>1. \/ UNCHANGED <<pc, key>>
        \/ \E j \in Job, w \in Where \ {"rename"} :
             /\ pc' = [pc EXCEPT ![j] = w]
             /\ UNCHANGED key \/ \E k \in Key \union {None} : key' = [key EXCEPT ![j] = k]
    BY <1>1, ZenonT(40) DEF DiskNext, Step, diskVars, Where, Goto, Return, Lookup, Invalidate, Prune, Walk, Stat,
       Unlink, GcDone, Mkdir, Read, Compile, Create, CreateFails, Rename, RenameFails, Raise,
       Restart, GcDue, Age
  <2>2. QED
    BY <2>1
<1>2. ASSUME NEW j \in Job, Write(j)
      PROVE  fs'[Unfinished(key'[i], i)].whole
  <2> DEFINE n == Unfinished(key[j], j)
  <2>1. n \in Name /\ key' = key /\ key[j] \in Key /\ pc' = [pc EXCEPT ![j] = "rename"]
    BY <1>2, Names DEF Write, Goto
  <2>2. CASE fs[n] = None
    BY <1>2, <2>1, <2>2 DEF Write, RenamedAreWhole
  <2>3. CASE fs[n] # None
    <3>1. PICK f \in File : fs' = [fs EXCEPT ![n] = f] /\ f.whole
      BY <1>2, <2>1, <2>3, Complete DEF Write
    <3>2. CASE i = j
      BY <2>1, <3>1, <3>2
    <3>3. CASE i # j
      <4>1. key[i] \in Key /\ pc[i] = "rename"
        BY <2>1, <3>3
      <4>2. Unfinished(key[i], i) # n /\ Unfinished(key[i], i) \in Name
        BY <2>1, <3>3, <4>1, Names
      <4>3. QED
        BY <2>1, <3>1, <4>1, <4>2 DEF RenamedAreWhole
    <3>4. QED
      BY <3>2, <3>3
  <2>4. QED
    BY <2>2, <2>3
<1>3. ASSUME NEW j \in Job, Create(j)
      PROVE  fs'[Unfinished(key'[i], i)].whole
  <2>1. pc[i] = "rename" /\ key'[i] = key[i] /\ key[i] \in Key /\ pc[j] = "create" /\ key[j] \in Key
    BY <1>3, Names DEF Create, Goto
  <2>2. i # j
    BY <2>1
  <2>3. QED
    BY <1>3, <2>1, <2>2, Names DEF Create, RenamedAreWhole
<1>4. ASSUME NEW j \in Job, Rename(j)
      PROVE  fs'[Unfinished(key'[i], i)].whole
  <2>1. pc[i] = "rename" /\ key'[i] = key[i] /\ key[i] \in Key /\ key[j] \in Key /\ i # j
    BY <1>4 DEF Rename, Goto, Return
  <2>2. QED
    BY <1>4, <2>1, Names DEF Rename, RenamedAreWhole
<1>5. ASSUME NEW n \in Name, NEW f \in File \union {None}, fs' = [fs EXCEPT ![n] = f],
             f # None => fs[n] # None /\ f.whole = fs[n].whole, ~ \E j \in Job : Write(j)
      PROVE  fs'[Unfinished(key'[i], i)].whole
  BY <1>1, <1>5, Names DEF RenamedAreWhole
<1>6. CASE UNCHANGED fs /\ ~ \E j \in Job : Write(j)
  BY <1>1, <1>6 DEF RenamedAreWhole
<1>7. QED
  BY <1>2, <1>3, <1>4, <1>5, <1>6, FileChanges

(***************************************************************************)
(* The theorems                                                            *)
(***************************************************************************)

LEMMA Invariance == DiskSpec => []IInv
<1>1. IInv /\ [DiskNext]_diskVars => IInv'
  BY NextType, NextKeys, NextNamed, NextEntries, NextRenamed DEF IInv
<1>2. QED
  BY InitInvariant, <1>1, PTL DEF DiskSpec

\* The directory, the files and the state of each caching_lookup and gc keep their
\* types, and no file is ever outside of an existing sub-directory.
THEOREM TypeCorrect == DiskSpec => []TypeOK
  BY Invariance, PTL DEF IInv

\* caching_lookup never reads a part of an artefact, or another key's: for any
\* number of jobs that build, collect and are killed without a lock.
THEOREM ReadsAreAlwaysComplete == DiskSpec => []ReadsAreComplete
<1>1. IInv => ReadsAreComplete
  BY Names DEF IInv, ReadsAreComplete, BusyJobsHaveKeys, FilesAreNamed, EntriesAreWhole
<1>2. QED
  BY <1>1, Invariance, PTL
=============================================================================
