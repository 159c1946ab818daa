----------------------------- MODULE Compiling -----------------------------
(***************************************************************************)
(* Loading contracts (boa/interpret.py): boa.load and boa.loads compile a  *)
(* source file with the modules and interfaces it imports, or find the     *)
(* result in the disk cache, under a key that has to tell apart whatever   *)
(* compiles to something else.  Files are edited at any time, and the      *)
(* imports found elsewhere when the search path changes.                   *)
(*                                                                         *)
(* The contract "c" imports the module "m" and, in its second version,     *)
(* the interface "i"; "m" imports the module "n" in its second version,    *)
(* and "i" the types of "n" in its own.  "c2" is a copy of "c".  "v" is    *)
(* written for another version of the compiler, which vvm runs, and in its *)
(* second version imports "i", which that compiler looks up by itself.     *)
(* DiskCache shows that the cache itself returns what was stored under the *)
(* key.                                                                    *)
(***************************************************************************)
EXTENDS Naturals, Sequences, SequencesExt

CONSTANTS
  Names,        \* contract names that a load may ask for
  MaxLoads,     \* bound on the loads
  MaxEdits      \* bound on edits and changes of the search path

ASSUME CompilingAssumption == MaxLoads \in Nat /\ MaxEdits \in Nat

VARIABLES
  text,         \* the version of each file, by directory
  searchPath,   \* _search_path: the directory that imports are found in
  caching,      \* is there a _disk_cache?
  cached,       \* its entries
  deployerClass,\* the current environment's
  imported,     \* sys.modules
  loaded,       \* the last load: what it was to give, and what it gave
  loads, edits  \* so far

compilingVars == <<text, searchPath, caching, cached, deployerClass, imported, loaded, loads, edits>>

Dir == {"lib1", "lib2"}
File == {"c", "c2", "m", "i", "n", "v"}
Shared == {"m"}           \* also in lib2
Interface == {"i"}
Imports(f, version) ==
  CASE f \in {"c", "c2"} -> IF version = 0 THEN <<"m">> ELSE <<"m", "i">>
    [] f \in {"m", "i"} /\ version = 1 -> <<"n">>
    [] f = "v" /\ version = 1 -> <<"i">>
    [] OTHER -> <<>>

TextOf(f) == text[IF f \in Shared THEN searchPath ELSE "lib1"][f]

\* The contents of a file.
Source(f) == <<IF f = "c2" THEN "c" ELSE f, TextOf(f)>>

\* What a file compiles to depends on all that it imports, directly or not.
Meaning ==
  LET meaning[f \in File] ==
        <<Source(f), [k \in DOMAIN Imports(f, TextOf(f)) |-> meaning[Imports(f, TextOf(f))[k]]]>>
  IN meaning

\* Does it depend on what an interface imports?
Blind ==
  LET blind[f \in File] ==
        \E k \in DOMAIN Imports(f, TextOf(f)) :
          LET g == Imports(f, TextOf(f))[k]
          IN blind[g] \/ (g \in Interface /\ Imports(g, TextOf(g)) # <<>>)
  IN blind

(***************************************************************************)
(* The cache key                                                           *)
(***************************************************************************)

\* hash_input, and a module's source_sha256sum: of the file alone.
Sha256(f) == Source(f)

\* Of the contract alone.
OwnHash == [f \in File |-> <<Sha256(f)>>]

\* get_module_fingerprint: it goes on to the imports of modules, not to those of
\* interfaces.
Fingerprint ==
  LET fingerprint[f \in File] ==
        Append([k \in DOMAIN Imports(f, TextOf(f)) |->
                  LET g == Imports(f, TextOf(f))[k]
                  IN IF g \in Interface THEN Sha256(g) ELSE fingerprint[g]],
               Sha256(f))
  IN fingerprint

\* cache_key of compiler_data
CacheKey(f, name, args) == <<name, f, Fingerprint[f], args, deployerClass>>

\* Entries that an older boa may have left.
OldEntries ==
  [key \in {Source("v")} \union {CacheKey("c", name, "default") : name \in Names} |->
     IF key = Source("v") THEN [old |-> TRUE, of |-> Meaning["v"]]
     ELSE [of |-> Meaning["c"], file |-> "c", args |-> "default", sourceMap |-> FALSE]]

CompilingInit ==
  /\ text = [d \in Dir |-> [f \in File |-> 0]] /\ searchPath = "lib1"
  /\ caching = TRUE /\ deployerClass = "VyperDeployer" /\ imported = {}
  /\ loaded = [outcome |-> "none"] /\ loads = 0 /\ edits = 0
  /\ cached \in {<<>>, OldEntries}

(***************************************************************************)
(* Operations                                                              *)
(***************************************************************************)

\* DiskCache.caching_lookup
Lookup(key, artefact) ==
  IF key \in DOMAIN cached THEN cached[key] ELSE artefact
Stored(key, artefact) ==
  cached' = [k \in DOMAIN cached \union {key} |-> IF k = key /\ k \notin DOMAIN cached THEN artefact
                                                  ELSE cached[k]]
Forget(key) == cached' = [k \in DOMAIN cached \ {key} |-> cached[k]]

\* compiler_data: sources are read and analysed on every load, and compiled if the
\* cache does not have the key.  An entry without a source map, from an older boa,
\* gets one and is forgotten.
CompilerData(f, name, args) ==
  LET artefact == [of |-> Meaning[f], file |-> f, args |-> args, sourceMap |-> TRUE]
      key == CacheKey(f, name, args)
      got == IF caching THEN Lookup(key, artefact) ELSE artefact
  IN /\ IF ~caching THEN UNCHANGED cached
        ELSE IF got.sourceMap THEN Stored(key, artefact) ELSE Forget(key)
     /\ loaded' = [outcome |-> "vyper", want |-> artefact, blind |-> Blind[f],
                   got |-> [got EXCEPT !.sourceMap = TRUE]]

\* _loads_partial_vvm: the compiler's output is cached by the source and the version,
\* not by what it imports from base_path, and given a name and a file name afterwards.
\* Older boas cached the deployer.
Vvm(f) ==
  LET key == Source(f)
      output == [old |-> FALSE, of |-> Meaning[f]]
      got == IF caching THEN Lookup(key, output) ELSE output
  IN /\ IF ~caching THEN UNCHANGED cached
        ELSE cached' = [k \in DOMAIN cached \union {key} |->
                          IF k = key /\ (k \notin DOMAIN cached \/ got.old) THEN output ELSE cached[k]]
     /\ loaded' = [outcome |-> "vvm", want |-> output, blind |-> Imports(f, TextOf(f)) # <<>>,
                   got |-> IF got.old THEN output ELSE got]

\* loads_partial, with loads and load: another compiler only if the pragma asks for
\* one that is not installed.
LoadsPartial(f, name, args) ==
  /\ loads < MaxLoads /\ loads' = loads + 1
  /\ IF f = "v" THEN Vvm(f) ELSE CompilerData(f, name, args)
  /\ UNCHANGED <<text, searchPath, caching, deployerClass, edits>>

Load(f, name, args) == LoadsPartial(f, name, args) /\ UNCHANGED imported

\* import c: BoaImporter and BoaLoader, which Python asks once; load_partial takes
\* the path for the name.
Import(f) ==
  /\ f \notin imported /\ imported' = imported \union {f}
  /\ LoadsPartial(f, f, "default")

\* An editor, or git, changes a file.
Edit(d, f) ==
  /\ edits < MaxEdits /\ edits' = edits + 1
  /\ d = "lib1" \/ f \in Shared
  /\ text' = [text EXCEPT ![d][f] = 1 - @]
  /\ UNCHANGED <<searchPath, caching, cached, deployerClass, imported, loaded, loads>>

SetSearchPaths(d) ==
  /\ edits < MaxEdits /\ edits' = edits + 1
  /\ searchPath' = d
  /\ UNCHANGED <<text, caching, cached, deployerClass, imported, loaded, loads>>

\* set_cache_dir, disable_cache
SetCacheDir(on) ==
  /\ edits < MaxEdits /\ edits' = edits + 1
  /\ caching' = on
  /\ UNCHANGED <<text, searchPath, cached, deployerClass, imported, loaded, loads>>

\* Another environment brings its deployer class.
SetDeployerClass(class) ==
  /\ edits < MaxEdits /\ edits' = edits + 1
  /\ deployerClass' = class
  /\ UNCHANGED <<text, searchPath, caching, cached, imported, loaded, loads>>

CompilingNext ==
  \/ \E f \in {"c", "c2", "m", "v"}, name \in Names, args \in {"default", "optimised"} : Load(f, name, args)
  \/ \E f \in {"c", "c2", "m", "v"} : Import(f)
  \/ \E d \in Dir, f \in File : Edit(d, f)
  \/ \E d \in Dir : SetSearchPaths(d)
  \/ \E on \in BOOLEAN : SetCacheDir(on)
  \/ \E class \in {"VyperDeployer", "Other"} : SetDeployerClass(class)

(***************************************************************************)
(* Properties                                                              *)
(***************************************************************************)

\* What a load returns is compiled from the files as they are, that of the contract
\* and all it imports, under the file name and with the arguments asked for, and
\* has a source map: however files, search path, cache and environment changed since
\* an entry was cached, by this boa or an older one.  Two changes are not seen, and
\* leave the contract's own file right but what it imports stale: that of a file that
\* an interface imports, and that of any import of a contract for vvm.
LoadsAreFresh ==
  loaded.outcome \in {"vyper", "vvm"} =>
    IF loaded.blind THEN [loaded.got EXCEPT !.of = <<@[1], loaded.want.of[2]>>] = loaded.want
    ELSE loaded.got = loaded.want

\* "Compute a fingerprint for a module which changes if any of its dependencies
\* change": a load whose dependencies changed does not find what was compiled before.
DependenciesAreSeen ==
  loaded.outcome = "vyper" => loaded.got.of = loaded.want.of
=============================================================================
