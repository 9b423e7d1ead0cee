------------------------------ MODULE Startup ------------------------------
(***************************************************************************)
(* From the environment to a listening process: config.FromEnv, the checks *)
(* of main with ensureDirWritable, and what NewProcessor then uses.  The   *)
(* process may be killed at any point and started again with another       *)
(* environment; the disk stays.                                            *)
(*                                                                         *)
(*   off -> log -> cache -> listen -> serving        or -> off             *)
(*                                                                         *)
(* A setting is empty, blank (white space only), plain, or padded: a plain *)
(* one with white space around it.  main takes a setting as it is, the     *)
(* Processor trims it first: a padded directory is one name for main and   *)
(* another for the Processor.                                              *)
(***************************************************************************)
EXTENDS Naturals

CONSTANT MaxBoots \* bound: how often the process is started

ASSUME BootsAssumption == MaxBoots \in Nat \ {0}

Settings == {"empty", "blank", "plain", "padded"}
Kinds == {"log", "cache"}

\* The environment, with READER_LOG_DIR and READER_CACHE_DIR as dir.
Envs == [secrets: BOOLEAN, redis: Settings, dir: [Kinds -> Settings]]

VARIABLES
    env,    \* the environment of this process
    pc,     \* where main is
    step,   \* where ensureDirWritable is
    errors, \* those its write and its close returned
    dir,    \* dir[k]: the directory's name in Config, "empty" when disabled
    passed, \* the directories, by kind and name, that passed this process's check
    left,   \* left[k]: temporary files in directories of kind k
    faults, \* kills in the middle of a check, and files that were not removed
    boots   \* how often the process was started

vars == <<env, pc, step, errors, dir, passed, left, faults, boots>>

Steps == {"mkdir", "create", "write", "close", "remove"}

Init ==
    /\ env \in Envs
    /\ pc = "off" /\ step = "mkdir" /\ errors = {}
    /\ dir = [k \in Kinds |-> "empty"]
    /\ passed = {}
    /\ left = [k \in Kinds |-> 0]
    /\ faults = 0 /\ boots = 0

\* FromEnv: unset names get their defaults, which are plain.
\* NoDefault: they stay empty.
NoDefault(s) == s
WithDefault(s) == IF s = "empty" THEN "plain" ELSE s

\* Without WECOM_TOKEN or WECOM_ENCODING_AES_KEY main ends at once.
Start ==
    /\ pc = "off" /\ boots < MaxBoots
    /\ boots' = boots + 1
    /\ env' \in Envs
    /\ \/ env'.secrets /\ pc' = "log"
       \/ ~env'.secrets /\ pc' = "off"
    /\ dir' = [k \in Kinds |-> WithDefault(env'.dir[k])]
    /\ step' = "mkdir" /\ errors' = {} /\ passed' = {}
    /\ UNCHANGED <<left, faults>>

-----------------------------------------------------------------------------
Checking(k, s) == pc = k /\ step = s /\ dir[k] # "empty"

\* After the directory pc: the file cache is checked only without REDIS_ADDR.
Following == IF pc = "log" /\ env.redis = "empty" THEN "cache" ELSE "listen"

Proceed == pc' = Following /\ step' = "mkdir" /\ errors' = {}

\* The check of directory k ends: passed, or disabled with a log line.
\* DisableLogged: with the log line only.
Pass(k) == Proceed /\ passed' = passed \cup {<<k, dir[k]>>} /\ UNCHANGED dir
DisableLogged(k) == Proceed /\ UNCHANGED <<dir, passed>>
Disable(k) == Proceed /\ dir' = [dir EXCEPT ![k] = "empty"] /\ UNCHANGED passed

Mkdir(k) ==
    /\ Checking(k, "mkdir")
    /\ \/ step' = "create" /\ UNCHANGED <<pc, errors, dir, passed>>
       \/ Disable(k)
    /\ UNCHANGED <<env, left, faults, boots>>

CreateTemp(k) ==
    /\ Checking(k, "create")
    /\ \/ /\ step' = "write" /\ left' = [left EXCEPT ![k] = @ + 1]
          /\ UNCHANGED <<pc, errors, dir, passed>>
       \/ Disable(k) /\ UNCHANGED left
    /\ UNCHANGED <<env, faults, boots>>

\* Both are called whatever the first returns; the errors are looked at later.
\* WriteOrReturn: an error of the write is returned at once.
WriteOrReturn(k) ==
    /\ Checking(k, "write")
    /\ \/ step' = "close" /\ UNCHANGED <<pc, errors, dir, passed>>
       \/ Disable(k)
    /\ UNCHANGED <<env, left, faults, boots>>

WriteTemp(k) ==
    /\ Checking(k, "write")
    /\ step' = "close" /\ errors' \in {{}, {"write"}}
    /\ UNCHANGED <<env, pc, dir, passed, left, faults, boots>>

CloseTemp(k) ==
    /\ Checking(k, "close")
    /\ step' = "remove" /\ errors' \in {errors, errors \cup {"close"}}
    /\ UNCHANGED <<env, pc, dir, passed, left, faults, boots>>

RemoveTemp(k) ==
    /\ Checking(k, "remove")
    /\ \/ /\ left' = [left EXCEPT ![k] = @ - 1]
          /\ IF errors = {} THEN Pass(k) ELSE Disable(k)
          /\ UNCHANGED faults
       \/ /\ Disable(k)
          /\ faults' = faults + 1
          /\ UNCHANGED left
    /\ UNCHANGED <<env, boots>>

\* NewMux, and a port to listen on or none.
Listen ==
    /\ pc = "listen"
    /\ pc' \in {"serving", "off"}
    /\ UNCHANGED <<env, step, errors, dir, passed, left, faults, boots>>

\* A temporary file exists, which this check is to remove.
Open == pc \in Kinds /\ step \in {"write", "close", "remove"}

Kill ==
    /\ pc # "off"
    /\ pc' = "off"
    /\ faults' = IF Open THEN faults + 1 ELSE faults
    /\ UNCHANGED <<env, step, errors, dir, passed, left, boots>>

Check == \E k \in Kinds : \/ Mkdir(k) \/ CreateTemp(k) \/ WriteTemp(k)
                          \/ CloseTemp(k) \/ RemoveTemp(k)

Next == Start \/ Check \/ Listen \/ Kill

Spec == Init /\ [][Next]_vars

-----------------------------------------------------------------------------
\* Every variable has its type; a directory that is checked has a name.
TypeOK ==
    /\ env \in Envs
    /\ pc \in {"off", "listen", "serving"} \cup Kinds
    /\ step \in Steps
    /\ errors \subseteq Steps
    /\ dir \in [Kinds -> Settings]
    /\ passed \subseteq Kinds \X Settings
    /\ left \in [Kinds -> Nat]
    /\ faults \in Nat /\ boots \in 0..MaxBoots
    /\ pc \in Kinds => dir[pc] # "empty"

\* What NewProcessor and the functions for cache files and traces make of the
\* settings: strings.TrimSpace(s), if anything is left of it.
Trimmed(s) == IF s \in {"plain", "padded"} THEN "plain" ELSE "empty"
UsesRedis == Trimmed(env.redis) # "empty"
UsesFiles == ~UsesRedis /\ Trimmed(dir["cache"]) # "empty"
UsesTraces == Trimmed(dir["log"]) # "empty"

\* "to avoid silent failures": a directory that main leaves enabled, Redis or
\* not, is one that this process has itself written to under the name main
\* leaves in the configuration, whatever earlier processes found.
EnabledPassed ==
    pc = "serving" =>
        /\ dir["log"] # "empty" => <<"log", dir["log"]>> \in passed
        /\ env.redis = "empty" /\ dir["cache"] # "empty" =>
               <<"cache", dir["cache"]>> \in passed

\* The same of the directories that the Processor will write to: not so with a
\* padded name, or with a blank REDIS_ADDR, which only main takes for Redis.
CheckedBeforeUse ==
    pc = "serving" =>
        /\ UsesTraces => <<"log", Trimmed(dir["log"])>> \in passed
        /\ UsesFiles => <<"cache", Trimmed(dir["cache"])>> \in passed

\* A check cleans up after itself, on its error paths, too: every temporary file
\* on the disk is the one being checked with, or one whose removal failed or
\* whose process was killed.
LitterExplained ==
    left["log"] + left["cache"] = faults + IF Open THEN 1 ELSE 0
=============================================================================
