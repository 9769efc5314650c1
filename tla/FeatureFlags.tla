------------------------------- MODULE FeatureFlags -------------------------------
(***************************************************************************)
(* The SDK's own configuration (sw4rm/config) and its feature flags        *)
(* (sw4rm/feature_flags): one of each per process, made when somebody      *)
(* first asks for it, and shared by the application's threads without a    *)
(* lock. Of a configuration one number and the flags are kept. A flag's    *)
(* value is a text, a truth value or a number, as its source has it.       *)
(***************************************************************************)
EXTENDS Integers, Sequences

CONSTANTS
  AppThreads, Flags,
  EnvFlags,        \* the text each flag has in the environment, or NoText
  EnvRetries,      \* SW4RM_MAX_RETRIES: a number, Invalid, or NoText
  FileFlags, FileRetries,   \* of the file, each with NoText for what it lacks
  CustomFlags,     \* flags of configurations the application makes itself
  FlagTexts,       \* texts the application sets a flag to
  NoText, Invalid, NoFlags, NoSettings,
  MaxInstances     \* bound on the FeatureFlags objects made

ASSUME FlagsAssumption == MaxInstances \in Nat /\ NoFlags \notin 1..MaxInstances

\* The texts that are told apart.
Texts == {"yes", "on", "no", "0", "1", "2", "beta"}

ASSUME TextsAssumption ==
  /\ FlagTexts \subseteq Texts /\ FileRetries \in Nat \cup {NoText}
  /\ \A f \in Flags : FileFlags[f] \in Texts \cup {NoText}
  /\ \A c \in CustomFlags, f \in Flags : c[f] \in Texts \cup {NoText}

VARIABLES
  global_config,   \* _global_config
  instances,       \* the FeatureFlags objects: _overrides and _config_flags
  global_flags,    \* _global_flags: one of them
  thread,          \* what each thread is doing
  promised         \* history: the overrides set by a thread when no other was making flags

flagVars == <<global_config, instances, global_flags, thread, promised>>

Text(x) == [as |-> "text", of |-> x]
NoValue == [as |-> "none", of |-> "none"]
DefaultRetries == 3
-------------------------------------------------------------------------------
(* load_config *)

\* Defaults, file, environment: a number that is none is left out, and the file's stays.
Retries(fromFile) ==
  IF EnvRetries \in Nat THEN EnvRetries
  ELSE IF fromFile /\ FileRetries # NoText THEN FileRetries ELSE DefaultRetries
load_config(fromFile) ==
  [retries |-> Retries(fromFile),
   flags |-> [f \in Flags |-> IF fromFile /\ FileFlags[f] # NoText THEN Text(FileFlags[f]) ELSE NoValue]]
Custom(c) == [retries |-> DefaultRetries, flags |-> [f \in Flags |-> IF c[f] = NoText THEN NoValue ELSE Text(c[f])]]

(* FeatureFlags *)

\* A truth value is kept as "yes" or "no", whichever word it was.
parse_env_value(x) ==
  CASE x \in {"yes", "on"} -> [as |-> "bool", of |-> "yes"]
    [] x = "no" -> [as |-> "bool", of |-> "no"]
    [] x \in {"0", "1", "2"} -> [as |-> "number", of |-> x]
    [] OTHER -> Text(x)
FromEnv(f) == IF EnvFlags[f] = NoText THEN NoValue ELSE parse_env_value(EnvFlags[f])

\* The first of the places that has the flag.
get_value(i, f) ==
  LET places == <<instances[i].overrides[f], FromEnv(f), instances[i].config[f]>>
  IN IF \A n \in 1..3 : places[n] = NoValue THEN NoValue
     ELSE places[CHOOSE n \in 1..3 : places[n] # NoValue /\ \A m \in 1..(n - 1) : places[m] = NoValue]
is_enabled(v) ==
  \/ v.as = "text" /\ v.of \in {"yes", "on", "1"}
  \/ v.as = "bool" /\ v.of = "yes"
  \/ v.as = "number" /\ v.of # "0"
\* One layer over the other. (Mutant: the environment goes over the application's own.)
Over(lower, upper) == [f \in Flags |-> IF upper[f] = NoValue THEN lower[f] ELSE upper[f]]
EnvLast(i) == Over(Over(instances[i].config, instances[i].overrides), [f \in Flags |-> FromEnv(f)])
get_all_flags(i) == Over(Over(instances[i].config, [f \in Flags |-> FromEnv(f)]), instances[i].overrides)
-------------------------------------------------------------------------------
Calm == [at |-> "rests"]
NoOverrides == [f \in Flags |-> NoValue]

FlagsInit ==
  /\ global_config = NoSettings /\ instances = <<>> /\ global_flags = NoFlags
  /\ thread = [t \in AppThreads |-> Calm] /\ promised = NoOverrides

Does(t, how) == thread' = [thread EXCEPT ![t] = how]

set_config(c) ==
  /\ global_config' = c /\ UNCHANGED <<instances, global_flags, thread, promised>>

\* get_config, for itself or for the flags: a thread that finds none loads one.
get_config(t, next) ==
  /\ IF global_config = NoSettings THEN Does(t, [at |-> "loads", next |-> next])
     ELSE Does(t, IF next = "rests" THEN Calm ELSE [at |-> "creates", config |-> global_config.flags])
  /\ UNCHANGED <<global_config, instances, global_flags, promised>>
Loads(t) ==
  /\ thread[t].at = "loads" /\ global_config' = load_config(FALSE)
  /\ Does(t, IF thread[t].next = "rests" THEN Calm ELSE [at |-> "creates", config |-> global_config'.flags])
  /\ UNCHANGED <<instances, global_flags, promised>>

\* get_feature_flags: a thread that finds none goes for the configuration and makes some.
\* (Mutant: it makes some at each call.)
NeverThere == global_flags # global_flags
AlreadyThere == global_flags # NoFlags
get_feature_flags(t) ==
  /\ thread[t].at = "rests"
  /\ IF AlreadyThere
     THEN Does(t, [at |-> "has", flags |-> global_flags]) /\ UNCHANGED <<global_config, instances, global_flags, promised>>
     ELSE get_config(t, "creates")
Creates(t) ==
  /\ thread[t].at = "creates" /\ Len(instances) < MaxInstances
  /\ instances' = Append(instances, [overrides |-> NoOverrides, config |-> thread[t].config])
  /\ global_flags' = Len(instances) + 1 /\ Does(t, [at |-> "has", flags |-> Len(instances) + 1])
  /\ UNCHANGED <<global_config, promised>>

\* set_flag and clear_flag, on what the thread got.
Makes(u) == \/ thread[u].at = "creates"
            \/ thread[u].at = "loads" /\ thread[u].next = "creates"
set_flag(t, f, v) ==
  /\ thread[t].at = "has" /\ Does(t, Calm)
  /\ LET i == thread[t].flags IN
     /\ instances' = [instances EXCEPT ![i].overrides[f] = v]
     /\ promised' = IF i = global_flags /\ ~\E u \in AppThreads : Makes(u) THEN [promised EXCEPT ![f] = v] ELSE promised
  /\ UNCHANGED <<global_config, global_flags>>

\* set_feature_flags, with flags of its own.
set_feature_flags(c) ==
  /\ Len(instances) < MaxInstances
  /\ instances' = Append(instances, [overrides |-> NoOverrides, config |-> Custom(c).flags])
  /\ global_flags' = Len(instances) + 1 /\ promised' = NoOverrides /\ UNCHANGED <<global_config, thread>>

FlagsNext ==
  \/ \E c \in CustomFlags : set_config(Custom(c)) \/ set_feature_flags(c)
  \/ set_config(load_config(TRUE))
  \/ \E t \in AppThreads :
       \/ thread[t].at = "rests" /\ get_config(t, "rests")
       \/ Loads(t) \/ get_feature_flags(t) \/ Creates(t)
       \/ \E f \in Flags, v \in {NoValue} \cup {Text(x) : x \in FlagTexts} : set_flag(t, f, v)
-------------------------------------------------------------------------------
(* Properties *)

Values == {NoValue} \cup {[as |-> a, of |-> x] : a \in {"text", "bool", "number"}, x \in Texts}
FlagsTypeOK ==
  /\ global_config # NoSettings =>
       global_config.flags \in [Flags -> Values] /\ global_config.retries \in Nat
  /\ global_flags = NoFlags \/ global_flags \in DOMAIN instances
  /\ \A i \in DOMAIN instances : instances[i] \in [overrides : [Flags -> Values], config : [Flags -> Values]]
  /\ \A t \in AppThreads : thread[t].at \in {"rests", "loads", "creates", "has"}
  /\ promised \in [Flags -> Values]

\* The list of all flags says of each what the flag alone says, whichever places it is set
\* in; and what a thread sets on the shared flags while no other is making some stays
\* set, for every thread, until somebody sets or clears it or replaces them.
FlagsHold ==
  /\ \A i \in DOMAIN instances, f \in Flags : get_all_flags(i)[f] = get_value(i, f)
  /\ \A f \in Flags : promised[f] # NoValue => get_value(global_flags, f) = promised[f]

\* A flag that was set on the shared flags stays set whoever else asks for them for the first
\* time. Two threads that both find none make one each.
EveryOverrideHolds ==
  [][\A f \in Flags : global_flags # NoFlags /\ instances[global_flags].overrides[f] # NoValue
       /\ global_flags' # global_flags => \E c \in CustomFlags : set_feature_flags(c)]_flagVars

\* The shared flags are those of the shared configuration. They are those of the one there
\* was when they were made.
FlagsFollowConfig ==
  global_flags # NoFlags /\ global_config # NoSettings => instances[global_flags].config = global_config.flags

\* A configuration that was set is not replaced by one that is loaded. A thread that found
\* none before may load one after.
SetConfigHolds ==
  [][\A t \in AppThreads : Loads(t) => global_config = NoSettings]_flagVars

\* A text switches a flag alike in the environment and in the configuration. The number 2
\* does in the environment only.
TextMeansTheSame == \A f \in Flags : is_enabled(FromEnv(f)) = is_enabled(Text(EnvFlags[f]))
===============================================================================
