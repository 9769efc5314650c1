------------------------------- MODULE ConfigReload -------------------------------
(***************************************************************************)
(* The configuration of the reference services (reference_config), as the  *)
(* registry follows it: a thread loads the file again and again, and the   *)
(* clean-up thread and the handlers write what they find into the          *)
(* registry's own settings, without a lock. Others dial the registry at    *)
(* the port they find in the file. Somebody rewrites the file, in place.   *)
(* Numbers are kept for four settings: the heartbeat time-out, the         *)
(* clean-up interval, the time between reloads and the port.               *)
(***************************************************************************)
EXTENDS Integers

CONSTANTS
  Documents,    \* records: global, services, service (the registry's two sections), by field
  environ,      \* the environment of the registry, by field
  Defaults,     \* by field
  Callers,      \* threads that handle calls
  Absent, Bad, Infinite   \* no value; one that is no number; JSON's Infinity

Fields == {"timeout", "interval", "reload", "port"}
Empty == [global |-> [f \in Fields |-> Absent], services |-> [f \in Fields |-> Absent],
          service |-> [f \in Fields |-> Absent]]

VARIABLES
  file,      \* its document, and whether that is written out; Empty when there is no file
  watcher,   \* _thread: "none", "waits", "loaded" (it goes for the lock), "stopped"
  config,    \* _config of the watcher
  latest,    \* what the watcher has loaded
  settings,  \* _heartbeat_timeout_seconds and _cleanup_interval_seconds of the registry
  refresh,   \* what each thread of the registry does: [at |-> "rests"], or the
             \* configuration it applies and how far it is
  bound      \* the port the registry listens on

configVars == <<file, watcher, config, latest, settings, refresh, bound>>

Cleanup == "cleanup"
Refreshers == Callers \cup {Cleanup}
AtRest == [at |-> "rests"]
-------------------------------------------------------------------------------
(* load_reference_service_config *)

\* A file that is being written is no document: it counts as empty.
load_config_file == IF file.whole THEN file.doc ELSE Empty

Larger(m, n) == IF m > n THEN m ELSE n
Coerced(v, default, minimum) ==
  IF v = Infinite THEN v ELSE IF v \in Nat THEN Larger(v, minimum) ELSE default
Or(v, w) == IF v # Absent THEN v ELSE w

\* The section of the service's own name goes over the one under "services".
service_overrides(doc, f) == Or(doc.service[f], doc.services[f])
\* (Mutant: the shared section goes before the service's.)
SharedFirst(doc, f) == Or(doc.global[f], service_overrides(doc, f))
ServiceFirst(doc, f) == Or(service_overrides(doc, f), doc.global[f])

\* A variable or a section that has no number in it yields to the shared section only.
seconds(env, doc, f) ==
  Coerced(Or(env[f], ServiceFirst(doc, f)), Coerced(doc.global[f], Defaults[f], 1), 1)
resolve_reload_interval(env, doc) == Coerced(Or(env.reload, doc.global.reload), Defaults.reload, 0)
resolve_port(env, doc) == Coerced(Or(env.port, ServiceFirst(doc, "port")), Defaults.port, 1)
\* int() of an infinite number raises what the loader does not catch.
Raises(env, doc) == resolve_port(env, doc) = Infinite

LoadedConfig(env, doc) ==
  [timeout |-> seconds(env, doc, "timeout"), interval |-> seconds(env, doc, "interval"),
   reload |-> resolve_reload_interval(env, doc), port |-> resolve_port(env, doc)]
NoConfig == [timeout |-> 0, interval |-> 0, reload |-> 0, port |-> 0]
-------------------------------------------------------------------------------
ConfigInit ==
  /\ file = [doc |-> Empty, whole |-> TRUE]
  /\ watcher = "none" /\ config = NoConfig /\ latest = NoConfig
  /\ settings = [timeout |-> 0, interval |-> 0]
  /\ refresh = [r \in Refreshers |-> AtRest] /\ bound = 0

FileOnly == UNCHANGED <<watcher, config, latest, settings, refresh, bound>>
\* path.write_text truncates the file and then fills it.
Truncates(doc) == file.whole /\ file' = [doc |-> doc, whole |-> FALSE] /\ FileOnly
Fills == ~file.whole /\ file' = [file EXCEPT !.whole = TRUE] /\ FileOnly

\* serve: the watcher loads and starts, the registry applies what it loaded and binds its port.
serve ==
  /\ bound = 0 /\ ~Raises(environ, load_config_file)
  /\ config' = LoadedConfig(environ, load_config_file)
  /\ watcher' = IF config'.reload > 0 THEN "waits" ELSE "none"
  /\ settings' = [timeout |-> config'.timeout, interval |-> config'.interval]
  /\ bound' = config'.port
  /\ UNCHANGED <<file, latest, refresh>>

\* The wait of _watch_loop runs out, also when the interval has become 0, and _reload loads.
Reloads ==
  /\ watcher = "waits"
  /\ IF Raises(environ, load_config_file) THEN UNCHANGED <<watcher, latest>>
     ELSE watcher' = "loaded" /\ latest' = LoadedConfig(environ, load_config_file)
  /\ UNCHANGED <<file, config, settings, refresh, bound>>
Takes ==
  /\ watcher = "loaded" /\ watcher' = "waits" /\ config' = latest /\ latest' = NoConfig
  /\ UNCHANGED <<file, settings, refresh, bound>>
\* close: a reload that is under way may still take effect.
close ==
  /\ watcher \in {"waits", "loaded"} /\ watcher' = "stopped"
  /\ config' \in {config} \cup IF watcher = "loaded" THEN {latest} ELSE {}
  /\ latest' = NoConfig /\ UNCHANGED <<file, settings, refresh, bound>>

\* _refresh_runtime_config of each handler and of the clean-up loop: it reads the
\* configuration, and writes one setting after the other.
Reads(r) ==
  /\ bound # 0 /\ refresh[r].at = "rests"
  /\ refresh' = [refresh EXCEPT ![r] = [at |-> "timeout", config |-> config]]
  /\ UNCHANGED <<file, watcher, config, latest, settings, bound>>
Writes(r) ==
  /\ refresh[r].at # "rests"
  /\ LET f == refresh[r].at IN
     /\ settings' = [settings EXCEPT ![f] = refresh[r].config[f]]
     /\ refresh' = [refresh EXCEPT ![r] = IF f = "timeout" THEN [@ EXCEPT !.at = "interval"] ELSE AtRest]
  /\ UNCHANGED <<file, watcher, config, latest, bound>>

Watches == Reloads \/ Takes
Refreshes(r) == Reads(r) \/ Writes(r)

ConfigNext ==
  \/ \E doc \in Documents : Truncates(doc)
  \/ Fills \/ serve \/ Watches \/ close \/ \E r \in Refreshers : Refreshes(r)
-------------------------------------------------------------------------------
(* Properties *)

ConfigTypeOK ==
  /\ file.doc \in Documents \cup {Empty}
  /\ watcher \in {"none", "waits", "loaded", "stopped"}
  /\ \A r \in Refreshers : refresh[r].at \in {"rests", "timeout", "interval"}
  /\ \A c \in {config, latest} : c.timeout \in Nat /\ c.interval \in Nat /\ c.reload \in Nat /\ c.port \in Nat

\* What an operator may expect of a file and an environment without slips: the first of the
\* places that sets a time, with the environment before the file and the service's own
\* sections before the shared one.
MostSpecific(env, doc, f) ==
  LET places == <<env[f], doc.service[f], doc.services[f], doc.global[f], Defaults[f]>>
  IN Larger(1, places[CHOOSE i \in 1..5 : places[i] # Absent /\ \A j \in 1..(i - 1) : places[j] = Absent])
NoSlips(env, doc) ==
  \A f \in Fields : {env[f], doc.service[f], doc.services[f], doc.global[f]} \subseteq Nat \cup {Absent}

\* A file that is written out and stays is in force in the end, whatever it said before, how
\* slow the threads are and which order they write in: the registry's own settings are, for
\* good, what the file says. (Unless the watcher was never started or was closed.)
FileTakesEffect ==
  \A doc \in {d \in Documents : NoSlips(environ, d)} :
    <>[](file = [doc |-> doc, whole |-> TRUE] /\ watcher \in {"waits", "loaded"})
    => <>[](\A f \in {"timeout", "interval"} : settings[f] = MostSpecific(environ, doc, f))

\* The registry keeps the time-out of a document until there is another document (each of
\* which sets one). A load that meets a file half written finds the defaults.
KeepsLastGood ==
  [][settings'.timeout = Defaults.timeout => settings.timeout = Defaults.timeout \/ bound = 0]_configVars

\* The two settings are of one configuration. Threads that write after one another, and the
\* loads in between, mix them.
SettingsOfOneConfig ==
  bound # 0 => \E doc \in Documents \cup {Empty} :
    /\ settings.timeout = LoadedConfig(environ, doc).timeout
    /\ settings.interval = LoadedConfig(environ, doc).interval

\* Whoever reads the file dials the port the registry listens on. It listens on the one
\* the file had when it started.
DialsTheRegistry ==
  bound # 0 /\ ~Raises(environ, load_config_file) => bound = resolve_port(environ, load_config_file)
===============================================================================
