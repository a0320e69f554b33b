---------------------------- MODULE PluginRegistry ----------------------------
(***************************************************************************)
(* The dbnd plugin registry (dbnd/_core/plugin/dbnd_plugins.py): a pluggy  *)
(* PluginManager filled once per process by register_dbnd_plugins from the *)
(* "dbnd" setuptools entry points, or by register_dbnd_user_plugins with    *)
(* modules loaded by hand, and asked by is_plugin_enabled whether a plugin  *)
(* is there.                                                                *)
(*                                                                         *)
(* A plugin is a model value.  Its distribution name may contain a dash    *)
(* ("dbnd-spark"); its module name has an underscore instead               *)
(* ("dbnd_spark").  A name is the pair <<plugin, form>>, so that            *)
(* module.replace("-", "_") is a change of form and nothing else.          *)
(* The PluginManager is the set of names registered; a name carries the   *)
(* plugin object it was registered with.                                   *)
(***************************************************************************)
EXTENDS Naturals, FiniteSets, Sequences

CONSTANTS
    Plugins,        \* the plugins installed or listed by the user
    HasDash,        \* those whose distribution name contains "-"
    EntryPoints,    \* those published as a "dbnd" setuptools entry point
    UserLists,      \* the user_plugin_modules lists a configuration may give
    Importable,     \* the module_import values importlib can import
    MaxCalls,       \* bound on the calls of register_dbnd_plugins
    None            \* Python None

ASSUME PluginsAssumption ==
    /\ HasDash \subseteq Plugins
    /\ EntryPoints \subseteq Plugins
    /\ UserLists \subseteq Seq(Plugins) /\ Importable \subseteq Plugins
    /\ None \notin Plugins
ASSUME MaxCallsAssumption == MaxCalls \in Nat

\* The names a plugin has: the dashed distribution name for some, the
\* module name for all.
Names == (HasDash \X {"dash"}) \cup (Plugins \X {"under"})

\* A fault TypeOK must catch: every distribution name taken as dashed.
EntryNameDashed(p) == <<p, "dash">>

\* The name a plugin is published under: ep.name, the distribution name.
EntryName(p) == IF p \in HasDash THEN <<p, "dash">> ELSE <<p, "under">>

\* The module name: pluggy's canonical name of a module object.
ModuleName(p) == <<p, "under">>

\* "-" in module, and module.replace("-", "_").
Dashed(n) == n[2] = "dash"
Underscored(n) == <<n[1], "under">>

VARIABLES
    broken,          \* the entry points whose ep.load() raises ImportError
    noPlugins,       \* get_dbnd_project_config().is_no_plugins
    disableLoading,  \* ...disable_pluggy_entrypoint_loading
    userPlugins,     \* the user_plugin_modules list
    registered,  \* pm: the names registered, each with its plugin object
    flag,        \* _dbnd_plugins_registered
    rpc,         \* register_dbnd_plugins: "idle" or "loading" its entry points
    toLoad,      \* the entry points the loading loop has not reached yet
    userDone,    \* register_dbnd_user_plugins has been called
    raised,      \* the exceptions raised so far, each with the call it left
    calls        \* register_dbnd_plugins calls so far

config == <<broken, noPlugins, disableLoading, userPlugins>>
vars == <<config, registered, flag, rpc, toLoad, userDone, raised, calls>>

Errors == {"ImportError", "ValueError"}

\* The registry calls an exception can leave.
Callers == {"register_dbnd_plugins", "register_dbnd_user_plugins"}

TypeOK ==
    /\ broken \subseteq EntryPoints
    /\ noPlugins \in BOOLEAN
    /\ disableLoading \in BOOLEAN
    /\ userPlugins \in UserLists
    /\ registered \subseteq Names
    /\ flag \in BOOLEAN
    /\ rpc \in {"idle", "loading"}
    /\ toLoad \subseteq EntryPoints
    /\ userDone \in BOOLEAN
    /\ raised \subseteq Callers \X Errors
    /\ calls \in 0 .. MaxCalls

-----------------------------------------------------------------------------
(* is_plugin_enabled(module, module_import), lines 22-37. *)

\* pm.has_plugin(name)
HasPlugin(n) == n \in registered

\* importlib.import_module(module_import) succeeds.
Imports(imp) == imp # None /\ imp \in Importable

\* The recursive call is_plugin_enabled(module.replace("-", "_"), ...): the
\* module has no dash left, so the call ends at its "return False".
IsPluginEnabledNoDash(n, imp) ==
    IF HasPlugin(n) THEN TRUE
    ELSE IF Imports(imp) THEN TRUE
    ELSE FALSE

IsPluginEnabled(n, imp) ==
    IF HasPlugin(n) THEN TRUE
    ELSE IF Imports(imp) THEN TRUE
    ELSE IF Dashed(n) THEN IsPluginEnabledNoDash(Underscored(n), imp)
    ELSE FALSE

-----------------------------------------------------------------------------
(* A fresh process: the module-level PluginManager is empty; any project *)
(* configuration, any set of entry points that fail to import.          *)
Init ==
    /\ broken \in SUBSET EntryPoints
    /\ noPlugins \in BOOLEAN
    /\ disableLoading \in BOOLEAN
    /\ userPlugins \in UserLists
    /\ registered = {}
    /\ flag = FALSE
    /\ rpc = "idle"
    /\ toLoad = {}
    /\ userDone = FALSE
    /\ raised = {}
    /\ calls = 0

(* register_dbnd_plugins: the early returns on is_no_plugins and on the   *)
(* flag, the flag set, and pm.load_setuptools_entrypoints("dbnd") started *)
(* unless entry point loading is disabled.                                *)
RegisterDbndPlugins ==
    /\ rpc = "idle"
    /\ calls < MaxCalls
    /\ calls' = calls + 1
    /\ IF noPlugins \/ flag
       THEN UNCHANGED <<flag, rpc, toLoad>>
       ELSE /\ flag' = TRUE
            /\ IF disableLoading
               THEN UNCHANGED <<rpc, toLoad>>
               ELSE /\ rpc' = "loading"
                    /\ toLoad' = EntryPoints
    /\ UNCHANGED <<config, registered, userDone, raised>>

\* A fault AllEntryPointsLoaded must catch: the loop ends after one entry.
LoadEntryPointOnce(e) ==
    /\ rpc = "loading"
    /\ e \in toLoad
    /\ registered' = registered \cup {EntryName(e)}
    /\ rpc' = "idle"
    /\ UNCHANGED <<config, flag, toLoad, userDone, raised, calls>>

\* pluggy holds the plugin object p, under whatever name.
Held(p) == \E n \in registered : n[1] = p

\* The loop is left by an exception: the rest of it and check_pending undone.
RaiseFromLoop(err) ==
    /\ rpc' = "idle"
    /\ raised' = raised \cup {<<"register_dbnd_plugins", err>>}
    /\ UNCHANGED registered

(* One turn of the loop of load_setuptools_entrypoints: an entry point    *)
(* whose name is registered is skipped; ep.load() may raise ImportError;  *)
(* pm.register(plugin, name=ep.name) raises ValueError when it holds the *)
(* plugin object already, under its module name (a user plugin whose     *)
(* distribution name has a dash); otherwise the plugin is registered.     *)
LoadEntryPoint(e) ==
    /\ rpc = "loading"
    /\ e \in toLoad
    /\ toLoad' = toLoad \ {e}
    /\ \/ /\ HasPlugin(EntryName(e))
          /\ UNCHANGED <<registered, rpc, raised>>
       \/ /\ ~HasPlugin(EntryName(e))
          /\ e \in broken
          /\ RaiseFromLoop("ImportError")
       \/ /\ ~HasPlugin(EntryName(e))
          /\ e \notin broken
          /\ Held(e)
          /\ RaiseFromLoop("ValueError")
       \/ /\ ~HasPlugin(EntryName(e))
          /\ e \notin broken
          /\ ~Held(e)
          /\ registered' = registered \cup {EntryName(e)}
          /\ UNCHANGED <<rpc, raised>>
    /\ UNCHANGED <<config, flag, userDone, calls>>

(* The loop is over: pm.check_pending(), which only validates the hooks, *)
(* and the return.                                                         *)
CheckPending ==
    /\ rpc = "loading"
    /\ toLoad = {}
    /\ rpc' = "idle"
    /\ UNCHANGED <<config, registered, flag, toLoad, userDone, raised, calls>>

(* register_dbnd_user_plugins(user_plugin_modules): each module in turn  *)
(* is loaded and pm.register'ed under its module name; pluggy refuses a   *)
(* plugin object it already holds (under any name) with a ValueError,     *)
(* which ends the loop with the modules after it unregistered.            *)
Clash(i) ==
    \/ Held(userPlugins[i])
    \/ \E j \in 1 .. i - 1 : userPlugins[j] = userPlugins[i]

FirstClash ==
    IF \E i \in 1 .. Len(userPlugins) : Clash(i)
    THEN CHOOSE i \in 1 .. Len(userPlugins) :
             Clash(i) /\ \A j \in 1 .. i - 1 : ~Clash(j)
    ELSE Len(userPlugins) + 1

RegisterDbndUserPlugins ==
    /\ rpc = "idle"
    /\ ~userDone
    /\ userDone' = TRUE
    /\ registered' =
           registered \cup {ModuleName(userPlugins[i]) : i \in 1 .. FirstClash - 1}
    /\ raised' = IF FirstClash <= Len(userPlugins)
                 THEN raised \cup {<<"register_dbnd_user_plugins", "ValueError">>}
                 ELSE raised
    /\ UNCHANGED <<config, flag, rpc, toLoad, calls>>

Next ==
    \/ RegisterDbndPlugins
    \/ \E e \in EntryPoints : LoadEntryPoint(e)
    \/ CheckPending
    \/ RegisterDbndUserPlugins

Spec == Init /\ [][Next]_vars

-----------------------------------------------------------------------------
(* Properties *)

\* register_dbnd_plugins has raised, and the flag stays set.
PluginsRaised == \E er \in raised : er[1] = "register_dbnd_plugins"

(* Once register_dbnd_plugins has set its flag and returned normally,    *)
(* every entry point that imports is registered under its name, after   *)
(* any user plugins registered first and any number of calls: later     *)
(* calls return at the flag, so what the first call left out is never   *)
(* registered, and an entry point skipped for its name must be held.    *)
AllEntryPointsLoaded ==
    (flag /\ rpc = "idle" /\ ~disableLoading /\ ~PluginsRaised) =>
        \A e \in EntryPoints \ broken : HasPlugin(EntryName(e))

=============================================================================
