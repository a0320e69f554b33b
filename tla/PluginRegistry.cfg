\* Every project configuration and set of failing entry points; three
\* calls of register_dbnd_plugins and one of register_dbnd_user_plugins.
CONSTANTS
    a = a
    b = b
    c = c
    Plugins <- MCPlugins
    HasDash <- MCHasDash
    EntryPoints <- MCEntryPoints
    UserLists <- MCUserLists
    Importable = {}
    MaxCalls = 3
    None = None

SPECIFICATION Spec

INVARIANT TypeOK
INVARIANT AllEntryPointsLoaded

\* The process ends once every call has been made.
CHECK_DEADLOCK FALSE
