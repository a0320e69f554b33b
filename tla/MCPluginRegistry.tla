--------------------------- MODULE MCPluginRegistry ---------------------------
(* TLC instance of PluginRegistry: three plugins, two with a dash in their *)
(* distribution name.                                                      *)
EXTENDS PluginRegistry

CONSTANTS a, b, c

\* a ("dbnd-a") and b ("dbnd_b") are entry points; c ("dbnd-c") is only
\* loaded by hand.  The user lists: none, c alone, c then b (b clashes
\* once the entry points are loaded), c twice, and a (registered as
\* dbnd_a, its entry point dbnd-a then clashes in pm.register).
MCPlugins == {a, b, c}
MCHasDash == {a, c}
MCEntryPoints == {a, b}
MCUserLists == {<<>>, <<c>>, <<c, b>>, <<c, c>>, <<a>>}
=============================================================================
