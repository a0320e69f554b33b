------------------------- MODULE PluginRegistryProofs -------------------------
(***************************************************************************)
(* Proofs about the dbnd plugin registry, for every set of plugins, entry  *)
(* points and user lists and every number of register_dbnd_plugins calls: *)
(* the registry holds only plugin names, and a registration that returned *)
(* normally left every loadable entry point registered.                   *)
(***************************************************************************)
EXTENDS PluginRegistry, WellFoundedInduction, TLAPS

\* The entry points of a registration under way that the loop has passed
\* are registered, unless they raised.
LoadingInv ==
    rpc = "loading" =>
        /\ flag /\ ~disableLoading
        /\ \A e \in (EntryPoints \ broken) \ toLoad : EntryName(e) \in registered

\* The inductive invariant of AllEntryPointsLoaded.
AInv == TypeOK /\ LoadingInv /\ AllEntryPointsLoaded

-----------------------------------------------------------------------------
(* Lemmas about the operators. *)

\* The entry points are plugins and the user lists are lists of plugins.
LEMMA PluginSets ==
    EntryPoints \subseteq Plugins /\ UserLists \subseteq Seq(Plugins)
BY PluginsAssumption, Zenon

\* The entry point and module names of a plugin are names.
LEMMA NamesOfPlugins ==
    ASSUME NEW p \in Plugins
    PROVE  EntryName(p) \in Names /\ ModuleName(p) \in Names
BY DEF EntryName, ModuleName, Names

\* The loop of register_dbnd_user_plugins stops at the first module that
\* clashes, or after the whole list: FirstClash is a position of the list
\* or one past its end.
LEMMA FirstClashBound ==
    ASSUME userPlugins \in Seq(Plugins)
    PROVE  FirstClash \in 1 .. Len(userPlugins) + 1
<1> DEFINE T == {i \in 1 .. Len(userPlugins) : Clash(i)}
<1>1. CASE \E i \in 1 .. Len(userPlugins) : Clash(i)
    <2>1. T \subseteq Nat /\ T # {}
        BY <1>1
    <2>2. PICK x \in T : \A y \in T : ~(<<y, x>> \in OpToRel(<, Nat))
        BY <2>1, NatLessThanWellFounded, WFMin
    <2>3. x \in 1 .. Len(userPlugins) /\ Clash(x)
        BY <2>2 DEF T
    <2>4. \A j \in 1 .. x - 1 : ~Clash(j)
        <3>1. SUFFICES ASSUME NEW j \in 1 .. x - 1, Clash(j) PROVE FALSE
            OBVIOUS
        <3>2. j \in T
            BY <2>3, <3>1 DEF T
        <3>3. <<j, x>> \in OpToRel(<, Nat)
            BY <2>3 DEF OpToRel
        <3>4. QED
            BY <2>2, <3>2, <3>3
    <2>5. QED
        BY <2>3, <2>4 DEF FirstClash
<1>2. CASE ~\E i \in 1 .. Len(userPlugins) : Clash(i)
    BY <1>2 DEF FirstClash
<1>3. QED
    BY <1>1, <1>2

-----------------------------------------------------------------------------
(* Type correctness. *)

LEMMA TypeInit == Init => TypeOK
<1> SUFFICES ASSUME Init PROVE TypeOK
    OBVIOUS
<1>1. calls \in 0 .. MaxCalls
    BY MaxCallsAssumption DEF Init
<1>2. QED
    BY <1>1, Zenon DEF Init, TypeOK

LEMMA TypeStep == TypeOK /\ [Next]_vars => TypeOK'
<1> SUFFICES ASSUME TypeOK, [Next]_vars PROVE TypeOK'
    OBVIOUS
<1>1. CASE RegisterDbndPlugins
    <2>1. calls \in 0 .. MaxCalls
        BY Zenon DEF TypeOK
    <2>2. calls' \in 0 .. MaxCalls
        BY <1>1, <2>1, MaxCallsAssumption DEF RegisterDbndPlugins
    <2>3. QED
        BY <1>1, <2>2, Zenon DEF RegisterDbndPlugins, TypeOK, config
<1>2. ASSUME NEW e \in EntryPoints, LoadEntryPoint(e)
      PROVE  TypeOK'
    <2>1. EntryName(e) \in Names
        BY PluginSets, NamesOfPlugins
    <2>2. raised' \subseteq Callers \X Errors
        BY <1>2 DEF LoadEntryPoint, RaiseFromLoop, TypeOK, Errors, Callers
    <2>3. QED
        BY <1>2, <2>1, <2>2, Zenon DEF LoadEntryPoint, RaiseFromLoop, TypeOK, config
<1>3. CASE CheckPending
    BY <1>3, Zenon DEF CheckPending, TypeOK, config
<1>4. CASE RegisterDbndUserPlugins
    <2>1. userPlugins \in Seq(Plugins)
        BY PluginSets DEF TypeOK
    <2>2. FirstClash \in 1 .. Len(userPlugins) + 1
        BY <2>1, FirstClashBound
    <2>3. {ModuleName(userPlugins[i]) : i \in 1 .. FirstClash - 1} \subseteq Names
        BY <2>1, <2>2, NamesOfPlugins
    <2>4. raised' \subseteq Callers \X Errors
        BY <1>4 DEF RegisterDbndUserPlugins, TypeOK, Errors, Callers
    <2>5. QED
        BY <1>4, <2>3, <2>4, Zenon DEF RegisterDbndUserPlugins, TypeOK, config
<1>5. CASE UNCHANGED vars
    BY <1>5, Zenon DEF vars, config, TypeOK
<1>6. QED
    BY <1>1, <1>2, <1>3, <1>4, <1>5 DEF Next

(* Every state the registry calls reach is well typed: the pluggy manager *)
(* holds only entry point and module names of plugins, whatever the user *)
(* lists and however many calls are made.                                  *)
THEOREM TypeCorrect == Spec => []TypeOK
BY TypeInit, TypeStep, PTL DEF Spec

-----------------------------------------------------------------------------
(* AllEntryPointsLoaded. *)

LEMMA AInvInit == Init => AInv
BY TypeInit DEF Init, AInv, LoadingInv, AllEntryPointsLoaded

LEMMA AInvStep == AInv /\ [Next]_vars => AInv'
<1> SUFFICES ASSUME AInv, [Next]_vars PROVE AInv'
    OBVIOUS
<1>1. TypeOK'
    BY TypeStep DEF AInv
<1>2. CASE RegisterDbndPlugins
    <2>1. LoadingInv'
        BY <1>2 DEF RegisterDbndPlugins, AInv, LoadingInv, config
    <2>2. AllEntryPointsLoaded'
        BY <1>2 DEF RegisterDbndPlugins, AInv, AllEntryPointsLoaded, config, HasPlugin,
                    PluginsRaised
    <2>3. QED
        BY <1>1, <2>1, <2>2 DEF AInv
<1>3. ASSUME NEW e \in EntryPoints, LoadEntryPoint(e)
      PROVE  AInv'
    <2>1. /\ broken' = broken /\ disableLoading' = disableLoading /\ flag' = flag
          /\ rpc = "loading" /\ toLoad' = toLoad \ {e}
          /\ registered \subseteq registered'
        BY <1>3 DEF LoadEntryPoint, RaiseFromLoop, config
    <2>2. \/ rpc' = "loading" /\ (e \notin broken => EntryName(e) \in registered')
          \/ rpc' = "idle" /\ PluginsRaised'
        <3>1. ASSUME NEW err, RaiseFromLoop(err)
              PROVE  rpc' = "idle" /\ PluginsRaised'
            <4>1. <<"register_dbnd_plugins", err>> \in raised'
                BY <3>1 DEF RaiseFromLoop
            <4>2. QED
                BY <3>1, <4>1 DEF RaiseFromLoop, PluginsRaised
        <3>2. QED
            BY <1>3, <3>1, Zenon DEF LoadEntryPoint, HasPlugin
    <2>3. CASE rpc' = "loading" /\ (e \notin broken => EntryName(e) \in registered')
        <3>1. flag /\ ~disableLoading
              /\ \A x \in (EntryPoints \ broken) \ toLoad : EntryName(x) \in registered
            BY <2>1 DEF AInv, LoadingInv
        <3>2. LoadingInv'
            BY <2>1, <2>3, <3>1 DEF LoadingInv
        <3>3. AllEntryPointsLoaded'
            BY <2>3 DEF AllEntryPointsLoaded
        <3>4. QED
            BY <1>1, <3>2, <3>3 DEF AInv
    <2>4. CASE rpc' = "idle" /\ PluginsRaised'
        BY <1>1, <2>4 DEF AInv, LoadingInv, AllEntryPointsLoaded
    <2>5. QED
        BY <2>2, <2>3, <2>4
<1>4. CASE CheckPending
    <2>1. /\ broken' = broken /\ registered' = registered
          /\ disableLoading' = disableLoading /\ raised' = raised /\ flag' = flag
          /\ rpc' = "idle" /\ rpc = "loading" /\ toLoad = {}
        BY <1>4 DEF CheckPending, config
    <2>2. \A x \in (EntryPoints \ broken) \ toLoad : EntryName(x) \in registered
        BY <2>1 DEF AInv, LoadingInv
    <2>3. \A x \in EntryPoints \ broken : EntryName(x) \in registered
        BY <2>1, <2>2
    <2>4. AllEntryPointsLoaded'
        BY <2>1, <2>3 DEF AllEntryPointsLoaded, HasPlugin
    <2>5. QED
        BY <1>1, <2>1, <2>4 DEF AInv, LoadingInv
<1>5. CASE RegisterDbndUserPlugins
    <2>1. /\ broken' = broken /\ registered \subseteq registered'
          /\ disableLoading' = disableLoading /\ raised \subseteq raised'
          /\ flag' = flag /\ rpc' = rpc /\ toLoad' = toLoad
        BY <1>5 DEF RegisterDbndUserPlugins, config
    <2>2. LoadingInv'
        BY <2>1 DEF AInv, LoadingInv
    <2>3. AllEntryPointsLoaded'
        BY <2>1 DEF AInv, AllEntryPointsLoaded, HasPlugin, PluginsRaised
    <2>4. QED
        BY <1>1, <2>2, <2>3 DEF AInv
<1>6. CASE UNCHANGED vars
    <2>1. /\ broken' = broken /\ registered' = registered
          /\ disableLoading' = disableLoading /\ raised' = raised
          /\ flag' = flag /\ rpc' = rpc /\ toLoad' = toLoad
        BY <1>6 DEF vars, config
    <2>2. QED
        BY <1>1, <2>1 DEF AInv, LoadingInv, AllEntryPointsLoaded, HasPlugin,
                          PluginsRaised
<1>7. QED
    BY <1>2, <1>3, <1>4, <1>5, <1>6 DEF Next

(* register_dbnd_plugins, for every set of entry points, user lists and   *)
(* call sequences: once the flag is set and the call has returned without *)
(* raising, every entry point that loads is registered under its name,    *)
(* after any user plugins registered first.                               *)
THEOREM AllEntryPointsLoadedHolds == Spec => []AllEntryPointsLoaded
<1>1. AInv => AllEntryPointsLoaded
    BY DEF AInv
<1>2. QED
    BY <1>1, AInvInit, AInvStep, PTL DEF Spec

=============================================================================
