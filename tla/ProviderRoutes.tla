--------------------------- MODULE ProviderRoutes ---------------------------
(***************************************************************************)
(* Which providers the orchestrator uses, for which role, and what of it a *)
(* restart finds again (router.py; the settings endpoints of server.py).   *)
(* The settings live in memory and in two files written one after the      *)
(* other, provider_overrides.json and routing_overrides.json; a key lives  *)
(* in the keyring and in the environment of the process.                   *)
(***************************************************************************)
EXTENDS Naturals, FiniteSets, FiniteSetsExt

CONSTANTS
    Count,          \* the providers of the configuration, in its order
    Required,       \* the roles that must have a provider
    Optional,       \* the roles that may be left to the orchestrator
    ShippedEnabled, \* the providers the configuration enables
    ShippedRoutes,  \* the roles the configuration fills
    EnvKeys,        \* the providers whose key the user's environment holds
    Fragile         \* the providers whose adapter's constructor may raise

Providers == 1 .. Count
Roles == Required \cup Optional
Blank == 0                          \* no provider named
Routes == [Roles -> Providers \cup {Blank}]

ASSUME CountAssumption == Count \in Nat \ {0}
ASSUME RolesAssumption == Required \cap Optional = {}
ASSUME ShippedAssumption ==
    /\ ShippedEnabled \subseteq Providers /\ ShippedRoutes \in Routes
    /\ EnvKeys \subseteq Providers /\ Fragile \subseteq Providers

\* The contents of a file: never written, cut off by a crash, or a value.
Absent == [is |-> "absent"]
Garbled == [is |-> "garbled"]
Holds(x) == [is |-> "json", value |-> x]

VARIABLES
    pc,             \* "idle", "applying" (inside a PUT /v1/providers) or "down"
    enabled,        \* the providers enabled in memory
    routes,         \* the role routes in memory
    env,            \* the providers whose key is in the environment
    runtime,        \* the providers an adapter is built for
    stored,         \* the providers whose key is in the keyring
    fileEnabled,    \* provider_overrides.json
    fileRoutes,     \* routing_overrides.json
    backup,         \* what a failed PUT puts back
    unbuilt,        \* history: the providers whose adapter raised when the runtime was last
                    \* built, or whose key another process stored since
    astray          \* the routing file was written by no finished change of this process

memory == <<enabled, routes, env, runtime, unbuilt>>
files == <<fileEnabled, fileRoutes>>
routesVars == <<pc, memory, stored, files, backup, astray>>

-----------------------------------------------------------------------------
(* The runtime: one adapter per enabled provider with a key *)

\* A key missing from the environment is fetched from the keyring.
EnvAfter(on, e, kept) == e \cup (on \cap kept)

Rebuild(on, e, kept, failing) ==
    /\ env' = EnvAfter(on, e, kept)
    /\ runtime' = (on \cap EnvAfter(on, e, kept)) \ failing
    /\ unbuilt' = failing

\* What fails is left out of the runtime, which is otherwise built.
RebuildLenient(on, e, kept) == \E failing \in SUBSET Fragile : Rebuild(on, e, kept, failing)

-----------------------------------------------------------------------------
(* The routes *)

\* Every role names an enabled provider; an optional one may name none.
ValidRoutes(r, on) ==
    \A role \in Roles : IF r[role] = Blank THEN role \in Optional ELSE r[role] \in on

\* validate_config refuses a configuration whose routes name a provider it does not
\* enable, if it enables any, and every shipped route is one of those.
ASSUME ShippedFit == ShippedEnabled = {} \/ ValidRoutes(ShippedRoutes, ShippedEnabled)

Allowed(on) == IF on = {} THEN Providers ELSE on

\* The first in the order of the configuration.
Fallback(on) == Min(Allowed(on))

\* A role that names no allowed provider gets the first one, a blank optional
\* role as well.
Reconciled(r, on) ==
    [role \in Roles |-> IF r[role] \in Allowed(on) THEN r[role] ELSE Fallback(on)]

-----------------------------------------------------------------------------
(* What a start of the process finds *)

LoadedEnabled(f) == IF f.is = "json" THEN f.value ELSE ShippedEnabled

\* Routes that fail validation are dropped for the shipped ones, which were
\* validated against the shipped enablement only.
LoadedRoutes(f, on) ==
    IF f.is = "json" /\ ValidRoutes(f.value, on) THEN f.value ELSE ShippedRoutes

Started(fe, fr) ==
    LET on == LoadedEnabled(fe)
    IN /\ enabled' = on
       /\ routes' = LoadedRoutes(fr, on)
       /\ RebuildLenient(on, EnvKeys, stored)

NoBackup == [enabled |-> {}, routes |-> ShippedRoutes]

RoutesInit ==
    /\ pc = "idle"
    /\ enabled = ShippedEnabled
    /\ routes = ShippedRoutes
    /\ env = EnvKeys
    /\ unbuilt \in SUBSET Fragile
    /\ runtime = (ShippedEnabled \cap EnvKeys) \ unbuilt
    /\ stored = {}
    /\ fileEnabled = Absent
    /\ fileRoutes = Absent
    /\ backup = NoBackup
    /\ astray = FALSE

-----------------------------------------------------------------------------
(* PUT /v1/providers: apply_provider_overrides *)

\* The new enablement, and the routes made to agree with it; they are saved
\* at once when they changed.
Apply(on) ==
    /\ pc = "idle"
    /\ pc' = "applying"
    /\ backup' = [enabled |-> enabled, routes |-> routes]
    /\ enabled' = on
    /\ routes' = Reconciled(routes, on)
    /\ fileRoutes' = IF routes' # routes THEN Holds(routes') ELSE fileRoutes
    /\ UNCHANGED <<env, runtime, unbuilt, stored, fileEnabled, astray>>

\* The routes are validated, every enabled provider needs a key, and its adapter is
\* built.
Buildable == ValidRoutes(routes, enabled) /\ enabled \subseteq EnvAfter(enabled, env, stored)
MayFail == ~Buildable \/ enabled \cap Fragile # {}

\* Mutant of Accept: the enablement is not saved.
AcceptUnsaved ==
    /\ pc = "applying"
    /\ Buildable
    /\ pc' = "idle"
    /\ Rebuild(enabled, env, stored, {})
    /\ astray' = (astray /\ routes = backup.routes)
    /\ backup' = NoBackup
    /\ UNCHANGED <<enabled, routes, stored, files>>

Accept ==
    /\ pc = "applying"
    /\ Buildable
    /\ pc' = "idle"
    /\ Rebuild(enabled, env, stored, {})
    /\ fileEnabled' = Holds(enabled)
    /\ astray' = (astray /\ routes = backup.routes)
    /\ backup' = NoBackup
    /\ UNCHANGED <<enabled, routes, stored, fileRoutes>>

\* The keys a refused change has already fetched from the keyring.
Fetched == IF ValidRoutes(routes, enabled) THEN EnvAfter(enabled, env, stored) ELSE env

\* Everything is put back, the routes also on file, and the runtime built
\* again from what was put back.
Refuse ==
    /\ pc = "applying"
    /\ MayFail
    /\ pc' = "idle"
    /\ enabled' = backup.enabled
    /\ routes' = backup.routes
    /\ fileRoutes' = Holds(backup.routes)
    /\ RebuildLenient(backup.enabled, Fetched, stored)
    /\ backup' = NoBackup
    /\ UNCHANGED <<stored, fileEnabled, astray>>

-----------------------------------------------------------------------------
(* PUT /v1/routing/roles: apply_role_routes *)

PutRoutes(r) ==
    /\ pc = "idle"
    /\ ValidRoutes(r, enabled)
    /\ routes' = r
    /\ fileRoutes' = Holds(r)
    /\ astray' = FALSE
    /\ UNCHANGED <<pc, enabled, env, runtime, unbuilt, stored, fileEnabled, backup>>

\* mmctl applies routes in a process of its own, validated against what that
\* process loads; this process does not see them.
PutRoutesElsewhere(r) ==
    /\ pc = "idle"
    /\ ValidRoutes(r, LoadedEnabled(fileEnabled))
    /\ fileRoutes' = Holds(r)
    /\ astray' = TRUE
    /\ UNCHANGED <<pc, memory, stored, fileEnabled, backup>>

-----------------------------------------------------------------------------
(* The keys *)

\* POST /v1/providers/keys
SetKey(p) ==
    /\ pc = "idle"
    /\ stored' = stored \cup {p}
    /\ RebuildLenient(enabled, env \cup {p}, stored')
    /\ UNCHANGED <<pc, enabled, routes, files, backup, astray>>

\* mmctl secret set stores the key in a process of its own; this one does not build
\* its runtime again.
SetKeyElsewhere(p) ==
    /\ stored' = stored \cup {p}
    /\ unbuilt' = unbuilt \cup ({p} \ runtime)
    /\ UNCHANGED <<pc, enabled, routes, env, runtime, files, backup, astray>>

\* Mutant of DeleteKey: the adapter stays.
DeleteKeyOnly(p) ==
    /\ pc = "idle"
    /\ stored' = stored \ {p}
    /\ env' = env \ {p}
    /\ UNCHANGED <<pc, enabled, routes, runtime, unbuilt, files, backup, astray>>

\* DELETE /v1/providers/keys/{provider}
DeleteKey(p) ==
    /\ pc = "idle"
    /\ stored' = stored \ {p}
    /\ RebuildLenient(enabled, env \ {p}, stored')
    /\ UNCHANGED <<pc, enabled, routes, files, backup, astray>>

\* POST /v1/providers/{provider}/test fetches the key, and builds nothing.
TestProvider(p) ==
    /\ pc = "idle"
    /\ p \in stored \ env
    /\ env' = env \cup {p}
    /\ UNCHANGED <<pc, enabled, routes, runtime, unbuilt, stored, files, backup, astray>>

-----------------------------------------------------------------------------
(* The process dies and starts *)

\* A file that is being written is cut off, by nobody's leave.
Crash ==
    /\ pc # "down"
    /\ pc' = "down"
    /\ \/ UNCHANGED files
       \/ pc = "applying" /\ Buildable
          /\ fileEnabled' = Garbled /\ UNCHANGED fileRoutes
       \/ (pc = "applying" => routes # backup.routes \/ MayFail)
          /\ fileRoutes' = Garbled /\ UNCHANGED fileEnabled
    /\ astray' = (astray \/ pc = "applying" \/ files' # files)
    /\ UNCHANGED <<memory, stored, backup>>

\* validate_config asks for a key of every provider that the configuration enables.
Reload ==
    /\ pc = "down"
    /\ ShippedEnabled \subseteq EnvKeys \cup stored
    /\ pc' = "idle"
    /\ Started(fileEnabled, fileRoutes)
    /\ backup' = NoBackup
    /\ UNCHANGED <<stored, files, astray>>

KeyStep(p) == SetKey(p) \/ SetKeyElsewhere(p) \/ DeleteKey(p) \/ TestProvider(p)

RoutesNext ==
    \/ \E on \in SUBSET Providers : Apply(on)
    \/ Accept
    \/ Refuse
    \/ \E r \in Routes : PutRoutes(r) \/ PutRoutesElsewhere(r)
    \/ \E p \in Providers : KeyStep(p)
    \/ Crash
    \/ Reload

RoutesSpec == RoutesInit /\ [][RoutesNext]_routesVars

-----------------------------------------------------------------------------
(* Properties *)

RoutesTypeOK ==
    /\ pc \in {"idle", "applying", "down"}
    /\ enabled \in SUBSET Providers /\ runtime \in SUBSET Providers
    /\ env \in SUBSET Providers /\ stored \in SUBSET Providers
    /\ unbuilt \in SUBSET Providers
    /\ routes \in Routes
    /\ fileEnabled \in {Absent, Garbled} \cup {Holds(on) : on \in SUBSET Providers}
    /\ fileRoutes \in {Absent, Garbled} \cup {Holds(r) : r \in Routes}
    /\ backup \in [enabled : SUBSET Providers, routes : Routes]
    /\ astray \in BOOLEAN

\* Through accepted and refused changes, restarts and lost keys, no role is
\* routed to a provider that is off, unless a crash in the middle of a change
\* or another process left routes on file that the settings do not carry.
RoutesNameEnabled ==
    (pc = "idle" /\ enabled # {} /\ ~astray) =>
        /\ \A role \in Required : routes[role] \in enabled
        /\ \A role \in Optional : routes[role] \in enabled \cup {Blank}

\* What a restart would find is what is in use: no accepted change is lost
\* by it and no refused one comes back.
RestartKeepsSettings ==
    (pc = "idle" /\ ~astray) =>
        LET on == LoadedEnabled(fileEnabled)
        IN on = enabled /\ LoadedRoutes(fileRoutes, on) = routes

\* An adapter is in use for exactly the enabled providers whose key can be had,
\* whatever was refused, deleted or restarted in between, but for those whose
\* adapter raised and those whose key came from another process since
\* (router.py:592-637, mmctl/__main__.py:3127-3150).
RuntimeMatches ==
    pc = "idle" => runtime = (enabled \cap (env \cup stored)) \ unbuilt

\* The settings are well formed, name providers that are on, and are what runs.
SettingsOK == RoutesTypeOK /\ RoutesNameEnabled /\ RuntimeMatches
=============================================================================
