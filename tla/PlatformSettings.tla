-------------------------- MODULE PlatformSettings --------------------------
(***************************************************************************)
(* One switch of the platform (messaging allowed, maintenance, a feature   *)
(* flag).  Each server instance guards its calls by its own copy of the    *)
(* settings, which it reloads when the copy has grown old; the instance    *)
(* that serves a change reloads its copy at once.                          *)
(***************************************************************************)
EXTENDS CommunityStore

CONSTANTS
    Instances,  \* server processes
    MaxPatches  \* bound: changes of the switch

ASSUME PatchAssumption == MaxPatches \in Nat

VARIABLES
    stored,   \* the PlatformSetting row: the switch is on
    cache,    \* per instance, settingsCache
    fresh,    \* per instance, whether cacheLoadedAt is within the TTL
    patches   \* changes begun

settingVars == <<stored, cache, fresh, patches>>

BeginPatch(r, i) ==
    /\ Begins(r, "PATCH")
    /\ patches < MaxPatches
    /\ patches' = patches + 1
    /\ \E value \in BOOLEAN : Starts(r, "PATCH", "upsert", i, 0, {value})
    /\ UNCHANGED <<stored, cache, fresh>>

Upsert(r) ==
    /\ At(r, "PATCH", "upsert")
    /\ stored' = (TRUE \in req[r].seen)
    /\ Goto(r, "load")
    /\ UNCHANGED <<cache, fresh, patches>>

\* Mutant: the copy is loaded once.
NeverReloads(i) == FALSE

\* ensureCache
Reloads(i) == ~fresh[i]

BeginGate(r, i) ==
    /\ Begins(r, "GATE")
    /\ Starts(r, "GATE", IF Reloads(i) THEN "load" ELSE "decide", i, 0, {})
    /\ UNCHANGED settingVars

\* refreshCache reads the rows, and fills the maps when both reads returned.
LoadSettings(r) ==
    /\ req[r].pc = "load"
    /\ req' = [req EXCEPT ![r].pc = "fill", ![r].seen = {stored}]
    /\ UNCHANGED settingVars

FillCache(r) ==
    /\ req[r].pc = "fill"
    /\ LET i == req[r].who
       IN /\ cache' = [cache EXCEPT ![i] = TRUE \in req[r].seen]
          /\ fresh' = [fresh EXCEPT ![i] = TRUE]
    /\ IF req[r].op = "GATE" THEN Goto(r, "decide") ELSE Ends(r)
    /\ UNCHANGED <<stored, patches>>

\* The guarded call goes on, or is refused, by the instance's copy.
Decide(r) ==
    /\ At(r, "GATE", "decide")
    /\ Ends(r)
    /\ UNCHANGED settingVars

\* The copy of an instance passes its time to live.
Age(i) ==
    /\ fresh[i]
    /\ fresh' = [fresh EXCEPT ![i] = FALSE]
    /\ UNCHANGED <<req, stored, cache, patches>>

SettingsInit ==
    /\ stored = TRUE /\ patches = 0
    /\ cache = [i \in Instances |-> TRUE]
    /\ fresh = [i \in Instances |-> TRUE]

SettingsBegin ==
    \E r \in Requests, i \in Instances : BeginPatch(r, i) \/ BeginGate(r, i)

SettingsStep(r) == Upsert(r) \/ LoadSettings(r) \/ FillCache(r) \/ Decide(r)
=============================================================================
