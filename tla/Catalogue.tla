----------------------------- MODULE Catalogue -----------------------------
(***************************************************************************)
(* What is read: the answers kept in Redis, the guard's kept rights, the     *)
(* lists of products and of shops, the opening hours and the figures.  They  *)
(* share the server instances and no row of the models: a behaviour shows    *)
(* one of them at work.                                                     *)
(***************************************************************************)
EXTENDS ReadCache, Rights, Directory, OpeningHours, Figures

VARIABLE scene             \* the part at work

Scenes == {"cache", "rights", "market", "directory", "hours", "figures"}

vars == <<scene, job, cacheVars, rightsVars, marketVars, directoryVars, hoursVars,
          figureVars>>

Init ==
    /\ scene \in Scenes
    /\ job = [w \in Workers |-> Idle]
    /\ CacheInit /\ (scene # "cache" => watched = CategoryList)
    /\ RightsInit /\ MarketInit /\ DirectoryInit /\ HoursInit
    /\ FiguresInit

Plays(s, step) == scene = s /\ step /\ UNCHANGED scene

Next ==
    \/ /\ Plays("cache", CacheNext)
       /\ UNCHANGED <<rightsVars, marketVars, directoryVars, hoursVars, figureVars>>
    \/ /\ Plays("rights", RightsNext)
       /\ UNCHANGED <<cacheVars, marketVars, directoryVars, hoursVars, figureVars>>
    \/ /\ Plays("market", MarketNext)
       /\ UNCHANGED <<cacheVars, rightsVars, directoryVars, hoursVars, figureVars>>
    \/ /\ Plays("directory", DirectoryNext)
       /\ UNCHANGED <<cacheVars, rightsVars, marketVars, hoursVars, figureVars>>
    \/ /\ Plays("hours", HoursNext)
       /\ UNCHANGED <<cacheVars, rightsVars, marketVars, directoryVars, figureVars>>
    \/ /\ Plays("figures", FiguresNext)
       /\ UNCHANGED <<cacheVars, rightsVars, marketVars, directoryVars, hoursVars>>

Spec == Init /\ [][Next]_vars /\ CacheFairness
=============================================================================
