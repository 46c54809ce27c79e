--------------------------------- MODULE Apps ---------------------------------
(* A machine on which one of the two apps runs.  They share nothing.         *)
EXTENDS AppState, AlloyApp

VARIABLE app    \* the app that its user started

apps == <<vars, alloyAppVars, app>>

(* The daemon of the other app has no bottles: nobody asks it.               *)
AppsInit == /\ Init /\ AlloyAppInit
            /\ \/ app = "SiliconAlloy" /\ there = {}
               \/ app = "alloy" /\ Kept = {}

AppsNext ==
    \/ app = "SiliconAlloy" /\ Next /\ UNCHANGED <<alloyAppVars, app>>
    \/ app = "alloy" /\ AlloyAppNext /\ UNCHANGED <<vars, app>>
    \/ app = "alloy" /\ AppAtRest /\ UNCHANGED apps

AppsSpec == AppsInit /\ [][AppsNext]_apps
=============================================================================
