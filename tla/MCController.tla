---------------------------- MODULE MCController ----------------------------
(***************************************************************************)
(* Small hosts for Controller: configurations and samples.                 *)
(***************************************************************************)
EXTENDS Controller

CONSTANTS g0, g1, alice

(* Everything watched, alice whitelisted, workers on.                      *)
Plain == [indices |-> {}, debounce |-> 1, workloads |-> TRUE,
          whitelist |-> {alice}, minDur |-> 1, maxDur |-> 1, intMax |-> TRUE]

(* A host where NVML shows nothing: a reload may empty the watched set and *)
(* turn workers off, take alice off the whitelist, or stop half-way at a   *)
(* max_entries of 10.5.                                                    *)
Listed == [Plain EXCEPT !.indices = {g0}, !.debounce = 2]

SomeConfigs == {Listed, [Plain EXCEPT !.workloads = FALSE],
                        [Listed EXCEPT !.whitelist = {}],
                        [Plain EXCEPT !.intMax = FALSE]}

(* A debounce of two time units.                                           *)
Patient == {[Plain EXCEPT !.debounce = 2]}

AllSamples   == {"quiet", "busy", "error"}
QuietAlways  == {"quiet"}
=============================================================================
