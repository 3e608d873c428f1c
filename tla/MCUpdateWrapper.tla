--------------------------- MODULE MCUpdateWrapper --------------------------
(* UpdateWrapper on small instances for TLC.                               *)
EXTENDS UpdateWrapper

\* A candidate may work, run without the plugin, or not run at all.
MCDefects == {{}, {<<"core_unavailable">>}, {<<"plugin_not_effective">>}}

\* What may go wrong without a fault of the candidate: the configuration
\* changes meanwhile, or the status cannot be had, which looks like a fault of
\* the plugin.
MCDisturbances == {{<<"config_race">>}, {<<"before", "fails">>}}

\* An interruption takes up all events, so that the candidate that is not
\* approved then plays no part any more: one value of its defects is enough.
\* And once somebody was called nothing is said of interrupted runs.
Interrupted ==
  interruptions > 0 =>
    ~alerted /\ \A r \in Candidates \ {approval} : defects[r] = {}
=============================================================================
