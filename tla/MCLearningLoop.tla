--------------------------- MODULE MCLearningLoop ---------------------------
(* Small instances of the learning loop for TLC: candidates with names of   *)
(* their own, one of which no factory builds; and the script's candidates.  *)
EXTENDS LearningLoop, TLC

MCStrategies == {"ma", "up", "other"}
MCCandidates == <<"up", "other">>
MCScriptStrategies == {"ma", "up", "twin"}
MCScriptCandidates == <<"up", "twin">>
MCNameOf == [ma |-> "moving_average_cross", up |-> "regime_filtered_ma_cross",
             twin |-> "regime_filtered_ma_cross", other |-> "other"]
MCBuilt == [moving_average_cross |-> "ma", regime_filtered_ma_cross |-> "up"]
MCRuns == [cycle |-> 2, command |-> 2]
MCOneRun == [cycle |-> 1, command |-> 0]
MCSymmetry == Permutations(Proc)
=============================================================================
