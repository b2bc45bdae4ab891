-------------------------- MODULE MCRecorderManager --------------------------
(* Two cameras and three configurations: both recorded, the second one     *)
(* with other arguments, and only the first one at another location.       *)
EXTENDS RecorderManager

MCStreamOrder == <<"front", "yard">>
MCConfigs ==
  { [base |-> "local", spec |-> [front |-> "main", yard |-> "main"]],
    [base |-> "local", spec |-> [front |-> "main", yard |-> "sub"]],
    [base |-> "share", spec |-> [front |-> "main", yard |-> NoSpec]] }
=============================================================================
