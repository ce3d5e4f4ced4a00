------------------------ MODULE MCCandidateSelection ------------------------
(***************************************************************************)
(* CandidateSelection with two exchanges and two sessions of two traders,  *)
(* whose CNs differ only in -cts-client, so that they share a trader_id.   *)
(* A load of 1.0 is 4, the soft limit is 0.25 and the hard limit 0.75.     *)
(***************************************************************************)
EXTENDS CandidateSelection, TLC

CONSTANTS s1, s2

MCTraderID == s1 :> 1 @@ s2 :> 1

MCTraderDBID == s1 :> 1 @@ s2 :> 2

\* Two figures per exchange: 20 ms and 400 ms, or none
Lat(a, b) == 1 :> a @@ 2 :> b

MCRegistrations ==
    {[role |-> "both", capabilities |-> {}, load |-> 4, tradeLoad |-> Absent,
      status |-> "active", resolved |-> TRUE],
     [role |-> "monitor", capabilities |-> {1}, load |-> -1, tradeLoad |-> 2,
      status |-> "active", resolved |-> TRUE],
     [role |-> "both", capabilities |-> {}, load |-> Absent, tradeLoad |-> Absent,
      status |-> "", resolved |-> FALSE]}

MCHeartbeats ==
    {[stats |-> NoLatencies, load |-> Absent, tradeLoad |-> Absent],
     [stats |-> Lat(20, 400), load |-> 1, tradeLoad |-> 5]}

MCTestResults ==
    {[stats |-> NoLatencies, results |-> 1 :> <<-1, 20, 400>> @@ 2 :> <<20, -1, -1>>]}

MCInitialRows == {{[util |-> 2, resetAt |-> 0]}}

\* unreadable, or at the limit until 1
MCUsageRows ==
    {{[util |-> Absent, resetAt |-> 0]},
     {[util |-> Absent, resetAt |-> 0], [util |-> 3, resetAt |-> 1]}}
=============================================================================
