-------------------------- MODULE MCServiceRuntime --------------------------
(***************************************************************************)
(* ServiceRuntime after an earlier process that saw three disconnects.     *)
(***************************************************************************)
EXTENDS ServiceRuntime, TLC

MCSavedCounts ==
    {[total |-> 3, close4009 |-> 1,
      byReason |-> "client_close" :> 2 @@ "timeout" :> 0 @@ "read_error" :> 0 @@ "close_4009" :> 1]}
=============================================================================
