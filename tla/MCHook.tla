------------------------------- MODULE MCHook ------------------------------
(* Programs for the instances of Hook. *)
EXTENDS Hook, TLC

CONSTANTS f1, f2

WaitAndCancel == f1 :> {"connect", "sleep", "read", "watch"} @@ f2 :> Cancels \cup {"del", "close"}
TimedWaits    == f1 :> {"connect", "sleep"} @@ f2 :> {"close"}
WatchOnly     == f1 :> {"watch"} @@ f2 :> {}
SleepOnly     == f1 :> {"sleep"} @@ f2 :> {}
BothWays      == f1 :> {"connect"} @@ f2 :> {"watch", "cancel_READ"}
=============================================================================
