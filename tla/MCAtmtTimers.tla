---------------------------- MODULE MCAtmtTimers ----------------------------
(* The instances of AtmtTimers that TLC explores: a timeout and a shorter   *)
(* reloading timer of higher priority in one state; and a timeout alone,    *)
(* for two machines of the same class.                                      *)
EXTENDS AtmtTimers, TLC

MCTimers == {"once", "tick"}
MCTimeout == "once" :> 3 @@ "tick" :> 2
MCPrio == "once" :> 0 @@ "tick" :> 1
MCOnce == {"once"}
MCOnceTimeout == "once" :> 2
MCOncePrio == "once" :> 0
MCReload == {"tick"}
=============================================================================
