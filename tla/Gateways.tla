----------------------------- MODULE Gateways ------------------------------
(***************************************************************************)
(* The two gateways a host serves and the log writer they are built with.  *)
(* They share no state, so nothing is learned from interleaving their      *)
(* steps: a behaviour is a behaviour of one of them.                       *)
(***************************************************************************)
EXTENDS ModelProxy, TtsBridge, RotatingLog

VARIABLE subject   \* which of the three runs

Init == /\ subject \in {"proxy", "bridge", "log"}
        /\ ProxyInit /\ BridgeInit /\ LogInit
        /\ subject # "proxy" => logMode = "full" /\ template = "none"
        /\ subject # "bridge" => default = NoModel
        /\ subject # "log" => keep = CHOOSE k \in Keeps : TRUE

Next == /\ UNCHANGED subject
        /\ \/ subject = "proxy" /\ ProxyNext /\ UNCHANGED <<bridgeVars, logVars>>
           \/ subject = "bridge" /\ BridgeNext /\ UNCHANGED <<proxyVars, logVars>>
           \/ subject = "log" /\ LogNext /\ UNCHANGED <<proxyVars, bridgeVars>>

Spec == Init /\ [][Next]_<<subject, proxyVars, bridgeVars, logVars>>
=============================================================================
