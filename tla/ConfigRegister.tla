--------------------------- MODULE ConfigRegister ---------------------------
(***************************************************************************)
(* What the users of the RAK4631 configuration store may rely on: one      *)
(* register that survives power loss.  A write that was acknowledged is    *)
(* what the next boot loads; a write that failed or was cut short leaves   *)
(* the old value or the new one; nothing else is ever loaded.              *)
(***************************************************************************)
CONSTANTS
    Values,     \* configurations, and the value of an empty register
    Empty

VARIABLES
    status,     \* "off", "idle", "busy", or the answer to the last write
    settled,    \* value loaded at boot or acknowledged since
    wanted,     \* value of the last write
    loadable    \* value a boot would load now

vars == <<status, settled, wanted, loadable>>

Init ==
    /\ status = "off"
    /\ settled = Empty /\ wanted = Empty /\ loadable = Empty

PowerUp ==
    /\ status = "off"
    /\ status' = "idle"
    /\ UNCHANGED <<settled, wanted, loadable>>

Begin ==
    /\ status \in {"idle", "ok", "failed"}
    /\ status' = "busy"
    /\ wanted' \in Values
    /\ UNCHANGED <<settled, loadable>>

\* A write first takes back what an earlier failed one left behind.
Progress ==
    /\ status = "busy"
    /\ loadable' \in {settled, wanted}
    /\ UNCHANGED <<status, settled, wanted>>

Succeed ==
    /\ status = "busy"
    /\ loadable = wanted
    /\ status' = "ok"
    /\ settled' = wanted
    /\ UNCHANGED <<wanted, loadable>>

Fail ==
    /\ status = "busy"
    /\ status' = "failed"
    /\ loadable' \in {loadable, settled, wanted}
    /\ UNCHANGED <<settled, wanted>>

\* A write may be turned down before it starts.
Refuse ==
    /\ status \in {"idle", "ok", "failed"}
    /\ status' = "failed"
    /\ UNCHANGED <<settled, wanted, loadable>>

\* Whatever a boot would load is now all there is.
PowerLoss ==
    /\ status' = "off"
    /\ loadable' \in {loadable} \cup (IF status = "busy" THEN {settled, wanted} ELSE {})
    /\ settled' = loadable'
    /\ UNCHANGED wanted

Next == PowerUp \/ Begin \/ Progress \/ Succeed \/ Fail \/ Refuse \/ PowerLoss

Spec == Init /\ [][Next]_vars
=============================================================================
