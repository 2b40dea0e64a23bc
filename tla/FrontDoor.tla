------------------------------ MODULE FrontDoor ------------------------------
(***************************************************************************)
(* The two things that stand before the handlers of the firmware service:  *)
(* the rate limiter before the devices' update check, the roles before     *)
(* everything administrators do (app/main.py).  Both live in one process,  *)
(* and one restart empties the limiter's queues, ends the requests under   *)
(* way and reads the settings anew.                                        *)
(***************************************************************************)
EXTENDS RateLimiter, AdminRoles

frontDoorVars == <<limiterVars, rolesVars>>

Init == LimiterInit /\ RolesInit

Restart == Forget /\ Reconfigure

Next ==
    \/ LimiterStep /\ UNCHANGED rolesVars
    \/ RolesStep /\ UNCHANGED limiterVars
    \/ Restart

Spec == Init /\ [][Next]_frontDoorVars

TypeOK == LimiterTypeOK /\ RolesTypeOK

=============================================================================
