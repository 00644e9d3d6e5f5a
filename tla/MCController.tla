--------------------------- MODULE MCController ---------------------------
(***************************************************************************)
(* Instances of Controller for TLC.  Each scenario names what the          *)
(* surroundings may do; the rest of the bounds are in the .cfg files.      *)
(***************************************************************************)
EXTENDS Controller

\* Solar exports worth no amps, the minimum, and more than the maximum.
Sun == {0, 5, 9}

\* Nothing, or the minimum.
FaintSun == {0, 5}

\* The charging states that matter to the loop, without and with a full car.
PlugStates == {"Disconnected", "Stopped", "Charging"}
AllCarStates == PlugStates \union {"Complete"}

Faults     == {"sun", "car", "reach", "faults", "stop"}
Operators  == {"sun", "car", "hour", "mode", "manual", "limit", "refresh"}
Unattended == {"sun", "car", "reach", "faults", "mode"}
SunOnly    == {"sun"}
Stops      == {"sun", "stop"}
=============================================================================
