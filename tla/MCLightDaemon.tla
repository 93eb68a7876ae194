--------------------------- MODULE MCLightDaemon ---------------------------
(* Requests for LightDaemon.                                                 *)
EXTENDS LightDaemon

\* A steady and a blinking colour that differ in every part, on both sides of
\* the boundary where the full ramp no longer fits.
Steady == [red |-> 255, green |-> 255, blue |-> 0, blink |-> 0, onMs |-> 799, offMs |-> 0]
Blinking == [red |-> 0, green |-> 128, blue |-> 255, blink |-> 1, onMs |-> 800, offMs |-> 500]
Overlapping == {Steady, Blinking}
=============================================================================
