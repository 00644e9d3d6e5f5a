----------------------------- MODULE MCSungrow -----------------------------
(* Sungrow with the decoding of the registers that its polls read.          *)
EXTENDS Sungrow, PowerRegisters

\* A poll that ends well hands the controller the powers the module measured,
\* to the limits of the registers: the order of the words and the sign decide
\* the direction in which the controller believes the energy flows.
DecodesPower == (\E p \in Poller : pc[p] = "good") => AllDecodedRight
=============================================================================
