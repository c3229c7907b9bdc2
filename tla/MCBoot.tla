-------------------------------- MODULE MCBoot --------------------------------
(* An open network whose SSID just fits every buffer, and a setting that is cut: *)
(* by a configuration packet to a password that can be read back, by the form to *)
(* one that cannot, and by both to an SSID that cannot.                          *)
EXTENDS Boot

MCTyped == {[ssid |-> 31, pwd |-> 0], [ssid |-> 70, pwd |-> 70]}
=============================================================================
