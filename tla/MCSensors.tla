----------------------------- MODULE MCSensors -----------------------------
(* Either sensor's reader: a ToF sensor that sees somebody or nobody, a     *)
(* serial line with frames of eight and nine bytes.  See README.md.         *)
EXTENDS Sensors

MCReadings == {"someone", "nobody"}
=============================================================================
