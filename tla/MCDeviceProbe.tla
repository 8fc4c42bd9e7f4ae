----------------------------- MODULE MCDeviceProbe -----------------------------
(* DeviceProbe with short names and three status frames: an idle printer's;  *)
(* one that can end a name and then be taken for the number of the model;    *)
(* and one whose later bytes look like that number and a status, which is    *)
(* more than a printer sends: only the first byte is known to the code.      *)
EXTENDS DeviceProbe

MCAsbFrames == {<<"10", "00", "00", "00">>, <<"30", "40", "00", "0D">>,
                <<"10", "0D", "clear", "clear">>}
================================================================================
