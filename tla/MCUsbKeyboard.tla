--------------------------- MODULE MCUsbKeyboard ---------------------------
(* Small instances of UsbKeyboard for TLC. *)
EXTENDS UsbKeyboard

(* No key, and a key in the second place. *)
TwoReports == {<<0, 0>>, <<0, 7>>}
=============================================================================
