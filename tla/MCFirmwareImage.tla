-------------------------- MODULE MCFirmwareImage ---------------------------
(* An instance of FirmwareImage: files of up to six bytes, in words of two  *)
(* and blocks of four, among them one that is no U-Boot image and one that  *)
(* is too large.                                                           *)
EXTENDS FirmwareImage

Files ==
    [kernel |-> {<<1, 0, 1, 1>>, <<1, 1, 0, 0, 1>>, <<0, 1>>},
     initramfs |-> {<<1>>, <<1, 0, 1, 0, 0, 1>>},
     sqimage |-> {None, <<0, 1, 1>>, <<1, 1, 1, 1>>, <<1, 0, 0, 0, 0, 0, 1>>},
     defaults |-> {None, <<1, 1, 1>>, <<0, 1, 0, 1, 1, 1>>}]
Maxima == [c \in Parts |-> 6]
=============================================================================
