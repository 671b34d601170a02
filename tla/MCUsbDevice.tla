---------------------------- MODULE MCUsbDevice ----------------------------
(***************************************************************************)
(* UsbDevice with the devices that matter: one in DFU mode, one in         *)
(* recovery mode, a phone with the usbmux endpoints in alternate setting   *)
(* one, a phone with a second configuration on the same endpoints, and a   *)
(* device of another make with a DFU interface.                            *)
(***************************************************************************)
EXTENDS UsbDevice, TLC

If(number, alternate, class, endpoints) ==
    [number |-> number, alternate |-> alternate, class |-> class, endpoints |-> endpoints]

Camera == If(0, 0, "else", {129, 2})

MCDevices == {
    [mode |-> "dfu", configurations |-> 1 :> <<If(0, 0, "dfu", {}), If(0, 1, "dfu", {})>>],
    [mode |-> "recovery",
     configurations |-> 1 :> <<If(0, 0, "else", {129}), If(1, 0, "else", {}), If(1, 1, "else", {4})>>],
    [mode |-> "normal",
     configurations |-> 1 :> <<Camera, If(1, 0, "else", {}), If(1, 1, "usbmux", {130, 1})>>],
    [mode |-> "normal",
     configurations |-> 1 :> <<Camera>> @@ 2 :> <<If(0, 0, "usbmux", {129, 2})>>],
    [mode |-> "other", configurations |-> 1 :> <<If(0, 0, "else", {129, 2}), If(1, 0, "dfu", {})>>
                                       @@ 3 :> <<If(0, 0, "usbmux", {4})>>]}

\* A device with two configurations that use the same endpoints.
MCTwoConfigurations == {
    [mode |-> "normal",
     configurations |-> 1 :> <<Camera>> @@ 2 :> <<If(0, 0, "usbmux", {129, 2})>>]}
=============================================================================
