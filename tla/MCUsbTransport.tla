--------------------------- MODULE MCUsbTransport ---------------------------
(***************************************************************************)
(* Values for the constants of UsbTransport that a cfg cannot write.       *)
(***************************************************************************)
EXTENDS UsbTransport, TLC

CONSTANTS short, long, huge

\* A command in two packets, one whose packets are numbered past the values of a
\* byte, and one that is too long for the header.
MCCommandLen == short :> 3 @@ long :> 5 @@ huge :> 9
=============================================================================
