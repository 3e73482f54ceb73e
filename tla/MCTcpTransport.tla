--------------------------- MODULE MCTcpTransport ---------------------------
(***************************************************************************)
(* Values for the constants of TcpTransport that a cfg cannot write.       *)
(***************************************************************************)
EXTENDS TcpTransport

\* Replies that read as small lengths, as lengths that wrap around, and as
\* lengths that do not fit, from their first byte or from another one.
MCReplies == {<<0, 0>>, <<1, 1>>, <<0, 1, 1>>, <<1, 0, 0>>}
=============================================================================
