------------------------------ MODULE MCStream ------------------------------
(* Small instances of DcpStream for TLC.                                    *)
EXTENDS DcpStream, TLC

=============================================================================
