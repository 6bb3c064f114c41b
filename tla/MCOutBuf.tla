------------------------------ MODULE MCOutBuf ------------------------------
(* OutBuf with a buffer of 3 characters and strings below, at and above    *)
(* its size.                                                               *)
EXTENDS OutBuf

MCLengths == {0, 2, 4}
MCErrors == {-517}
=============================================================================
