------------------------ MODULE MCAccessRegistration ------------------------
(* Three registration calls over a three-byte address space.              *)
EXTENDS AccessRegistration

MCAddr == 0..2
MCReductionOps == {1, 2}
=============================================================================
