------------------------------ MODULE MCFssGround ------------------------------
(***************************************************************************)
(* The ground and the application on a small instance.                     *)
(***************************************************************************)
EXTENDS FssGround

MCMessages   == LibraryMessages
MCFaults     == {"spi_init_dev", "spi_close_device"}
MCZeroAngles == "zero"
MCAngles     == {MCZeroAngles}
===============================================================================
