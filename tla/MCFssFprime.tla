------------------------------ MODULE MCFssFprime ------------------------------
(***************************************************************************)
(* The F' component on a small instance.                                   *)
(***************************************************************************)
EXTENDS FssFprime

MCAllFaults  == {"spi_init_dev", "spi_close_device", "GENERIC_FSS_RequestData"}
MCZeroAngles == "zero"
MCAngles     == {MCZeroAngles}
===============================================================================
