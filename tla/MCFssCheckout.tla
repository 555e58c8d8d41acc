----------------------------- MODULE MCFssCheckout -----------------------------
(***************************************************************************)
(* The checkout program with lines of every kind that it tells apart, one  *)
(* of them with more arguments than there is room for.                     *)
(***************************************************************************)
EXTENDS FssCheckout

MCLines == {<< >>, <<"help">>, <<"exit">>, <<"exit", "now">>, <<"noise", "fss">>,
            <<"fss">>, <<"f">>, <<"fss", "now">>, <<"fss", "a", "b", "c", "d">>}

MCZeroAngles   == "zero"
MCAngles       == {MCZeroAngles, "sun"}
MCSpiFaults    == SpiCalls
MCDeviceFaults == {"spi_init_dev", "spi_close_device"}
===============================================================================
