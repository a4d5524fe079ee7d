------------------------------ MODULE MCBoard ------------------------------
(* Two threads on the SPI bus; transfers and calls longer than the FIFO,   *)
(* the commands of one repeated start among them; transfernb is called by  *)
(* spi_transfer only.                                                      *)
EXTENDS Board

Job(f, s, b) == [fn |-> f, slv |-> s, tx |-> b]
MCTransfers ==
  {Job("spi_transfer", 5, <<0, 1>>), Job("transfer", 4, <<1>>),
   Job("writenb", 4, <<0, 1>>)}

Use(f, b, n) == [fn |-> f, out |-> b, len |-> n]
MCI2cCalls ==
  {Use("write", <<0, 1, 1>>, 0), Use("read", <<>>, 3),
   Use("rs", <<1>>, 1), Use("rs", <<0, 1>>, 3),
   Use("rs", <<0, 1, 1>>, 1)}
=============================================================================
