---------------------------- MODULE MCCan232Open ----------------------------
(***************************************************************************)
(* A small instance of Can232Open: no configuration string, a bus speed    *)
(* with a code and one without, one behind an empty field, and btr0 and    *)
(* btr1 in decimal, in hexadecimal (the second example of the man page),   *)
(* with one digit and with more than a byte.                               *)
(***************************************************************************)
EXTENDS Can232Open

Config(rest) ==
  <<[form |-> "name", n |-> 0], [form |-> "decimal", n |-> 57600]>> \o rest
Decimal(n) == [form |-> "decimal", n |-> n]
Hex(n) == [form |-> "hex", n |-> n]
Zero == Decimal(0)

MCConfigs ==
  {<<>>,
   Config(<<Zero, Zero, Decimal(500)>>),
   Config(<<Zero, Zero, Decimal(300)>>),
   Config(<<Zero, [form |-> "empty", n |-> 0], Decimal(500)>>),
   Config(<<Zero, Zero, Zero, Decimal(49), Decimal(28)>>),
   Config(<<Zero, Zero, Zero, Hex(9), Hex(28)>>),
   Config(<<Zero, Zero, Zero, Decimal(9), Decimal(28)>>),
   Config(<<Zero, Zero, Zero, Decimal(256 + 49), Decimal(28)>>)}
=============================================================================
