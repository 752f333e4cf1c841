---------------------------- MODULE Can232Config ----------------------------
(***************************************************************************)
(* The configuration string of CanalOpen, port;baud;mask;filter;bus-speed; *)
(* btr0;btr1, and the bitrate command that CCAN232Obj::open makes of it    *)
(* (linux/can232obj.cpp:93-142, 179-217, 300-315).  A field is empty, a    *)
(* name, or a number written in decimal or with 0x.                        *)
(***************************************************************************)
EXTENDS Integers, Sequences, FiniteSets

CONSTANT Configs   \* the configuration strings that are passed

Field == [form : {"empty", "name", "decimal", "hex"}, n : Nat]

ASSUME ConfigAssumption == Configs \subseteq Seq(Field)

\* strtok_r skips empty fields: parameter i is field k if that is the i-th of
\* those that are not empty.
Filled(c) == {k \in DOMAIN c : c[k].form # "empty"}
IsParam(c, i, k) == k \in Filled(c) /\ Cardinality(Filled(c) \cap 1 .. k) = i

\* atoi and atol stop at the x of 0x.
Atoi(f) == IF f.form = "decimal" THEN f.n ELSE 0

Param(c, i, default) ==
  IF \E k \in DOMAIN c : IsParam(c, i, k)
    THEN Atoi(c[CHOOSE k \in DOMAIN c : IsParam(c, i, k)])
    ELSE default

\* Mutant: the break behind 500 is missing.
NSpeedFallsThrough(speed) ==
  CASE speed = 10 -> 0 [] speed = 20 -> 1 [] speed = 50 -> 2 [] speed = 100 -> 3
    [] speed = 125 -> 4 [] speed = 250 -> 5 [] speed = 500 -> 7
    [] speed = 800 -> 7 [] speed = 1000 -> 8 [] OTHER -> 4

\* A bus speed that is none of these gets the code of 125.
NSpeed(speed) ==
  CASE speed = 10 -> 0 [] speed = 20 -> 1 [] speed = 50 -> 2 [] speed = 100 -> 3
    [] speed = 125 -> 4 [] speed = 250 -> 5 [] speed = 500 -> 6
    [] speed = 800 -> 7 [] speed = 1000 -> 8 [] OTHER -> 4

\* btr0 and btr1 are unsigned char.
Btr(c, i) == Param(c, i, 0) % 256

Command_S(n) == [letter |-> "S", values |-> <<n>>]
Command_s(btr0, btr1) == [letter |-> "s", values |-> <<btr0, btr1>>]

BitrateCommand(c) ==
  IF Btr(c, 6) # 0 \/ Btr(c, 7) # 0 THEN Command_s(Btr(c, 6), Btr(c, 7))
  ELSE Command_S(NSpeed(Param(c, 5, 125)))

\* "%2X" puts a blank where a value below 16 has its first digit.
WellFormed(command) ==
  command.letter = "s" => \A k \in 1 .. 2 : command.values[k] > 15

\* What the adapter sets: the speed with code n, or the registers.
Rates == <<10, 20, 50, 100, 125, 250, 500, 800, 1000>>
Sets(command) ==
  IF command.letter = "S" THEN <<Rates[command.values[1] + 1]>>
  ELSE command.values

----------------------------------------------------------------------------
(* What the man page makes of the string: "all values can be entered in    *)
(* either decimal or hexadecimal form" (man/vscpl1drv-can232.1.md:23), bus *)
(* speeds are those of its table, 125 without one, and "If both are set    *)
(* the bus_speed parameter is ignored" (line 57).                          *)

Documented(c) ==
  /\ \A i \in DOMAIN c : c[i].form # "empty"
  /\ Len(c) \in {0, 5, 7}
  /\ Len(c) = 5 => \E k \in 1 .. 9 : c[5].n = Rates[k]
  /\ Len(c) = 7 => c[6].n \in 1 .. 255 /\ c[7].n \in 1 .. 255

Asked(c) ==
  IF Len(c) = 7 THEN <<c[6].n, c[7].n>>
  ELSE IF Len(c) = 5 THEN <<c[5].n>> ELSE <<125>>

\* The strings the code takes as they are meant: decimal, and two digits of btr.
Plain(c) ==
  /\ Documented(c)
  /\ \A i \in 5 .. Len(c) : c[i].form = "decimal"
  /\ Len(c) = 7 => c[6].n > 15 /\ c[7].n > 15
=============================================================================
