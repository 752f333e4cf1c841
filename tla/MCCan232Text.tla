---------------------------- MODULE MCCan232Text ----------------------------
(***************************************************************************)
(* A small instance of Can232Text: ids at and beyond the limits of 11 and  *)
(* 29 bits, data of several lengths, remote frames, timestamps.            *)
(***************************************************************************)
EXTENDS Can232Text

SomeData(n) == [i \in 1 .. n |-> <<i, 15 - i>>]
Message(ext, rtr, id, n) ==
  [ext |-> ext, rtr |-> rtr, id |-> id, data |-> SomeData(n)]

\* 0x800 and 0x20000001 are one bit too long; the others fit.
MCMessages ==
  {Message(FALSE, FALSE, <<0, 0, 0, 0, 0, 8, 0, 0>>, 1),
   Message(FALSE, TRUE, <<0, 0, 0, 0, 0, 7, 15, 15>>, 8),
   Message(FALSE, FALSE, <<0, 0, 0, 0, 0, 1, 2, 3>>, 0),
   Message(TRUE, FALSE, <<2, 0, 0, 0, 0, 0, 0, 1>>, 2),
   Message(TRUE, FALSE, <<1, 15, 14, 13, 12, 11, 10, 9>>, 0)}

OtherMessage(ext, rtr, id, n) ==
  [ext |-> ext, rtr |-> rtr, id |-> id, size |-> n,
   data |-> IF rtr THEN <<>> ELSE SomeData(n), own |-> FALSE]

MCOthers ==
  {OtherMessage(FALSE, FALSE, <<4, 5, 6>>, 8),
   OtherMessage(TRUE, FALSE, <<0, 0, 0, 0, 4, 5, 6, 7>>, 0),
   OtherMessage(FALSE, TRUE, <<4, 5, 6>>, 2),
   OtherMessage(TRUE, TRUE, <<1, 1, 1, 1, 4, 5, 6, 7>>, 0)}

MCStamps == {<<0, 0, 0, 0>>, <<0, 1, 10, 15>>}
=============================================================================
