----------------------------- MODULE MCFindFile -----------------------------
(* Files of three kinds around the ends of January and February, for TLC.   *)
EXTENDS FindFile

File(kind, id, mon, day, hour) ==
  [kind |-> kind, id |-> id, mon |-> mon, day |-> day, hour |-> hour]

Asks(f, mac) ==
  [mac |-> mac, kind |-> f.kind, id |-> f.id, mon |-> f.mon, day |-> f.day, hour |-> f.hour]

MCNames ==
  {File("log", 0, 1, 31, 0), File("log", 0, 2, 27, 0), File("log", 0, 3, 2, 0),
   File("dat", 0, 2, 1, 9), File("dat", 0, 2, 1, 14), File("dat", 0, 2, 1, 18),
   File("iddat", 1, 2, 1, 9), File("iddat", 2, 2, 1, 12)}

MCRequests ==
  {Asks(File("log", 0, 2, 28, 0), "own"), Asks(File("log", 0, 2, 14, 0), "own"),
   Asks(File("dat", 0, 2, 1, 12), "own"), Asks(File("iddat", 1, 2, 1, 12), "own"),
   Asks(File("log", 0, 2, 1, 0), "other"), Asks(File("other", 0, 1, 1, 0), "own")}
=============================================================================
