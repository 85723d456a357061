--------------------------- MODULE MCArrayAccess ---------------------------
(* Configuration files in and out of form, and intervals within the bounds, *)
(* too small and too large, in bytes of four values, for TLC.               *)
EXTENDS ArrayAccess

MCRowLen == <<2, 6, 6, 6, 6, 6, 2, 2>>
MCGarbage == {<<3, 3, 3>>}
Both == {1, 2}
OnlyCan1 == {1}

Bare(hex) == Row(hex, <<>>)

File(a2, a3) ==
  <<Head_(A0), Bare(<<1, 0>>), Head_(A1), Row(<<0, 0, 2>>, <<2, 1>>),
    Head_(A2), Bare(<<2, 1, 2>>), Bare(a2), Head_(A3), Bare(<<1, 3>>), Bare(a3),
    Head_(A4), Bare(<<0, 2>>), Head_(A5), Bare(<<2, 0>>)>>

Sample == File(<<0, 1, 1>>, <<3, 2>>)

With(f, i, l) == SubSeq(f, 1, i - 1) \o <<l>> \o SubSeq(f, i, Len(f))

WellFormedFiles ==
  {Sample, With(With(With(File(<<3, 1, 1>>, <<0, 2>>), 14, Blank), 6, Blank), 2, Blank)}

(* No file, one cut short with a comment for a row, and one with devices    *)
(* and a station that do not fit.                                           *)
OtherFiles ==
  {<<>>, SubSeq(With(Sample, 2, Nothing), 1, 13),
   [Sample EXCEPT ![4] = Row(<<0, 0, 3>>, <<2, 1, 2>>), ![9] = Bare(<<3, 1, 2, 1>>)]}

(* Two sections have changed places. *)
Swapped == {SubSeq(Sample, 3, 4) \o SubSeq(Sample, 1, 2) \o SubSeq(Sample, 5, 14)}

AllFiles == WellFormedFiles \cup OtherFiles

WholeWrites ==
  [arr : {A0}, index : {0}, wr_len : {2}, data : {<<0, 3>>, <<2, 2>>}]
  \cup [arr : {A1}, index : {0}, wr_len : {2}, data : {<<1, 2>>}]
  \cup [arr : {A1}, index : {1}, wr_len : {2}, data : {<<3, 3>>}]
  \cup [arr : {A2}, index : {0}, wr_len : {1}, data : {<<0>>}]
  \cup [arr : {A5}, index : {0}, wr_len : {3}, data : {<<1, 3, 2>>}]
SingleWrites == [arr : {A1}, index : {0, 1}, wr_len : {1}, data : {<<1>>}]
LongWrites == [arr : {A0}, index : {0}, wr_len : {3}, data : {<<1, 2, 3>>}]
LockedWrites == [arr : {A5}, index : {0}, wr_len : {2}, data : {<<1, 3>>}]
SomeReads == {A1, A3, A5}
OneRead == {A1}
TornRead == {A5}

(* An answer for A5 has what it held before a write or after it, with the   *)
(* mode byte as it was or reset: false, the reader takes no lock.           *)
AnswersWhole == out.type = "RD_ARR" /\ out.arr = A5 => out.b \in {0, 2} \X {0} \cup {0, 1} \X {3}
=============================================================================
