--------------------------- MODULE FindFileProofs ---------------------------
(***************************************************************************)
(* Proofs about FindFile: what a search answers while other threads store  *)
(* and delete files, and how far the answer is from the closest one.       *)
(***************************************************************************)
EXTENDS FindFile, TLAPS

(* What makes the date of a name one of a year. *)
Timed(f) == f.mon \in 1..12 /\ f.day \in 1..31 /\ f.hour \in 0..23

LEMMA NamesTimed == \A f \in Names : Timed(f) /\ f.kind \in Kinds /\ f.id \in Nat /\ f # NoFile
<1> SUFFICES ASSUME NEW f \in Names PROVE Timed(f) /\ f.kind \in Kinds /\ f.id \in Nat /\ f # NoFile
  OBVIOUS
<1>1. f \in LogName \cup DatName \cup IdDatName /\ f # NoFile
  BY FindAssumption
<1>2. CASE f \in LogName
  BY <1>1, <1>2 DEF LogName, Timed, Kinds
<1>3. CASE f \in DatName
  BY <1>1, <1>3 DEF DatName, Timed, Kinds
<1>4. CASE f \in IdDatName
  BY <1>1, <1>4 DEF IdDatName, Timed, Kinds
<1> QED BY <1>1, <1>2, <1>3, <1>4

LEMMA RequestsTimed ==
  \A r \in Requests : Timed(r) /\ r.kind \in Kinds \cup {"other"} /\ r.id \in Nat
<1> SUFFICES ASSUME NEW r \in Requests
             PROVE  Timed(r) /\ r.kind \in Kinds \cup {"other"} /\ r.id \in Nat
  OBVIOUS
<1>1. r \in RequestName
  BY FindAssumption
<1> QED BY <1>1 DEF RequestName, Timed

(* A month is 28 to 31 days long. *)
LEMMA MonthLength ==
  ASSUME NEW m \in 1..12
  PROVE  /\ DaysBefore[m] \in Nat /\ DaysBefore[m + 1] \in Nat
         /\ DaysBefore[m + 1] - DaysBefore[m] \in 28..31
<1>1. /\ DaysBefore[1] = 0 /\ DaysBefore[2] = 31 /\ DaysBefore[3] = 59 /\ DaysBefore[4] = 90
      /\ DaysBefore[5] = 120 /\ DaysBefore[6] = 151 /\ DaysBefore[7] = 181
      /\ DaysBefore[8] = 212 /\ DaysBefore[9] = 243 /\ DaysBefore[10] = 273
      /\ DaysBefore[11] = 304 /\ DaysBefore[12] = 334 /\ DaysBefore[13] = 365
  BY DEF DaysBefore
<1>2. \/ m = 1 \/ m = 2 \/ m = 3 \/ m = 4 \/ m = 5 \/ m = 6
      \/ m = 7 \/ m = 8 \/ m = 9 \/ m = 10 \/ m = 11 \/ m = 12
  OBVIOUS
<1> QED BY <1>1, <1>2

(* filenametosecond is off by the length of the month of the name. *)
LEMMA TimeOff ==
  ASSUME NEW f, Timed(f)
  PROVE  /\ RealTime(f) \in Nat /\ filenametosecond(f) \in Nat
         /\ filenametosecond(f) - RealTime(f) = 24 * (DaysBefore[f.mon + 1] - DaysBefore[f.mon])
         /\ filenametosecond(f) - RealTime(f) \in 24 * 28 .. 24 * 31
<1>1. /\ DaysBefore[f.mon] \in Nat /\ DaysBefore[f.mon + 1] \in Nat
      /\ DaysBefore[f.mon + 1] - DaysBefore[f.mon] \in 28..31
  BY MonthLength DEF Timed
<1>2. f.day \in Nat /\ f.hour \in Nat
  BY DEF Timed
<1> HIDE DEF DaysBefore
<1> QED BY <1>1, <1>2 DEF RealTime, filenametosecond

(* Of two files compared by their distances, the one that seems closer may  *)
(* be farther by 6 days at most, and by nothing if the months are the same. *)
LEMMA DistanceBound ==
  ASSUME NEW a, NEW f, Timed(a), Timed(f), Timed(req), Distance(a) <= Distance(f)
  PROVE  /\ RealGap(a) <= RealGap(f) + 6 * 24
         /\ a.mon = req.mon /\ f.mon = req.mon => RealGap(a) <= RealGap(f)
<1> DEFINE T(x) == filenametosecond(x)
           R(x) == RealTime(x)
<1>1. /\ T(a) \in Nat /\ T(f) \in Nat /\ T(req) \in Nat
      /\ R(a) \in Nat /\ R(f) \in Nat /\ R(req) \in Nat
      /\ T(a) - R(a) \in 24 * 28 .. 24 * 31
      /\ T(f) - R(f) \in 24 * 28 .. 24 * 31
      /\ T(req) - R(req) \in 24 * 28 .. 24 * 31
  BY TimeOff
<1>2. a.mon = req.mon /\ f.mon = req.mon =>
        T(a) - R(a) = T(req) - R(req) /\ T(f) - R(f) = T(req) - R(req)
  BY TimeOff
<1>3. Gap(T(req), T(a)) <= Gap(T(req), T(f))
  BY DEF Distance
<1>4. RealGap(a) = Gap(R(req), R(a)) /\ RealGap(f) = Gap(R(req), R(f))
  BY DEF RealGap
<1> HIDE DEF T, R
<1>5. Gap(R(req), R(a)) <= Gap(R(req), R(f)) + 6 * 24
  BY <1>1, <1>3 DEF Gap
<1>6. a.mon = req.mon /\ f.mon = req.mon => Gap(R(req), R(a)) <= Gap(R(req), R(f))
  BY <1>1, <1>2, <1>3 DEF Gap
<1> QED BY <1>4, <1>5, <1>6

LEMMA DistanceType ==
  ASSUME NEW f, Timed(f), Timed(req)
  PROVE  Distance(f) \in Nat
BY TimeOff DEF Distance, Gap

-----------------------------------------------------------------------------
(* The search *)

Searching == pc \in {"find", "scan"}

(* Exactly the flag of the kind asked for is set, and only for the search.  *)
FlagsInv ==
  /\ pc # "idle" => req \in Requests
  /\ ~Searching => ~log /\ ~dat /\ ~iddat
  /\ Searching => /\ req.kind \in Kinds
                  /\ log = (req.kind = "log") /\ dat = (req.kind = "dat")
                  /\ iddat = (req.kind = "iddat")
  /\ pc = "scan" /\ iddat => idfu = req.id

Best == IF req.kind = "log" THEN minlog ELSE mindat

(* The closest file so far: of the files looked at that have been stored    *)
(* all the time, none is closer.                                            *)
BestInv ==
  /\ stable \subseteq there /\ todo \subseteq there
  /\ pc # "scan" => todo = {}
  /\ pc # "idle" => answer = NoFile
  /\ pc = "find" => stable = {} /\ first = 0
  /\ pc = "scan" => searches <= MaxOpen
  /\ pc # "idle" =>
       /\ first = 0 => minlog = NoFile /\ mindat = NoFile
       /\ IF req.kind = "log" THEN mindat = NoFile ELSE minlog = NoFile
       /\ Best # NoFile => Best \in there /\ Wanted(Best) /\ Distance(Best) = min
       /\ first = 1 /\ ~Erased => Best # NoFile
       /\ pc # "find" /\ searches > MaxOpen => first = 0
       /\ searches <= MaxOpen =>
            \A f \in stable \ todo : Wanted(f) => first = 1 /\ min <= Distance(f)

(* The answer stays what the search has found. *)
AnswerInv ==
  pc = "idle" =>
    IF answer # NoFile
    THEN /\ req \in Requests /\ answer \in there /\ Wanted(answer)
         /\ \A f \in stable : Wanted(f) => Distance(answer) <= Distance(f)
    ELSE searches <= MaxOpen /\ ~Erased => \A f \in stable : ~Wanted(f)

FindInv == TypeOK /\ FlagsInv /\ BestInv /\ AnswerInv

LEMMA TypeStep ==
  ASSUME FindInv, [Next]_vars
  PROVE  TypeOK'
<1>0. TypeOK /\ FlagsInv
  BY DEF FindInv
<1> USE <1>0 DEF TypeOK, flags, found, history
<1>1. ASSUME NEW f \in Names, Store(f) PROVE TypeOK'
  BY <1>1 DEF Store
<1>2. ASSUME NEW f \in Names, AskDelete(f) PROVE TypeOK'
  BY <1>2 DEF AskDelete
<1>3. CASE handleDelFile
  BY <1>3 DEF handleDelFile
<1>4. ASSUME NEW r \in Requests, Judge(r) PROVE TypeOK'
  BY <1>4 DEF Judge, Take
<1>5. ASSUME NEW r \in Requests, Decline(r) PROVE TypeOK'
  BY <1>5 DEF Decline, Take
<1>6. CASE Open
  <2>1. req.id \in Nat
    BY <1>6, RequestsTimed DEF Open, Begin, FlagsInv
  <2> QED BY <1>6, <2>1 DEF Open, Begin
<1>7. ASSUME NEW f \in todo, Visit(f) PROVE TypeOK'
  <2>1. f \in Names /\ req \in Requests
    BY <1>7 DEF Visit, FlagsInv
  <2>2. Distance(f) \in Nat
    BY <2>1, NamesTimed, RequestsTimed, DistanceType
  <2>3. CASE IsCandidate(f)
    <3>1. first' \in {0, 1} /\ min' \in Nat
      BY <1>7, <2>2, <2>3 DEF Visit, Consider
    <3>2. minlog' \in Names \cup {NoFile} /\ mindat' \in Names \cup {NoFile}
      BY <1>7, <2>1, <2>3 DEF Visit, Consider
    <3> QED BY <1>7, <3>1, <3>2 DEF Visit
  <2>4. CASE ~IsCandidate(f)
    BY <1>7, <2>4 DEF Visit
  <2> QED BY <2>3, <2>4
<1>8. CASE Close
  BY <1>8 DEF Close, Return, FlagsInv, Searching, Kinds
<1>9. CASE Send
  BY <1>9 DEF Send, FlagsInv, Searching
<1>10. CASE UNCHANGED vars
  BY <1>10 DEF vars
<1>11. CASE OpenFails
  <2>1. req.id \in Nat /\ pc' \in {"find", "send"}
    BY <1>11, RequestsTimed DEF OpenFails, Begin, Return, FlagsInv
  <2>2. log' \in BOOLEAN /\ dat' \in BOOLEAN /\ iddat' \in BOOLEAN
    BY <1>11 DEF OpenFails, Return
  <2>3. /\ UNCHANGED <<files, deleting, todo, req, first, min, minlog, mindat, answer>>
        /\ stable' \subseteq Names /\ there' \subseteq Names
        /\ idfu' \in Nat /\ searches' \in Nat
    BY <1>11, <2>1 DEF OpenFails, Begin
  <2> QED BY <2>1, <2>2, <2>3
<1> QED BY <1>1, <1>2, <1>3, <1>4, <1>5, <1>6, <1>7, <1>8, <1>9, <1>10, <1>11 DEF Next, Handle

LEMMA FlagsStep ==
  ASSUME FindInv, [Next]_vars
  PROVE  FlagsInv'
<1>0. TypeOK /\ FlagsInv
  BY DEF FindInv
<1> USE <1>0 DEF FlagsInv, Searching, flags, found, history
<1>1. ASSUME NEW f \in Names, Store(f) \/ AskDelete(f) PROVE FlagsInv'
  BY <1>1 DEF Store, AskDelete
<1>2. CASE handleDelFile
  BY <1>2 DEF handleDelFile
<1>3. ASSUME NEW r \in Requests, Judge(r) PROVE FlagsInv'
  <2>1. pc = "idle" /\ req' = r /\ ~log /\ ~dat /\ ~iddat
    BY <1>3 DEF Judge, Take
  <2>2. PICK kind \in {r.kind, "other"} :
          log' = (kind = "log") /\ dat' = (kind = "dat") /\ iddat' = (kind = "iddat")
    BY <1>3, <2>1 DEF Judge
  <2>3. pc' = IF log' \/ dat' \/ iddat' THEN "find" ELSE "send"
    BY <1>3 DEF Judge
  <2> QED BY <2>1, <2>2, <2>3 DEF Kinds
<1>4. ASSUME NEW r \in Requests, Decline(r) PROVE FlagsInv'
  BY <1>4 DEF Decline, Take
<1>5. CASE Open
  BY <1>5 DEF Open, Begin
<1>6. ASSUME NEW f \in todo, Visit(f) PROVE FlagsInv'
  BY <1>6 DEF Visit
<1>7. CASE Close
  BY <1>7 DEF Close, Return, Kinds
<1>8. CASE Send
  BY <1>8 DEF Send
<1>9. CASE UNCHANGED vars
  BY <1>9 DEF vars
<1>10. CASE OpenFails
  BY <1>10 DEF OpenFails, Begin, Return, Kinds
<1> QED BY <1>1, <1>2, <1>3, <1>4, <1>5, <1>6, <1>7, <1>8, <1>9, <1>10 DEF Next, Handle

(* During a search the names looked at are those asked for. *)
LEMMA CandidatesWanted ==
  ASSUME FlagsInv, pc = "scan", NEW f
  PROVE  IsCandidate(f) <=> Wanted(f)
BY DEF FlagsInv, Searching, IsCandidate, Wanted, Searched, Kinds

(* A step of another thread: it may add files to those that have been there *)
(* or to what is to come, and it may take some of those stored all the time *)
(* away.                                                                    *)
LEMMA OthersKeepSearch ==
  ASSUME FindInv, UNCHANGED <<searches, pc, req, first, min, minlog, mindat, answer>>,
         there \subseteq there', stable' \subseteq stable, todo' \subseteq there',
         \A f \in stable' : f \notin todo' => f \notin todo,
         pc # "scan" => UNCHANGED <<stable, there, todo>>
  PROVE  BestInv' /\ AnswerInv'
<1>1. BestInv /\ AnswerInv
  BY DEF FindInv
<1>2. \A f : Wanted(f)' = Wanted(f) /\ Distance(f)' = Distance(f)
  BY DEF Wanted, Distance
<1>3. Best' = Best
  BY DEF Best
<1>4. AnswerInv'
  BY <1>1, <1>2 DEF AnswerInv, Erased
<1>5. \A f \in (stable \ todo)' : f \in stable \ todo
  OBVIOUS
<1>6. BestInv'
  BY <1>1, <1>2, <1>3, <1>5 DEF BestInv, Erased
<1> QED BY <1>4, <1>6

LEMMA VisitKeepsBest ==
  ASSUME FindInv, NEW f \in todo, Visit(f)
  PROVE  BestInv'
<1>0. TypeOK /\ FlagsInv /\ BestInv
  BY DEF FindInv
<1>1. /\ pc = "scan" /\ f \in Names /\ req \in Requests /\ req.kind \in Kinds
      /\ UNCHANGED <<searches, pc, req, stable, there, answer>> /\ searches <= MaxOpen
      /\ todo' = todo \ {f} /\ log = (req.kind = "log")
  BY <1>0 DEF Visit, BestInv, TypeOK, FlagsInv, Searching, history
<1>2. Distance(f) \in Nat /\ min \in Nat /\ first \in {0, 1} /\ f # NoFile
  BY <1>0, <1>1, NamesTimed, RequestsTimed, DistanceType DEF TypeOK
<1>3. \A g : Wanted(g)' = Wanted(g) /\ Distance(g)' = Distance(g)
  BY <1>1 DEF Wanted, Distance
<1>4. \A g \in stable \ todo : Wanted(g) => Distance(g) \in Nat /\ first = 1 /\ min <= Distance(g)
  <2>1. \A g \in stable : Distance(g) \in Nat
    BY <1>0, <1>1, NamesTimed, RequestsTimed, DistanceType DEF TypeOK
  <2> QED BY <1>0, <1>1, <2>1 DEF BestInv
<1>5. CASE ~Wanted(f)
  <2>1. UNCHANGED <<first, min, minlog, mindat>>
    BY <1>0, <1>1, <1>5, CandidatesWanted DEF Visit
  <2>2. \A g \in stable \ todo' : Wanted(g) => first = 1 /\ min <= Distance(g)
    BY <1>1, <1>4, <1>5
  <2>3. Best' = Best
    BY <1>1, <2>1 DEF Best
  <2> QED BY <1>0, <1>1, <1>3, <2>1, <2>2, <2>3 DEF BestInv, Erased
<1>6. CASE Wanted(f)
  <2> DEFINE closer == first = 0 \/ Distance(f) <= min
  <2>1. /\ first' = 1
        /\ min' = IF closer THEN Distance(f) ELSE min
        /\ minlog' = IF closer /\ log THEN f
                     ELSE IF log /\ MinlogBehind THEN NoFile ELSE minlog
        /\ mindat' = IF closer /\ ~log THEN f ELSE mindat
    <3>1. Consider(f)
      BY <1>0, <1>1, <1>6, CandidatesWanted DEF Visit
    <3>2. (Distance(f) <= IF first = 0 THEN Distance(f) ELSE min) <=> closer
      BY <1>2
    <3> QED BY <3>1, <3>2 DEF Consider
  <2>2. ASSUME NEW g \in stable \ todo', Wanted(g) PROVE min' <= Distance(g)
    <3>1. CASE g = f
      BY <1>2, <2>1, <3>1
    <3>2. CASE g # f
      <4>1. Distance(g) \in Nat /\ first = 1 /\ min <= Distance(g)
        BY <1>1, <1>4, <2>2, <3>2
      <4> QED BY <1>2, <2>1, <4>1
    <3> QED BY <3>1, <3>2
  <2>3. Best' # NoFile => Best' \in there /\ Wanted(Best') /\ Distance(Best') = min'
    <3>1. CASE closer
      <4>1. Best' = f
        BY <1>1, <2>1, <3>1 DEF Best
      <4>2. f \in there
        BY <1>0 DEF BestInv
      <4> QED BY <1>6, <2>1, <3>1, <4>1, <4>2
    <3>2. CASE ~closer
      <4>1. (Best' = Best \/ Best' = NoFile) /\ min' = min
        BY <1>1, <2>1, <3>2 DEF Best
      <4> QED BY <1>0, <1>1, <4>1 DEF BestInv
    <3> QED BY <3>1, <3>2
  <2>4. ~Erased => Best' # NoFile
    <3>1. CASE closer
      BY <1>1, <1>2, <2>1, <3>1 DEF Best
    <3>2. CASE ~closer
      <4>1. ~Erased => Best' = Best
        BY <1>1, <2>1, <3>2 DEF Best, Erased
      <4> QED BY <1>0, <1>1, <1>2, <3>2, <4>1 DEF BestInv
    <3> QED BY <3>1, <3>2
  <2>5. IF req.kind = "log" THEN mindat' = NoFile ELSE minlog' = NoFile
    BY <1>0, <1>1, <2>1 DEF BestInv
  <2> HIDE DEF closer
  <2>6. todo' \subseteq there
    BY <1>0, <1>1 DEF BestInv
  <2>7. Erased' = Erased /\ ~(searches > MaxOpen)
    <3>1. searches \in Nat /\ MaxOpen \in Nat
      BY <1>0, FindAssumption DEF TypeOK
    <3> QED BY <1>1, <3>1 DEF Erased
  <2> QED BY <1>0, <1>1, <1>3, <2>1, <2>2, <2>3, <2>4, <2>5, <2>6, <2>7 DEF BestInv
<1> QED BY <1>5, <1>6

LEMMA SearchStep ==
  ASSUME FindInv, [Next]_vars
  PROVE  BestInv' /\ AnswerInv'
<1>0. TypeOK /\ FlagsInv /\ BestInv /\ AnswerInv
  BY DEF FindInv
<1> USE DEF flags, found, history
<1>1. ASSUME NEW f \in Names, Store(f) PROVE BestInv' /\ AnswerInv'
  <2>1. todo \subseteq there
    BY <1>0 DEF BestInv
  <2>2. /\ there \subseteq there' /\ stable' \subseteq stable /\ todo' \subseteq there'
        /\ \A g \in stable' : g \notin todo' => g \notin todo
        /\ pc # "scan" => UNCHANGED <<stable, there, todo>>
    BY <1>1, <2>1 DEF Store
  <2> QED BY <1>1, <2>2, OthersKeepSearch DEF Store
<1>2. ASSUME NEW f \in Names, AskDelete(f) PROVE BestInv' /\ AnswerInv'
  BY <1>0, <1>2, OthersKeepSearch DEF AskDelete, BestInv
<1>3. CASE handleDelFile
  <2>1. todo \subseteq there
    BY <1>0 DEF BestInv
  <2>2. /\ there \subseteq there' /\ stable' \subseteq stable /\ todo' \subseteq there'
        /\ \A g \in stable' : g \notin todo' => g \notin todo
        /\ pc # "scan" => UNCHANGED <<stable, there, todo>>
    BY <1>3, <2>1 DEF handleDelFile
  <2> QED BY <1>3, <2>2, OthersKeepSearch DEF handleDelFile
<1>4. ASSUME NEW r \in Requests, Judge(r) PROVE BestInv' /\ AnswerInv'
  <2>1. /\ pc = "idle" /\ pc' \in {"find", "send"} /\ first' = 0
        /\ minlog' = NoFile /\ mindat' = NoFile /\ answer' = NoFile
        /\ stable' = {} /\ there' = {} /\ todo' = todo
    BY <1>4 DEF Judge, Take
  <2>2. todo = {}
    BY <1>0, <2>1 DEF BestInv
  <2> QED BY <2>1, <2>2 DEF BestInv, AnswerInv, Best
<1>5. ASSUME NEW r \in Requests, Decline(r) PROVE BestInv' /\ AnswerInv'
  <2>1. pc = "idle" /\ pc' = "idle" /\ answer' = NoFile /\ stable' = {} /\ there' = {} /\ todo' = todo
    BY <1>5 DEF Decline, Take
  <2>2. todo = {}
    BY <1>0, <2>1 DEF BestInv
  <2> QED BY <2>1, <2>2 DEF BestInv, AnswerInv
<1>6. CASE Open \/ OpenFails
  <2>1. /\ pc = "find" /\ there' = stable' /\ searches' = searches + 1
        /\ UNCHANGED <<req, first, min, minlog, mindat, answer>>
    BY <1>6 DEF Open, OpenFails, Begin
  <2>2. /\ first = 0 /\ minlog = NoFile /\ mindat = NoFile /\ answer = NoFile /\ todo = {}
    BY <1>0, <2>1 DEF BestInv
  <2>3. searches \in Nat /\ MaxOpen \in Nat
    BY <1>0, FindAssumption DEF TypeOK
  <2>4. CASE Open
    <3>1. searches' <= MaxOpen /\ todo' = stable' /\ pc' = "scan"
      BY <2>1, <2>3, <2>4 DEF Open
    <3> QED BY <2>1, <2>2, <2>3, <3>1 DEF BestInv, AnswerInv, Best
  <2>5. CASE OpenFails
    <3>1. ~(searches' <= MaxOpen) /\ todo' = todo
      BY <2>1, <2>3, <2>5 DEF OpenFails
    <3>2. pc' = "send"
      BY <1>0, <2>5 DEF OpenFails, Begin, Return, FlagsInv, Searching
    <3> QED BY <2>1, <2>2, <2>3, <3>1, <3>2 DEF BestInv, AnswerInv, Best
  <2> QED BY <1>6, <2>4, <2>5
<1>7. ASSUME NEW f \in todo, Visit(f) PROVE BestInv' /\ AnswerInv'
  <2>1. pc' = "scan"
    BY <1>7 DEF Visit
  <2> QED BY <1>7, <2>1, VisitKeepsBest DEF AnswerInv
<1>8. CASE Close
  <2>1. /\ pc = "scan" /\ todo = {} /\ pc' = "send"
        /\ UNCHANGED <<searches, req, first, min, minlog, mindat, answer, todo, stable, there>>
    BY <1>0, <1>8 DEF Close, Return, FlagsInv, Searching
  <2>2. Best' = Best /\ \A g : Wanted(g)' = Wanted(g) /\ Distance(g)' = Distance(g)
    BY <2>1 DEF Best, Wanted, Distance
  <2> QED BY <1>0, <2>1, <2>2 DEF BestInv, AnswerInv, Erased
<1>9. CASE Send
  <2>1. /\ pc = "send" /\ pc' = "idle" /\ todo = {}
        /\ UNCHANGED <<searches, req, todo, stable, there>>
        /\ req \in Requests
    BY <1>0, <1>9 DEF Send, BestInv, FlagsInv
  <2>2. answer' = Best
    BY <1>0, <1>9, <2>1 DEF Send, BestInv, Best
  <2>3. \A g : Wanted(g)' = Wanted(g) /\ Distance(g)' = Distance(g)
    BY <2>1 DEF Wanted, Distance
  <2>4. BestInv'
    BY <1>0, <2>1 DEF BestInv
  <2>5. /\ Best # NoFile => Best \in there /\ Wanted(Best) /\ Distance(Best) = min
        /\ first = 1 /\ ~Erased => Best # NoFile
        /\ Best # NoFile => first = 1
        /\ searches > MaxOpen => first = 0
        /\ searches <= MaxOpen => \A f \in stable : Wanted(f) => first = 1 /\ min <= Distance(f)
    BY <1>0, <2>1 DEF BestInv, Best, TypeOK
  <2>6. searches \in Nat /\ MaxOpen \in Nat /\ (searches > MaxOpen <=> ~(searches <= MaxOpen))
    BY <1>0, FindAssumption DEF TypeOK
  <2>7. AnswerInv'
    BY <2>1, <2>2, <2>3, <2>5, <2>6 DEF AnswerInv, Erased
  <2> QED BY <2>4, <2>7
<1>10. CASE UNCHANGED vars
  BY <1>0, <1>10, OthersKeepSearch DEF vars, BestInv
<1> QED BY <1>1, <1>2, <1>3, <1>4, <1>5, <1>6, <1>7, <1>8, <1>9, <1>10 DEF Next, Handle

LEMMA FindInvariant == Spec => []FindInv
<1>1. Init => FindInv
  <2> SUFFICES ASSUME Init PROVE FindInv
    OBVIOUS
  <2>1. TypeOK
    BY DEF Init, TypeOK
  <2>2. FlagsInv /\ BestInv /\ AnswerInv
    BY DEF Init, FlagsInv, BestInv, AnswerInv, Searching
  <2> QED BY <2>1, <2>2 DEF FindInv
<1>2. FindInv /\ [Next]_vars => FindInv'
  BY TypeStep, FlagsStep, SearchStep DEF FindInv
<1> QED BY <1>1, <1>2, PTL DEF Spec

(* Every value stays in its range, and no flag of a search is left for the  *)
(* next request, whatever files come and go meanwhile (findfile,            *)
(* judgefile).                                                              *)
THEOREM FindTyped == Spec => []TypeOK
BY FindInvariant, PTL DEF FindInv

(* For every directory, request and change of files during the search: the  *)
(* answer is a file that was asked for, and none that was there all the     *)
(* time is closer by more than the error of filenametosecond, which is 6    *)
(* days, and nothing within a month.                                        *)
THEOREM AnswerStaysClosest == Spec => []AnswerIsClosest
<1>1. FindInv => AnswerIsClosest
  <2> SUFFICES ASSUME FindInv, answer # NoFile PROVE AnswerIsClosest
    BY DEF AnswerIsClosest
  <2>1. pc = "idle" /\ TypeOK
    BY DEF FindInv, BestInv
  <2>2. /\ req \in Requests /\ answer \in there /\ Wanted(answer)
        /\ \A f \in stable : Wanted(f) => Distance(answer) <= Distance(f)
    BY <2>1 DEF FindInv, AnswerInv
  <2>3. Timed(req) /\ Timed(answer) /\ \A f \in stable : Timed(f)
    BY <2>1, <2>2, NamesTimed, RequestsTimed DEF TypeOK
  <2>4. ASSUME NEW f \in stable, Wanted(f)
        PROVE  RealGap(answer) <= RealGap(f)
                 + IF {answer.mon, f.mon} = {req.mon} THEN 0 ELSE 6 * 24
    <3>1. /\ RealGap(answer) <= RealGap(f) + 6 * 24
          /\ answer.mon = req.mon /\ f.mon = req.mon => RealGap(answer) <= RealGap(f)
      BY <2>2, <2>3, <2>4, DistanceBound
    <3>2. RealGap(f) \in Nat
      BY <2>3, TimeOff DEF RealGap, Gap
    <3>3. CASE {answer.mon, f.mon} = {req.mon}
      <4>1. answer.mon = req.mon /\ f.mon = req.mon
        BY <3>3
      <4>2. RealGap(answer) <= RealGap(f) + 0
        BY <3>1, <3>2, <4>1
      <4> QED BY <3>3, <4>2
    <3>4. CASE {answer.mon, f.mon} # {req.mon}
      BY <3>1, <3>4
    <3> QED BY <3>3, <3>4
  <2> QED BY <2>2, <2>4 DEF AnswerIsClosest
<1> QED BY <1>1, FindInvariant, PTL

(* A search finds a file if one it was asked for is there all the time, as  *)
(* long as the searches before have left a descriptor to read the directory *)
(* with (and minlog does not lie behind logname).                           *)
THEOREM SearchFindsAny == Spec => []FoundIfAny
<1>1. FindInv => FoundIfAny
  BY DEF FindInv, AnswerInv, FoundIfAny
<1> QED BY <1>1, FindInvariant, PTL
=============================================================================
