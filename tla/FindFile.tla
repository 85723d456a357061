------------------------------ MODULE FindFile ------------------------------
(***************************************************************************)
(* Finding the stored file closest to a time the server names, and         *)
(* deleting one (FRAME_TYPE_FND_FILE of handle(), judgefile, findfile,     *)
(* readfilename, handleDelFile in src/uart/uart.c).  The directory is read *)
(* while other threads store and delete files in it.  Candidates and flags *)
(* are globals and survive a request.  The server waits for an answer, or  *)
(* for as long as a search takes, before it asks again; what two searches  *)
(* at the same time do to the globals is not modelled.                     *)
(***************************************************************************)
EXTENDS Integers, FiniteSets

CONSTANTS
  Names,         \* external: files that may be stored: [kind, id, mon, day, hour]
  Requests,      \* external: names the server asks for, with mac "own" or "other";
                 \* kind "other" stands for every name judgefile does not know
  MinlogBehind,  \* whether the linker puts minlog behind logname
  MaxOpen,       \* external: directories the process can have open at a time
  MaxRequests, MaxChanges

VARIABLES
  files,                       \* the files stored
  deleting,                    \* the file a processor has been told to delete, or NoFile
  asked, changes,              \* requests, and changes of the files, so far
  searches,                    \* searches so far
  pc, req,                     \* the name asked for last, NoFile at first
  log, dat, iddat, idfu,       \* flags: the kind searched for; the id
  first, min, minlog, mindat,
  todo,                        \* external: what readdir has still to return
  stable, there,               \* history: files stored during all, or part, of the search
  answer                       \* the file sent, NoFile while or if there is none

NoFile == [kind |-> "none"]
Kinds == {"log", "dat", "iddat"}

(* The names the program gives: of a log (writeFrame2log), of a report      *)
(* (GenerateMacDateTimeFileName) and of a wave, with the id and the number  *)
(* of its device (GenerateMacCanidFnDateTimeFileName).  The files the       *)
(* server uploads are named in the same way.                                *)
LogName == [kind : {"log"}, id : {0}, mon : 1..12, day : 1..31, hour : {0}]
DatName == [kind : {"dat"}, id : {0}, mon : 1..12, day : 1..31, hour : 0..23]
IdDatName == [kind : {"iddat"}, id : Nat, mon : 1..12, day : 1..31, hour : 0..23]

(* What a name asks for.  The number of the month is used as an index.      *)
RequestName == [mac : {"own", "other"}, kind : Kinds \cup {"other"}, id : Nat,
                mon : 1..12, day : 1..31, hour : 0..23]

ASSUME FindAssumption ==
  /\ Names \subseteq LogName \cup DatName \cup IdDatName
  /\ Requests \subseteq RequestName
  /\ NoFile \notin Names
  /\ MinlogBehind \in BOOLEAN
  /\ MaxOpen \in Nat
  /\ MaxRequests \in Nat /\ MaxChanges \in Nat

flags == <<log, dat, iddat>>
found == <<first, min, minlog, mindat, idfu>>
history == <<stable, there>>
vars == <<files, deleting, asked, changes, searches, pc, req, flags, found, todo, history, answer>>

Init ==
  /\ files \in SUBSET Names /\ deleting = NoFile
  /\ asked = 0 /\ changes = 0 /\ searches = 0
  /\ pc = "idle"
  /\ req = NoFile
  /\ log = FALSE /\ dat = FALSE /\ iddat = FALSE
  /\ first = 0 /\ min = 0 /\ idfu = 0
  /\ minlog = NoFile /\ mindat = NoFile
  /\ todo = {} /\ stable = {} /\ there = {}
  /\ answer = NoFile

-----------------------------------------------------------------------------
(* Times, in hours of a year of 365 days *)

DaysBefore == <<0, 31, 59, 90, 120, 151, 181, 212, 243, 273, 304, 334, 365>>

RealTime(f) == 24 * (DaysBefore[f.mon] + f.day) + f.hour

(* filenametosecond: tm_mon counts from 0 but is given the month as it is   *)
(* written.  The constant subtracted from all times does not matter.        *)
filenametosecond(f) == 24 * (DaysBefore[f.mon + 1] + f.day) + f.hour

Gap(a, b) == IF a > b THEN a - b ELSE b - a

Distance(f) == Gap(filenametosecond(req), filenametosecond(f))

-----------------------------------------------------------------------------
(* Other threads store and delete files; readdir may or may not see what    *)
(* changes while it reads.                                                  *)

Searched == IF log THEN "log" ELSE IF dat THEN "dat" ELSE "iddat"

(* Logs are in a directory of their own. *)
InDirectory(f) == (f.kind = "log") = (Searched = "log")

Store(f) ==
  /\ changes < MaxChanges /\ changes' = changes + 1
  /\ f \notin files /\ files' = files \cup {f}
  /\ IF pc = "scan" /\ InDirectory(f)
     THEN there' = there \cup {f} /\ todo' \in {todo, todo \cup {f}}
     ELSE UNCHANGED <<there, todo>>
  /\ UNCHANGED <<deleting, asked, searches, pc, req, flags, found, stable, answer>>

(* External: the server has a file deleted.  It gets no answer and may ask  *)
(* for a search at once.                                                    *)
AskDelete(f) ==
  /\ changes < MaxChanges /\ changes' = changes + 1
  /\ deleting = NoFile /\ deleting' = f
  /\ UNCHANGED <<files, asked, searches, pc, req, flags, found, todo, history, answer>>

(* The suffix tells the directory.  remove may fail, which nobody is told.  *)
handleDelFile ==
  /\ deleting # NoFile /\ deleting' = NoFile
  /\ files' \in {files, files \ {deleting}}
  /\ IF pc = "scan" /\ files' # files
     THEN stable' = stable \ {deleting} /\ todo' \in {todo, todo \ {deleting}}
     ELSE UNCHANGED <<stable, todo>>
  /\ UNCHANGED <<asked, changes, searches, pc, req, flags, found, there, answer>>

-----------------------------------------------------------------------------
(* The handler *)

Take(r) ==
  /\ pc = "idle" /\ asked < MaxRequests
  /\ asked' = asked + 1
  /\ req' = r
  /\ minlog' = NoFile /\ mindat' = NoFile
  /\ answer' = NoFile /\ stable' = {} /\ there' = {}
  /\ UNCHANGED <<files, deleting, changes, searches, min, idfu, todo>>

(* Seeded fault: first keeps its value. *)
JudgeKeepsFirst(r) ==
  /\ r.mac = "own"
  /\ Take(r)
  /\ \E kind \in {r.kind, "other"} :
       /\ log' = (log \/ kind = "log")
       /\ dat' = (dat \/ kind = "dat")
       /\ iddat' = (iddat \/ kind = "iddat")
  /\ pc' = IF log' \/ dat' \/ iddat' THEN "find" ELSE "send"
  /\ UNCHANGED first

(* The name is for this board.  judgefile sets the flag of its kind, unless *)
(* strlen, for want of a NUL, goes past the name and finds no kind at all.  *)
Judge(r) ==
  /\ r.mac = "own"
  /\ Take(r)
  /\ first' = 0
  /\ \E kind \in {r.kind, "other"} :
       /\ log' = (log \/ kind = "log")
       /\ dat' = (dat \/ kind = "dat")
       /\ iddat' = (iddat \/ kind = "iddat")
  /\ pc' = IF log' \/ dat' \/ iddat' THEN "find" ELSE "send"

(* The MAC in the name is another, or is read as another: the copy of it    *)
(* that is compared has no NUL at its end either.                           *)
Decline(r) ==
  /\ Take(r)
  /\ UNCHANGED <<pc, flags, first>>

(* findfile resets the flag it has searched by.  After a log the caller     *)
(* looks for the other flags.                                               *)
Return ==
  /\ log' = FALSE
  /\ dat' = IF log THEN dat ELSE FALSE
  /\ iddat' = IF log \/ dat THEN iddat ELSE FALSE
  /\ pc' = IF log /\ (dat \/ iddat) THEN "find" ELSE "send"

(* findfile and readfilename up to opendir. *)
Begin ==
  /\ pc = "find"
  /\ searches' = searches + 1
  /\ idfu' = IF iddat THEN req.id ELSE idfu
  /\ stable' = {f \in files : InDirectory(f)} /\ there' = stable'
  /\ UNCHANGED <<files, deleting, asked, changes, req, first, min, minlog, mindat, answer>>

(* No search closes the directory it has opened.                            *)
Open ==
  /\ searches < MaxOpen
  /\ Begin
  /\ todo' = stable' /\ pc' = "scan"
  /\ UNCHANGED flags

(* When so many are left open that opendir fails, nothing is looked at.     *)
OpenFails ==
  /\ searches >= MaxOpen
  /\ Begin
  /\ Return
  /\ UNCHANGED todo

(* The names a search looks at: of the right form, and for iddat the id.    *)
IsCandidate(f) == f.kind = Searched /\ (iddat => f.id = idfu)

(* Seeded fault: min stays that of the first file. *)
ConsiderAgainstFirst(f) ==
  LET nearest == IF first = 0 THEN Distance(f) ELSE min IN
  /\ first' = 1 /\ min' = nearest
  /\ LET closer == Distance(f) <= nearest IN
       /\ minlog' = IF closer /\ log THEN f
                    ELSE IF log /\ MinlogBehind THEN NoFile ELSE minlog
       /\ mindat' = IF closer /\ ~log THEN f ELSE mindat

(* A candidate at most as far as the closest so far becomes the closest.    *)
(* getfilename ends logname with a NUL one byte behind it.                  *)
Consider(f) ==
  LET nearest == IF first = 0 THEN Distance(f) ELSE min
      closer == Distance(f) <= nearest IN
  /\ first' = 1
  /\ min' = IF closer THEN Distance(f) ELSE min
  /\ minlog' = IF closer /\ log THEN f
               ELSE IF log /\ MinlogBehind THEN NoFile ELSE minlog
  /\ mindat' = IF closer /\ ~log THEN f ELSE mindat

(* One turn of the loop over readdir, which returns files in any order.     *)
Visit(f) ==
  /\ pc = "scan" /\ f \in todo
  /\ todo' = todo \ {f}
  /\ IF IsCandidate(f) THEN Consider(f) ELSE UNCHANGED <<first, min, minlog, mindat>>
  /\ UNCHANGED <<files, deleting, asked, changes, searches, pc, req, flags, idfu, history, answer>>

(* Seeded fault: the flag of a search by id stays. *)
CloseKeepsIddat ==
  /\ pc = "scan" /\ todo = {}
  /\ log' = FALSE /\ dat' = IF log THEN dat ELSE FALSE
  /\ pc' = "send"
  /\ UNCHANGED <<files, deleting, asked, changes, searches, req, iddat, found, todo, history,
                 answer>>

Close ==
  /\ pc = "scan" /\ todo = {}
  /\ Return
  /\ UNCHANGED <<files, deleting, asked, changes, searches, req, found, todo, history, answer>>

(* A frame is sent if minlog and mindat begin with different characters:    *)
(* one of them is empty and the other is not.                               *)
Send ==
  /\ pc = "send"
  /\ answer' = IF minlog # NoFile /\ mindat = NoFile THEN minlog
               ELSE IF mindat # NoFile /\ minlog = NoFile THEN mindat ELSE NoFile
  /\ pc' = "idle"
  /\ UNCHANGED <<files, deleting, asked, changes, searches, req, flags, found, todo, history>>

Handle == Open \/ OpenFails \/ (\E f \in todo : Visit(f)) \/ Close \/ Send

Next ==
  \/ \E f \in Names : Store(f) \/ AskDelete(f)
  \/ handleDelFile
  \/ \E r \in Requests : Judge(r) \/ Decline(r)
  \/ Handle

Spec == Init /\ [][Next]_vars

-----------------------------------------------------------------------------
(* Properties *)

(* The values of the variables; between requests no kind is left over for   *)
(* the next one (findfile resets the flag it searched by).                  *)
TypeOK ==
  /\ files \subseteq Names /\ todo \subseteq Names /\ deleting \in Names \cup {NoFile}
  /\ stable \subseteq Names /\ there \subseteq Names
  /\ pc \in {"idle", "find", "scan", "send"}
  /\ req \in Requests \cup {NoFile}
  /\ log \in BOOLEAN /\ dat \in BOOLEAN /\ iddat \in BOOLEAN
  /\ pc = "idle" => ~log /\ ~dat /\ ~iddat
  /\ first \in {0, 1} /\ min \in Nat /\ idfu \in Nat /\ searches \in Nat
  /\ {minlog, mindat, answer} \subseteq Names \cup {NoFile}

(* What a search is asked for: files of the kind, and of the id, requested. *)
Wanted(f) == f.kind = req.kind /\ (req.kind = "iddat" => f.id = req.id)

RealGap(f) == Gap(RealTime(req), RealTime(f))

(* "return the file that was found" (uart.c:903): the file sent is one the  *)
(* server asked for and was stored during the search.  No file stored all   *)
(* the time is closer, if the three are of one month; else, as months       *)
(* differ in length by 3 days at most, none is closer by more than 6 days.  *)
AnswerIsClosest ==
  answer # NoFile =>
    /\ answer \in there /\ Wanted(answer)
    /\ \A f \in stable : Wanted(f) =>
         RealGap(answer) <= RealGap(f)
           + IF {answer.mon, f.mon} = {req.mon} THEN 0 ELSE 6 * 24

(* minlog has been overwritten: the linker put it behind logname.           *)
Erased == MinlogBehind /\ req.kind = "log"

(* As long as directories can be opened, a search that ends without an      *)
(* answer had no file to find: none it was asked for was stored all the     *)
(* time.  (For a name that is declined or misread nothing is searched.)     *)
FoundIfAny ==
  pc = "idle" /\ answer = NoFile /\ searches <= MaxOpen /\ ~Erased =>
    \A f \in stable : ~Wanted(f)

(* The same for every search: false, as no directory is closed and as       *)
(* minlog may be overwritten.                                               *)
FoundAnyway ==
  pc = "idle" /\ answer = NoFile => \A f \in stable : ~Wanted(f)

(* The closest file by date, whatever the month: false, see                 *)
(* filenametosecond (uart.c:1209).                                          *)
ClosestByDate ==
  answer # NoFile => \A f \in stable : Wanted(f) => RealGap(answer) <= RealGap(f)
=============================================================================
