----------------------------- MODULE LogHandler -----------------------------
(***************************************************************************)
(* logHandler/LogHandler.cpp: the log every class writes to, one file per  *)
(* day, reopened by the first line of a day, when the file was removed and *)
(* after _setLogPath to a new name.  All of it is global and unlocked: the *)
(* mutex of _log is commented out.                                         *)
(*                                                                         *)
(* Threads is the set of threads whose calls of _log overlap.  Midnight, a *)
(* tool that removes old files, and the calls of _setLogPath and _close    *)
(* come between any two steps.  Strings and the stream are changed whole:  *)
(* what two threads in the middle of one of them make of it is left out.   *)
(***************************************************************************)
EXTENDS Naturals, FiniteSets

CONSTANTS
    Threads,  \* threads that call _log
    Paths,    \* names given to _setLogPath
    Default,  \* the name under /data/opt/tomcat that stands for none
    None,     \* no path, no file, no thread's line
    MaxDays,  \* bound: days the program runs
    Faults    \* whether the disk refuses to open a file, or to take a line

PathsAssumption == Default \notin Paths /\ None \notin Paths \cup {Default}
DaysAssumption  == MaxDays \in Nat \ {0}

Days  == 1..MaxDays
Names == Paths \cup {Default}
Files == Names \X Days

NoneAssumption == None \notin Nat \cup Files

VARIABLES
    today,                     \* the system's date
    dirs,                      \* names whose directory exists
    files,                     \* files that exist
    mstrLogPath, mstrLogDate,  \* None is the empty string
    fs, good,                  \* the file the stream is open on; no failbit, no badbit then
    pc, stamp, date, strPath,  \* each thread's line, its date and its local strings
    errors,                    \* whether error.log has a line
    excused,                   \* observer: threads whose line may be lost
    asked,                     \* observer: the path a line was looked up under, and
                               \* whether a file not the stream's had that name
    mixed, amiss               \* observers: threads in the middle of whose line another
                               \* opened the file; whether the stream was last opened so,
                               \* or a write to it failed since

log    == <<mstrLogPath, mstrLogDate, fs, good>>
disk   == <<today, dirs, files>>
locals == <<stamp, date, strPath>>
seen   == <<excused, asked, mixed, amiss>>
vars   == <<disk, log, pc, locals, errors, seen>>

Init ==
    /\ today = 1 /\ dirs \in SUBSET {Default} /\ files = {}
    /\ mstrLogPath = None /\ mstrLogDate = None /\ fs = None /\ good = TRUE
    /\ pc = [t \in Threads |-> "idle"]
    /\ stamp = [t \in Threads |-> None] /\ date = [t \in Threads |-> None]
    /\ strPath = [t \in Threads |-> None]
    /\ errors = FALSE
    /\ excused = {} /\ asked = [t \in Threads |-> None] /\ mixed = {} /\ amiss = FALSE

-----------------------------------------------------------------------------
\* Between noting the date and having the file open.
Opening(t) == pc[t] \in {"close", "open"}

Does == IF Faults THEN BOOLEAN ELSE {TRUE}

\* _log: the line gets its time before writeLog is called.
Log(t) ==
    /\ pc[t] = "idle"
    /\ pc'    = [pc EXCEPT ![t] = "date"]
    /\ stamp' = [stamp EXCEPT ![t] = today]
    /\ UNCHANGED <<disk, log, date, strPath, errors, seen>>

\* writeLog takes the date a second time ...
CurrentDate(t) ==
    /\ pc[t] = "date"
    /\ pc'   = [pc EXCEPT ![t] = "check"]
    /\ date' = [date EXCEPT ![t] = today]
    /\ UNCHANGED <<disk, log, stamp, strPath, errors, seen>>

BugSameDay(t) ==
    \/ fs = None
    \/ mstrLogPath = None
    \/ <<mstrLogPath, mstrLogDate>> \notin files

MustOpen(t) ==
    \/ mstrLogDate # date[t]
    \/ fs = None
    \/ mstrLogPath = None
    \/ <<mstrLogPath, mstrLogDate>> \notin files

\* ... and looks whether the stream is open on today's file, which it takes for
\* given when a file of that name exists.
Check(t) ==
    /\ pc[t] = "check"
    /\ pc' = [pc EXCEPT ![t] = IF MustOpen(t) THEN "name" ELSE "write"]
    /\ LET named == <<mstrLogPath, mstrLogDate>>
           taken == named \in files \ {fs}
       IN IF MustOpen(t) THEN UNCHANGED <<asked, excused, mixed>>
          ELSE /\ asked'   = [asked EXCEPT ![t] = [path |-> mstrLogPath, taken |-> taken]]
               /\ excused' = (IF taken THEN excused \cup {t} ELSE excused)
               /\ mixed'   = (IF \E u \in Threads : Opening(u) THEN mixed \cup {t} ELSE mixed)
    /\ UNCHANGED <<disk, log, locals, errors, amiss>>

Name(t) ==
    /\ pc[t] = "name"
    /\ mstrLogPath' = IF mstrLogPath = None THEN Default ELSE mstrLogPath
    /\ mstrLogDate' = date[t]
    /\ strPath' = [strPath EXCEPT ![t] = <<mstrLogPath', date[t]>>]
    /\ asked' = [asked EXCEPT ![t] = [path |-> mstrLogPath', taken |-> FALSE]]
    /\ mixed' = {u \in Threads \ {t} : u \in mixed \/ Opening(u) \/ pc[u] = "write"}
                \cup {u \in {t} : \E v \in Threads : Opening(v)}
    /\ pc' = [pc EXCEPT ![t] = "close"]
    /\ UNCHANGED <<disk, fs, good, stamp, date, errors, excused, amiss>>

CloseOld(t) ==
    /\ pc[t] = "close"
    /\ fs' = None /\ good' = TRUE
    /\ pc' = [pc EXCEPT ![t] = "open"]
    /\ UNCHANGED <<disk, mstrLogPath, mstrLogDate, locals, errors, seen>>

\* fstream::open fails on a stream that is open, and then leaves it open and failed;
\* else it clears what was wrong with the stream, and a line says which file it is.
Open(t) ==
    /\ pc[t] = "open"
    /\ \E opens \in {strPath[t][1] \in dirs /\ fs = None, FALSE}, writes \in Does :
          /\ ~opens => Faults \/ strPath[t][1] \notin dirs \/ fs # None
          /\ good'    = (IF opens THEN writes ELSE fs = None)
          /\ fs'      = IF opens THEN strPath[t] ELSE fs
          /\ files'   = files \cup (IF opens THEN {strPath[t]} ELSE {})
          /\ excused' = (IF ~opens /\ fs = None THEN excused \cup {t} ELSE excused)
          /\ amiss'   = (t \in mixed \/ (opens /\ ~writes))
    /\ pc' = [pc EXCEPT ![t] = "write"]
    /\ UNCHANGED <<today, dirs, mstrLogPath, mstrLogDate, locals, errors, asked, mixed>>

\* The stream takes a line if it is open and well; a write the disk refuses leaves it
\* open and failed.
Write(t) ==
    /\ pc[t] = "write"
    /\ \E writes \in Does :
        /\ good'  = (good /\ (fs # None => writes))
        /\ amiss' = (amiss \/ (good /\ fs # None /\ ~writes))
    /\ pc' = [pc EXCEPT ![t] = "idle"]
    /\ stamp' = [stamp EXCEPT ![t] = None] /\ date' = [date EXCEPT ![t] = None]
    /\ strPath' = [strPath EXCEPT ![t] = None] /\ asked' = [asked EXCEPT ![t] = None]
    /\ excused' = excused \ {t} /\ mixed' = mixed \ {t}
    /\ UNCHANGED <<disk, mstrLogPath, mstrLogDate, fs, errors>>

-----------------------------------------------------------------------------
\* A null pointer gives the default; an empty name is taken as it is; for another
\* one mkdirp makes the directories, and its result is not looked at.  The stream is
\* left to the next line.
_setLogPath(p) ==
    /\ mstrLogPath' = p
    /\ IF p \in Paths THEN \E made \in BOOLEAN : (made \/ Faults) /\ dirs' = dirs \cup (IF made THEN {p} ELSE {})
                      ELSE dirs' = dirs
    /\ UNCHANGED <<today, files, mstrLogDate, fs, good, pc, locals, errors, seen>>

_close ==
    /\ fs # None
    /\ fs' = None /\ good' = TRUE
    /\ excused' = excused \cup {t \in Threads : pc[t] = "write"}   \* checked, and lost with it
    /\ UNCHANGED <<disk, mstrLogPath, mstrLogDate, pc, locals, errors, asked, mixed, amiss>>

\* error.log is opened and closed by each call.
_error ==
    /\ \E writes \in Does : errors' = (errors \/ writes)
    /\ UNCHANGED <<disk, log, pc, locals, seen>>

Midnight ==
    /\ today < MaxDays
    /\ today' = today + 1
    /\ UNCHANGED <<dirs, files, log, pc, locals, errors, seen>>

Remove(f) ==
    /\ f \in files
    /\ files' = files \ {f}
    /\ excused' = excused \cup {t \in Threads : f = fs /\ pc[t] = "write"}
    /\ UNCHANGED <<today, dirs, log, pc, locals, errors, asked, mixed, amiss>>

Next ==
    \/ \E t \in Threads : Log(t) \/ CurrentDate(t) \/ Check(t) \/ Name(t) \/ CloseOld(t) \/ Open(t) \/ Write(t)
    \/ \E p \in Names \cup {None} : _setLogPath(p)
    \/ _close
    \/ _error
    \/ Midnight
    \/ \E f \in files : Remove(f)

Spec == Init /\ [][Next]_vars

-----------------------------------------------------------------------------
\* Whenever the stream is open it is on a file of a day that has begun, and a date is
\* noted before the first file is opened.
TypeOK ==
    /\ today \in Days /\ dirs \subseteq Names /\ files \subseteq Files
    /\ mstrLogPath \in Names \cup {None} /\ mstrLogDate \in (1..today) \cup {None}
    /\ fs \in (Names \X (1..today)) \cup {None} /\ good \in BOOLEAN
    /\ fs # None => mstrLogDate # None
    /\ pc \in [Threads -> {"idle", "date", "check", "name", "close", "open", "write"}]
    /\ {errors, amiss} \subseteq BOOLEAN /\ mixed \cup excused \subseteq Threads

\* A line that is about to be written, in the middle of which no other line opened the
\* file; nor was the stream last opened so, or failed a write since.
Fair(t) == pc[t] = "write" /\ t \notin mixed /\ ~amiss

\* A line the disk takes is lost only if the file could not be opened, or was removed or
\* closed while the line was on its way, or another file has the name _setLogPath gave;
\* or if it was written while another line opened the file, or after two opened it at
\* once or a write failed, until one line alone opens the file again.  A file that was
\* removed before is made anew (LogHandler.cpp:50-51), and one failed open does not cost
\* the lines after it.
LostForAReason == \A t \in Threads : Fair(t) => t \in excused \/ (fs \in files /\ good)

\* A line goes to the file of a day between the one it is stamped with and the one it
\* is written on: at midnight it may be late, and goes to yesterday's file only when
\* lines opened the file at once.
LineInItsDay == \A t \in Threads : Fair(t) /\ fs # None => stamp[t] <= fs[2] /\ fs[2] <= today

\* A line goes to the file of the path set last when it was looked up, unless another
\* file of that name was there: then the code believes it has it open (LogHandler.cpp:51).
LineAtItsPath ==
    \A t \in Threads : Fair(t) /\ fs # None => asked[t].taken \/ fs[1] = asked[t].path
=============================================================================
