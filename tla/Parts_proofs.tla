----------------------------- MODULE Parts_proofs -----------------------------
(***************************************************************************)
(* Theorems about the parts that keep to themselves, for every value of    *)
(* their constants.  Each part has an inductive invariant over its own     *)
(* variables, and Unit carries what holds of a part over to the            *)
(* behaviours of Parts that are of it.                                     *)
(***************************************************************************)
EXTENDS Parts, SequenceTheorems, TLAPS

-----------------------------------------------------------------------------
(* The log                                                                 *)

\* The types of what L!TypeOK says nothing of.
LogLocals ==
    /\ stamp \in [Writers -> Nat \cup {None}] /\ date \in [Writers -> Nat \cup {None}]
    /\ strPath \in [Writers -> (L!Names \X Nat) \cup {None}]
    /\ asked \in [Writers -> [path : L!Names \cup {None}, taken : BOOLEAN] \cup {None}]

\* A line's date is no earlier than its stamp.
DateInv == \A t \in Writers :
    /\ pc[t] # "idle" => stamp[t] \in 1..today
    /\ pc[t] \notin {"idle", "date"} => date[t] \in stamp[t]..today

\* A line that opens the file has the name of one of the date it took.
PlacesInv == \A t \in Writers : L!Opening(t) => strPath[t] \in L!Names \X (1..today) /\ mstrLogDate # None

\* A line that opens the file and is not mixed is alone at it: what it noted is still so, and
\* it has closed the stream before it opens it.
OpensAlone(t) ==
    /\ \A u \in Writers \ {t} : ~L!Opening(u) /\ (pc[u] = "write" => u \in mixed)
    /\ mstrLogDate = date[t] /\ strPath[t] \in L!Names \X {date[t]}
    /\ asked[t] = [path |-> strPath[t][1], taken |-> FALSE]
    /\ pc[t] = "open" => fs = None

\* While no line opens the file and nothing is amiss, the stream is well and open on the file
\* of the last date noted.
StreamInv ==
    (\A t \in Writers : ~L!Opening(t)) /\ ~amiss /\ fs # None => good /\ fs[2] = mstrLogDate

\* A line that is about to be written and not mixed has that date, and its file is the
\* stream's.
WritesAlone(t) ==
    /\ \A u \in Writers : ~L!Opening(u)
    /\ mstrLogDate = date[t]
    /\ ~amiss => /\ t \in excused \/ (fs # None /\ fs \in files)
                 /\ fs # None => asked[t].taken \/ fs[1] = asked[t].path

AloneInv == \A t \in Writers \ mixed :
    /\ L!Opening(t) => OpensAlone(t)
    /\ pc[t] = "write" => WritesAlone(t)

LogIInv == L!TypeOK /\ LogLocals /\ DateInv /\ PlacesInv /\ StreamInv /\ AloneInv

LEMMA LogInit == ASSUME L!Init PROVE LogIInv
<1>1. 1 \in L!Days
  BY LogAssumption DEF L!DaysAssumption, L!Days
<1> QED
  BY <1>1 DEF L!Init, LogIInv, LogLocals, DateInv, PlacesInv, StreamInv, AloneInv, L!Opening, L!TypeOK, L!Names

\* What the invariant says of a line that is about to be written.
LEMMA LogGives ==
    (unit = "log" => LogIInv) => (unit = "log" => L!LostForAReason /\ L!LineInItsDay /\ L!LineAtItsPath)
<1> SUFFICES ASSUME LogIInv PROVE L!LostForAReason /\ L!LineInItsDay /\ L!LineAtItsPath
  OBVIOUS
<1>1. ASSUME NEW t \in Writers, L!Fair(t)
      PROVE  /\ t \in excused \/ (fs # None /\ fs \in files)
             /\ fs # None => asked[t].taken \/ fs[1] = asked[t].path
             /\ fs # None => good /\ fs[2] = date[t]
             /\ date[t] \in stamp[t]..today /\ stamp[t] \in 1..today
  <2>1. pc[t] = "write" /\ t \in Writers \ mixed /\ ~amiss
    BY <1>1 DEF L!Fair
  <2>2. WritesAlone(t)
    BY <2>1 DEF LogIInv, AloneInv
  <2>3. date[t] \in stamp[t]..today /\ stamp[t] \in 1..today
    BY <2>1 DEF LogIInv, DateInv
  <2> QED BY <2>1, <2>2, <2>3 DEF WritesAlone, LogIInv, StreamInv
<1>2. L!LostForAReason
  BY <1>1 DEF L!LostForAReason
<1>3. L!LineInItsDay
  <2>1. ASSUME NEW t \in Writers, L!Fair(t), fs # None PROVE stamp[t] <= fs[2] /\ fs[2] <= today
    <3>1. fs[2] = date[t] /\ date[t] \in stamp[t]..today
      BY <1>1, <2>1
    <3> QED BY <3>1
  <2> QED BY <2>1 DEF L!LineInItsDay
<1>4. L!LineAtItsPath
  BY <1>1 DEF L!LineAtItsPath
<1> QED BY <1>2, <1>3, <1>4

LEMMA LogStep == ASSUME LogIInv, [L!Next]_(L!vars) PROVE LogIInv'
<1> USE LogAssumption DEF LogIInv, LogLocals, DateInv, StreamInv, L!TypeOK, L!DaysAssumption,
        L!PathsAssumption, L!NoneAssumption, L!Names, L!Files, L!Days, L!disk, L!log, L!locals, L!seen
<1>1. ASSUME NEW t \in Writers, L!Log(t) \/ L!CurrentDate(t) PROVE LogIInv'
  <2>1. /\ \A u \in Writers : pc'[u] = IF u = t THEN pc'[t] ELSE pc[u]
        /\ pc[t] \in {"idle", "date"} /\ pc'[t] \in {"date", "check"}
        /\ \A u \in Writers : u # t => stamp'[u] = stamp[u] /\ date'[u] = date[u]
        /\ UNCHANGED <<today, dirs, files, mstrLogPath, mstrLogDate, fs, good, strPath, errors,
                        excused, asked, mixed, amiss>>
    BY <1>1 DEF L!Log, L!CurrentDate
  <2>2. L!TypeOK' /\ LogLocals' /\ DateInv'
    BY <1>1 DEF L!Log, L!CurrentDate
  <2>3. \A u \in Writers : L!Opening(u)' <=> L!Opening(u)
    BY <2>1 DEF L!Opening
  <2>4. StreamInv'
    BY <2>1, <2>3
  <2>5. AloneInv'
    <3>1. \A u \in Writers : pc'[u] = "write" <=> pc[u] = "write"
      BY <2>1
    <3>2. ASSUME NEW u \in Writers, u \notin mixed', L!Opening(u)' PROVE OpensAlone(u)'
      <4>1. OpensAlone(u) /\ u # t
        BY <2>1, <2>3, <3>2 DEF AloneInv, L!Opening
      <4> QED BY <2>1, <2>3, <3>1, <4>1 DEF OpensAlone
    <3>3. ASSUME NEW u \in Writers, u \notin mixed', pc'[u] = "write" PROVE WritesAlone(u)'
      <4>1. WritesAlone(u) /\ u # t
        BY <2>1, <3>1, <3>3 DEF AloneInv
      <4> QED BY <2>1, <2>3, <4>1 DEF WritesAlone
    <3> QED BY <3>2, <3>3 DEF AloneInv
  <2>20. PlacesInv'
    BY <2>1 DEF PlacesInv, L!Opening
  <2> QED BY <2>20, <2>2, <2>4, <2>5
<1>2. ASSUME NEW t \in Writers, L!Check(t) PROVE LogIInv'
  <2>1. /\ \A u \in Writers : pc'[u] = IF u = t THEN pc'[t] ELSE pc[u]
        /\ pc[t] = "check" /\ pc'[t] \in {"name", "write"}
        /\ \A u \in Writers : u # t => asked'[u] = asked[u] /\ (u \in mixed' <=> u \in mixed)
        /\ \A u \in Writers : u # t => (u \in excused' <=> u \in excused)
        /\ UNCHANGED <<today, dirs, files, mstrLogPath, mstrLogDate, fs, good, stamp, date, strPath, errors, amiss>>
    BY <1>2 DEF L!Check
  <2>2. L!TypeOK' /\ LogLocals' /\ DateInv'
    <3>1. /\ pc' = [pc EXCEPT ![t] = pc'[t]]
          /\ mixed' \subseteq Writers /\ excused' \subseteq Writers
      BY <1>2 DEF L!Check
    <3>2. asked' = asked \/ asked' = [asked EXCEPT ![t] = [path |-> mstrLogPath, taken |-> TRUE]]
          \/ asked' = [asked EXCEPT ![t] = [path |-> mstrLogPath, taken |-> FALSE]]
      BY <1>2 DEF L!Check
    <3>3. L!TypeOK'
      BY <2>1, <3>1
    <3>4. LogLocals'
      <4> DEFINE Seen == [path : L!Names \cup {None}, taken : BOOLEAN] \cup {None}
      <4>1. asked \in [Writers -> Seen] /\ mstrLogPath \in L!Names \cup {None}
        OBVIOUS
      <4>2. [path |-> mstrLogPath, taken |-> TRUE] \in Seen /\ [path |-> mstrLogPath, taken |-> FALSE] \in Seen
        BY <4>1
      <4>3. PICK b \in Seen : asked' = asked \/ asked' = [asked EXCEPT ![t] = b]
        <5> HIDE DEF Seen
        <5> QED BY <3>2, <4>2
      <4> HIDE DEF Seen
      <4>4. asked' \in [Writers -> Seen]
        BY <4>1, <4>3
      <4> QED BY <2>1, <4>4 DEF Seen
    <3>5. DateInv'
      BY <2>1
    <3> QED BY <3>3, <3>4, <3>5
  <2>3. \A u \in Writers : L!Opening(u)' <=> L!Opening(u)
    BY <2>1 DEF L!Opening
  <2>4. StreamInv'
    BY <2>1, <2>3
  <2>5. ASSUME pc'[t] = "write", t \notin mixed' PROVE WritesAlone(t)'
    <3>1. ~L!MustOpen(t) /\ \A u \in Writers : ~L!Opening(u)
      BY <1>2, <2>5 DEF L!Check
    <3>2. /\ asked'[t].path = mstrLogPath
          /\ <<mstrLogPath, mstrLogDate>> \in files \ {fs} => t \in excused' /\ asked'[t].taken
      <4>1. CASE <<mstrLogPath, mstrLogDate>> \in files \ {fs}
        <5>1. asked' = [asked EXCEPT ![t] = [path |-> mstrLogPath, taken |-> TRUE]] /\ excused' = excused \cup {t}
          BY <1>2, <3>1, <4>1 DEF L!Check
        <5>2. asked'[t] = [path |-> mstrLogPath, taken |-> TRUE]
          BY <5>1
        <5> QED BY <5>1, <5>2
      <4>2. CASE <<mstrLogPath, mstrLogDate>> \notin files \ {fs}
        <5>1. asked' = [asked EXCEPT ![t] = [path |-> mstrLogPath, taken |-> FALSE]]
          <6>1. (<<mstrLogPath, mstrLogDate>> \in files \ {fs}) = FALSE
            BY <4>2
          <6>2. asked' = [asked EXCEPT ![t] = [path |-> mstrLogPath, taken |-> <<mstrLogPath, mstrLogDate>> \in files \ {fs}]]
            BY <1>2, <3>1 DEF L!Check
          <6> QED BY <6>1, <6>2
        <5>2. asked'[t] = [path |-> mstrLogPath, taken |-> FALSE]
          BY <5>1
        <5> QED BY <4>2, <5>2
      <4> QED BY <4>1, <4>2
    <3>3. mstrLogDate = date[t] /\ fs # None /\ <<mstrLogPath, mstrLogDate>> \in files
      BY <3>1 DEF L!MustOpen
    <3>4. (t \in excused' /\ asked'[t].taken) \/ fs = <<mstrLogPath, mstrLogDate>>
      <4>1. CASE fs = <<mstrLogPath, mstrLogDate>>
        BY <4>1
      <4>2. CASE fs # <<mstrLogPath, mstrLogDate>>
        <5>1. <<mstrLogPath, mstrLogDate>> \in files \ {fs}
          BY <3>3, <4>2
        <5> QED BY <3>2, <5>1
      <4> QED BY <4>1, <4>2
    <3> QED BY <2>1, <2>3, <3>1, <3>2, <3>3, <3>4 DEF WritesAlone
  <2>6. AloneInv'
    <3>1. ASSUME NEW u \in Writers, u \notin mixed', L!Opening(u)' PROVE OpensAlone(u)'
      <4>1. u # t /\ u \notin mixed /\ OpensAlone(u)
        BY <2>1, <2>3, <3>1 DEF AloneInv, L!Opening
      <4>2. pc'[t] = "write" => t \in mixed'
        <5>1. \E v \in Writers : L!Opening(v)
          BY <2>3, <3>1
        <5> QED BY <1>2, <5>1 DEF L!Check
      <4> QED BY <2>1, <2>3, <4>1, <4>2 DEF OpensAlone
    <3>2. ASSUME NEW u \in Writers, u \notin mixed', pc'[u] = "write" PROVE WritesAlone(u)'
      <4>1. CASE u = t
        BY <2>5, <3>2, <4>1
      <4>2. CASE u # t
        <5>1. WritesAlone(u)
          BY <2>1, <3>2, <4>2 DEF AloneInv
        <5> QED BY <2>1, <2>3, <4>2, <5>1 DEF WritesAlone
      <4> QED BY <4>1, <4>2
    <3> QED BY <3>1, <3>2 DEF AloneInv
  <2>20. PlacesInv'
    BY <2>1 DEF PlacesInv, L!Opening
  <2> QED BY <2>20, <2>2, <2>4, <2>6
<1>3. ASSUME NEW t \in Writers, L!Name(t) PROVE LogIInv'
  <2>1. /\ \A u \in Writers : pc'[u] = IF u = t THEN "close" ELSE pc[u]
        /\ pc[t] = "name"
        /\ mixed' = {u \in Writers \ {t} : u \in mixed \/ L!Opening(u) \/ pc[u] = "write"}
                       \cup {u \in {t} : \E v \in Writers : L!Opening(v)}
        /\ mstrLogDate' = date[t]
        /\ strPath' = [strPath EXCEPT ![t] = <<mstrLogPath', date[t]>>]
        /\ asked' = [asked EXCEPT ![t] = [path |-> mstrLogPath', taken |-> FALSE]]
        /\ mstrLogPath' \in L!Names
        /\ UNCHANGED <<today, dirs, files, fs, good, stamp, date, errors, excused, amiss>>
    BY <1>3 DEF L!Name
  <2>2. date[t] \in 1..today /\ date[t] # None
    BY <2>1
  <2>3. L!TypeOK' /\ LogLocals' /\ DateInv'
    <3>1. pc' \in [Writers -> {"idle", "date", "check", "name", "close", "open", "write"}]
      BY <1>3 DEF L!Name
    <3>2. L!TypeOK'
      BY <2>1, <2>2, <3>1
    <3>3. LogLocals' /\ DateInv'
      BY <2>1, <2>2
    <3> QED BY <3>2, <3>3
  <2>4. StreamInv'
    BY <2>1 DEF L!Opening
  <2>5. AloneInv'
    <3>1. ASSUME NEW u \in Writers, u \notin mixed', u # t PROVE ~L!Opening(u)' /\ pc'[u] # "write"
      BY <2>1, <3>1 DEF L!Opening
    <3>2. ASSUME t \notin mixed' PROVE OpensAlone(t)'
      <4>1. \A v \in Writers : ~L!Opening(v)
        BY <2>1, <3>2
      <4>2. \A v \in Writers \ {t} : ~L!Opening(v)' /\ (pc'[v] = "write" => v \in mixed')
        BY <2>1, <4>1 DEF L!Opening
      <4>3. strPath'[t] = <<mstrLogPath', date[t]>> /\ asked'[t] = [path |-> mstrLogPath', taken |-> FALSE]
        BY <2>1
      <4> QED BY <2>1, <4>2, <4>3 DEF OpensAlone
    <3> QED BY <2>1, <3>1, <3>2 DEF AloneInv
  <2>20. PlacesInv'
    BY <1>3, <2>1, <2>2 DEF PlacesInv, L!Opening
  <2> QED BY <2>20, <2>3, <2>4, <2>5
<1>4. ASSUME NEW t \in Writers, L!CloseOld(t) PROVE LogIInv'
  <2>1. /\ \A u \in Writers : pc'[u] = IF u = t THEN "open" ELSE pc[u]
        /\ pc[t] = "close" /\ fs' = None
        /\ UNCHANGED <<today, dirs, files, mstrLogPath, mstrLogDate, stamp, date, strPath, errors,
                        excused, asked, mixed, amiss>>
        /\ good' = TRUE
    BY <1>4 DEF L!CloseOld
  <2>2. L!TypeOK' /\ LogLocals' /\ DateInv' /\ StreamInv'
    BY <1>4 DEF L!CloseOld
  <2>3. L!Opening(t) /\ \A u \in Writers : L!Opening(u)' <=> L!Opening(u)
    BY <2>1 DEF L!Opening
  <2>4. \A u \in Writers : pc'[u] = "write" <=> pc[u] = "write"
    BY <2>1
  <2>5. ASSUME NEW u \in Writers, u \notin mixed', L!Opening(u)' PROVE OpensAlone(u)'
    <3>1. OpensAlone(u)
      BY <2>1, <2>3, <2>5 DEF AloneInv
    <3> QED BY <2>1, <2>3, <2>4, <3>1 DEF OpensAlone
  <2>6. ASSUME NEW u \in Writers, u \notin mixed', pc'[u] = "write" PROVE FALSE
    BY <2>1, <2>3, <2>4, <2>6 DEF AloneInv, WritesAlone
  <2>20. PlacesInv'
    BY <2>1 DEF PlacesInv, L!Opening
  <2> QED BY <2>20, <2>2, <2>5, <2>6 DEF AloneInv
<1>5. ASSUME NEW t \in Writers, L!Open(t) PROVE LogIInv'
  <2> PICK file : file = strPath[t]
    OBVIOUS
  <2>1. PICK opens \in {file[1] \in dirs /\ fs = None, FALSE}, writes \in L!Does :
          /\ good' = (IF opens THEN writes ELSE fs = None)
          /\ fs' = IF opens THEN file ELSE fs
          /\ files' = files \cup (IF opens THEN {file} ELSE {})
          /\ excused' = (IF ~opens /\ fs = None THEN excused \cup {t} ELSE excused)
          /\ amiss' = (t \in mixed \/ (opens /\ ~writes))
    BY <1>5 DEF L!Open
  <2>2. /\ \A u \in Writers : pc'[u] = IF u = t THEN "write" ELSE pc[u]
        /\ pc[t] = "open" /\ pc' = [pc EXCEPT ![t] = "write"]
        /\ UNCHANGED <<today, dirs, mstrLogPath, mstrLogDate, stamp, date, strPath, errors, asked, mixed>>
    BY <1>5 DEF L!Open
  <2>3. opens \in BOOLEAN /\ writes \in BOOLEAN
    BY <2>1 DEF L!Does
  <2>4. file \in L!Names \X (1..today) /\ mstrLogDate # None
    BY <2>2 DEF PlacesInv, L!Opening
  <2>5. L!TypeOK'
    <3>1. fs' \in (L!Names \X (1..today)) \cup {None} /\ files' \subseteq L!Files
      BY <2>1, <2>3, <2>4
    <3>2. good' \in BOOLEAN /\ amiss' \in BOOLEAN /\ excused' \subseteq Writers
      BY <2>1, <2>3
    <3> QED BY <2>2, <2>4, <3>1, <3>2
  <2>6. LogLocals' /\ DateInv'
    BY <2>2
  <2>7. L!Opening(t) /\ ~L!Opening(t)' /\ \A u \in Writers : u # t => (L!Opening(u)' <=> L!Opening(u))
    BY <2>2 DEF L!Opening
  <2>20. PlacesInv'
    BY <2>2 DEF PlacesInv, L!Opening
  <2>8. CASE t \in mixed
    <3>1. \A u \in Writers \ mixed : ~L!Opening(u) /\ pc[u] # "write"
      BY <2>7, <2>8 DEF AloneInv, OpensAlone, WritesAlone
    <3>2. \A u \in Writers \ mixed' : ~L!Opening(u)' /\ pc'[u] # "write"
      BY <2>2, <2>7, <2>8, <3>1
    <3>3. AloneInv' /\ StreamInv'
      BY <2>1, <2>8, <3>2 DEF AloneInv
    <3> QED BY <2>5, <2>6, <2>20, <3>3
  <2>9. CASE t \notin mixed
    <3>1. OpensAlone(t) /\ fs = None
      BY <2>2, <2>7, <2>9 DEF AloneInv, OpensAlone
    <3>2. /\ \A u \in Writers : ~L!Opening(u)'
          /\ \A u \in Writers : u # t /\ u \notin mixed' => pc'[u] # "write"
      BY <2>2, <2>7, <3>1 DEF OpensAlone
    <3>3. file[2] = date[t] /\ mstrLogDate = date[t] /\ asked[t] = [path |-> file[1], taken |-> FALSE]
      BY <3>1 DEF OpensAlone
    <3>4. StreamInv'
      BY <2>1, <2>2, <2>3, <2>9, <3>1, <3>3
    <3>5. WritesAlone(t)'
      <4>1. t \in excused' \/ (fs' # None /\ fs' \in files')
        <5>1. CASE opens
          <6>1. fs' = file /\ file \in files' /\ file # None
            BY <2>1, <2>4, <5>1
          <6> QED BY <6>1
        <5>2. CASE ~opens
          BY <2>1, <3>1, <5>2
        <5> QED BY <5>1, <5>2
      <4>2. fs' # None => asked'[t].taken \/ fs'[1] = asked'[t].path
        <5>1. fs' = file \/ fs' = None
          BY <2>1, <3>1
        <5>2. asked'[t].path = file[1]
          BY <2>2, <3>3
        <5> QED BY <5>1, <5>2
      <4>3. mstrLogDate' = date'[t]
        BY <2>2, <3>3
      <4> QED BY <3>2, <4>1, <4>2, <4>3 DEF WritesAlone
    <3>6. AloneInv'
      BY <3>2, <3>5 DEF AloneInv
    <3> QED BY <2>5, <2>6, <2>20, <3>4, <3>6
  <2> QED BY <2>8, <2>9
<1>6. ASSUME NEW t \in Writers, L!Write(t) PROVE LogIInv'
  <2>1. PICK writes \in BOOLEAN :
          /\ good' = (good /\ (fs # None => writes))
          /\ amiss' = (amiss \/ (good /\ fs # None /\ ~writes))
    BY <1>6 DEF L!Write, L!Does
  <2>2. /\ \A u \in Writers : pc'[u] = IF u = t THEN "idle" ELSE pc[u]
        /\ pc[t] = "write" /\ excused' = excused \ {t} /\ mixed' = mixed \ {t}
        /\ \A u \in Writers : u # t => date'[u] = date[u] /\ asked'[u] = asked[u] /\ strPath'[u] = strPath[u]
        /\ UNCHANGED <<today, dirs, files, mstrLogPath, mstrLogDate, fs, errors>>
    BY <1>6 DEF L!Write
  <2>3. L!TypeOK' /\ LogLocals' /\ DateInv'
    <3>1. good' \in BOOLEAN /\ amiss' \in BOOLEAN
      BY <2>1
    <3>2. L!TypeOK'
      BY <1>6, <2>2, <3>1 DEF L!Write
    <3>3. LogLocals' /\ DateInv'
      BY <1>6 DEF L!Write
    <3> QED BY <3>2, <3>3
  <2>4. \A u \in Writers : L!Opening(u)' <=> L!Opening(u)
    BY <2>2 DEF L!Opening
  <2>5. StreamInv'
    BY <2>1, <2>2, <2>4
  <2>6. ASSUME NEW u \in Writers, u \notin mixed', L!Opening(u)' PROVE OpensAlone(u)'
    <3>1. u # t /\ u \notin mixed /\ OpensAlone(u)
      BY <2>2, <2>4, <2>6 DEF AloneInv, L!Opening
    <3> QED BY <2>2, <2>4, <3>1 DEF OpensAlone
  <2>7. ASSUME NEW u \in Writers, u \notin mixed', pc'[u] = "write" PROVE WritesAlone(u)'
    <3>1. u # t /\ u \notin mixed /\ WritesAlone(u)
      BY <2>2, <2>7 DEF AloneInv
    <3> QED BY <2>1, <2>2, <2>4, <3>1 DEF WritesAlone
  <2>20. PlacesInv'
    BY <2>2 DEF PlacesInv, L!Opening
  <2> QED BY <2>20, <2>3, <2>5, <2>6, <2>7 DEF AloneInv
<1>7. CASE (\E p \in L!Names \cup {None} : L!_setLogPath(p)) \/ L!_error \/ L!Midnight \/ UNCHANGED L!vars
  <2>1. UNCHANGED <<files, mstrLogDate, fs, good, pc, stamp, date, strPath, excused, asked, mixed, amiss>>
    BY <1>7 DEF L!_setLogPath, L!_error, L!Midnight, L!vars
  <2>2. today' \in L!Days /\ today <= today' /\ dirs' \subseteq L!Names /\ mstrLogPath' \in L!Names \cup {None}
        /\ errors' \in BOOLEAN
    BY <1>7 DEF L!_setLogPath, L!_error, L!Does, L!Midnight, L!vars
  <2>3. L!TypeOK' /\ LogLocals' /\ DateInv'
    BY <2>1, <2>2
  <2>4. StreamInv' /\ AloneInv'
    BY <2>1 DEF AloneInv, OpensAlone, WritesAlone, L!Opening
  <2>20. PlacesInv'
    BY <2>1, <2>2 DEF PlacesInv, L!Opening
  <2> QED BY <2>20, <2>3, <2>4
<1>8. CASE L!_close \/ \E f \in files : L!Remove(f)
  <2>1. UNCHANGED <<today, dirs, mstrLogPath, mstrLogDate, pc, stamp, date, strPath, errors, asked, mixed, amiss>>
        /\ good' = (IF fs' = None /\ fs # None THEN TRUE ELSE good)
    BY <1>8 DEF L!_close, L!Remove
  <2>2. /\ fs' \in {fs, None} /\ files' \subseteq files
        /\ excused \subseteq excused' /\ excused' \subseteq Writers
        /\ (fs' = fs /\ (fs \in files => fs \in files')) \/ \A t \in Writers : pc[t] = "write" => t \in excused'
    BY <1>8 DEF L!_close, L!Remove
  <2>3. L!TypeOK' /\ LogLocals' /\ DateInv'
    BY <2>1, <2>2
  <2>4. \A u \in Writers : L!Opening(u)' <=> L!Opening(u)
    BY <2>1 DEF L!Opening
  <2>5. StreamInv'
    BY <2>1, <2>2, <2>4
  <2>6. ASSUME NEW u \in Writers, u \notin mixed', L!Opening(u)' PROVE OpensAlone(u)'
    <3>1. OpensAlone(u)
      BY <2>1, <2>4, <2>6 DEF AloneInv
    <3> QED BY <2>1, <2>2, <2>4, <3>1 DEF OpensAlone
  <2>7. ASSUME NEW u \in Writers, u \notin mixed', pc'[u] = "write" PROVE WritesAlone(u)'
    <3>1. WritesAlone(u)
      BY <2>1, <2>7 DEF AloneInv
    <3> QED BY <2>1, <2>2, <2>4, <2>7, <3>1 DEF WritesAlone
  <2>20. PlacesInv'
    BY <2>1 DEF PlacesInv, L!Opening
  <2> QED BY <2>20, <2>3, <2>5, <2>6, <2>7 DEF AloneInv
<1> QED
  BY <1>1, <1>2, <1>3, <1>4, <1>5, <1>6, <1>7, <1>8 DEF L!Next

LEMMA LogUnit ==
    /\ Init /\ unit = "log" => L!Init
    /\ [Next]_vars /\ unit = "log" => [L!Next]_(L!vars) /\ (unit = "log")'
    /\ [Next]_vars /\ ~(unit = "log") => ~(unit = "log")'
BY DEF Init, Begin, Next, Only, vars, log, L!vars, L!disk, L!log, L!locals, L!seen

-----------------------------------------------------------------------------
(* mkdirp                                                                  *)

\* A thread makes a path of names from its first one on; what is behind it exists.
MakingInv ==
    /\ {<<>>, <<Root>>} \subseteq tree
    /\ path \in [Thread -> Seq(DirName)] /\ at \in [Thread -> Nat]
    /\ result \in [Thread -> BOOLEAN] /\ refused \in [Thread -> BOOLEAN]
    /\ \A t \in Thread : step[t] = "make" =>
        /\ path[t] # <<>> /\ at[t] \in M!First(path[t])..Len(path[t]) + 1
        /\ \A k \in M!First(path[t])..at[t] - 1 : M!Exists(SubSeq(path[t], 1, k))

MkdirpInv == M!TypeOK /\ MakingInv /\ M!TrueMeansThere /\ M!FalseForAReason

\* The first k names of a path.
LEMMA Names ==
    ASSUME NEW p \in Seq(DirName), NEW k \in 0..Len(p)
    PROVE  /\ SubSeq(p, 1, k) \in Seq(DirName) /\ Len(SubSeq(p, 1, k)) = k
           /\ \A i \in 1..k : SubSeq(p, 1, k)[i] = p[i]
           /\ k > 0 => M!Above(SubSeq(p, 1, k)) = SubSeq(p, 1, k - 1)
<1>1. \A l \in 0..Len(p) : /\ SubSeq(p, 1, l) \in Seq(DirName) /\ Len(SubSeq(p, 1, l)) = l
                           /\ \A i \in 1..l : SubSeq(p, 1, l)[i] = p[i]
  OBVIOUS
<1>2. ASSUME k > 0 PROVE M!Above(SubSeq(p, 1, k)) = SubSeq(p, 1, k - 1)
  <2> DEFINE q == SubSeq(p, 1, k)
             r == SubSeq(q, 1, k - 1)
  <2>1. q \in Seq(DirName) /\ Len(q) = k /\ k - 1 \in 0..Len(p)
    BY <1>1, <1>2
  <2>2. r \in Seq(DirName) /\ Len(r) = k - 1 /\ \A i \in 1..k - 1 : r[i] = p[i]
    BY <1>1, <2>1
  <2>3. r = SubSeq(p, 1, k - 1)
    <3>1. SubSeq(p, 1, k - 1) \in Seq(DirName) /\ Len(SubSeq(p, 1, k - 1)) = k - 1
            /\ \A i \in 1..k - 1 : SubSeq(p, 1, k - 1)[i] = p[i]
      BY <1>1, <2>1
    <3> HIDE DEF r
    <3> QED BY <2>2, <3>1, SeqEqual
  <2> QED BY <2>1, <2>3 DEF M!Above
<1> QED BY <1>1, <1>2

\* The path above a file has a name, and a first name to make.
LEMMA DirType ==
    ASSUME NEW p \in MkdirPaths
    PROVE  M!Dir(p) \in Seq(DirName) /\ M!Dir(p) # <<>> /\ M!First(M!Dir(p)) \in 1..Len(M!Dir(p)) + 1
<1>1. p \in Seq(DirName) /\ p # <<>>
  BY MkdirpAssumption DEF M!PathsAssumption
<1>2. CASE Len(p) = 1
  BY <1>1, <1>2 DEF M!Dir, M!First
<1>3. CASE Len(p) # 1
  <2>1. Len(p) \in Nat /\ Len(p) > 1 /\ Len(p) - 1 \in 0..Len(p)
    <3>1. Len(p) \in Nat \ {0}
      BY <1>1, EmptySeq
    <3>2. \A n \in Nat \ {0} : n # 1 => n > 1 /\ n - 1 \in 0..n
      OBVIOUS
    <3> QED BY <1>3, <3>1, <3>2
  <2>2. SubSeq(p, 1, Len(p) - 1) \in Seq(DirName) /\ Len(SubSeq(p, 1, Len(p) - 1)) = Len(p) - 1
    BY <1>1, <2>1, Names
  <2>3. M!Dir(p) \in Seq(DirName) /\ Len(M!Dir(p)) > 0
    BY <1>3, <2>1, <2>2 DEF M!Dir, M!Above
  <2> QED BY <2>3, EmptySeq DEF M!First
<1> QED BY <1>2, <1>3

\* What is above the first name to make: nothing, or the root.
LEMMA FirstNames ==
    ASSUME NEW p \in Seq(DirName), Len(p) >= M!First(p)
    PROVE  SubSeq(p, 1, M!First(p) - 1) \in {<<>>, <<Root>>}
<1>1. CASE p[1] = Root
  <2>1. 1 \in 0..Len(p) /\ M!First(p) = 2
    BY <1>1 DEF M!First
  <2>2. SubSeq(p, 1, 1) \in Seq(DirName) /\ Len(SubSeq(p, 1, 1)) = 1 /\ SubSeq(p, 1, 1)[1] = Root
    BY <1>1, <2>1, Names
  <2> DEFINE r == <<Root>>
             q == SubSeq(p, 1, 1)
  <2>3. r \in Seq(DirName) /\ Len(r) = 1 /\ r[1] = Root
    BY MkdirpAssumption
  <2>4. q = r
    <3> HIDE DEF r
    <3>1. q \in Seq(DirName) /\ Len(q) = Len(r) /\ \A i \in 1..Len(q) : q[i] = r[i]
      BY <2>2, <2>3
    <3> HIDE DEF q
    <3> QED BY <2>3, <3>1, SeqEqual
  <2> QED BY <2>1, <2>4
<1>2. CASE p[1] # Root
  BY <1>2, SubSeqEmpty DEF M!First
<1> QED BY <1>1, <1>2

LEMMA MkdirpInit == ASSUME M!Init PROVE MkdirpInv
BY DEF M!Init, MkdirpInv, MakingInv, M!TypeOK, M!TrueMeansThere, M!FalseForAReason, M!Done

LEMMA MkdirpStep == ASSUME MkdirpInv, [M!Next]_(M!vars) PROVE MkdirpInv'
<1> USE DEF MkdirpInv, MakingInv, M!TypeOK, M!TrueMeansThere, M!FalseForAReason, M!Done
<1>1. ASSUME NEW t \in Thread, NEW p \in MkdirPaths, M!mkdirp(t, p) PROVE MkdirpInv'
  BY <1>1, DirType DEF M!mkdirp, M!Exists
<1>2. ASSUME NEW t \in Thread, M!Make(t) PROVE MkdirpInv'
  <2> DEFINE d == SubSeq(path[t], 1, at[t])
  <2>1. step[t] = "make" /\ path[t] \in Seq(DirName) /\ at[t] \in 1..Len(path[t]) /\ path' = path
    BY <1>2 DEF M!Make, M!First
  <2>2. d \in Seq(DirName) /\ Len(d) = at[t] /\ d[1] = path[t][1] /\ M!Above(d) = SubSeq(path[t], 1, at[t] - 1)
    BY <2>1, Names
  <2>3. d # <<>> /\ Root \in DirName /\ {<<>>, <<Root>>} \subseteq tree
    BY <2>1, <2>2, EmptySeq, MkdirpAssumption
  <2>4. \/ M!Makes(d) /\ tree' = tree \cup {d} /\ M!Continue(t)
        \/ M!Exists(d) /\ tree' = tree /\ M!Continue(t)
        \/ ~M!Exists(d) /\ ~M!Makes(d) /\ M!Fail(t) /\ tree' = tree /\ refused' = refused
        \/ M!Fail(t) /\ tree' = tree /\ refused' = [refused EXCEPT ![t] = TRUE]
    BY <1>2 DEF M!Make
  <2> HIDE DEF d
  <2>5. tree \subseteq tree' /\ \A e : M!Exists(e) => M!Exists(e)'
    BY <2>4 DEF M!Exists
  <2>6. CASE M!Continue(t)
    <3>1. step'[t] = "make" /\ step' = step /\ at' = [at EXCEPT ![t] = @ + 1] /\ result' = result /\ refused' = refused
      BY <2>1, <2>6 DEF M!Continue
    <3>2. ~M!Fail(t)
      BY <2>1, <3>1 DEF M!Fail
    <3>3. d \in tree' \cup Plain
      BY <2>4, <3>2 DEF M!Exists
    <3>4. M!TypeOK'
      <4>1. tree' = tree \/ (tree' = tree \cup {d} /\ M!Above(d) \in tree /\ d \notin Plain)
        BY <2>4, <3>2 DEF M!Makes
      <4>2. \A e \in tree' \ {<<>>, <<Root>>} : M!Above(e) \in tree' /\ e \notin Plain
        BY <4>1
      <4>3. \A u \in Thread : at'[u] <= Len(path'[u]) + 1
        BY <2>1, <3>1
      <4> QED BY <3>1, <4>2, <4>3
    <3>5. MakingInv'
      <4>1. ASSUME NEW u \in Thread, step'[u] = "make",
                   NEW k \in M!First(path[u])..at'[u] - 1
            PROVE  M!Exists(SubSeq(path[u], 1, k))'
        <5>1. CASE u = t /\ k = at[t]
          BY <2>1, <3>3, <5>1 DEF M!Exists, d
        <5>2. CASE ~(u = t /\ k = at[t])
          <6>1. step[u] = "make" /\ k \in M!First(path[u])..at[u] - 1
            BY <2>1, <3>1, <4>1, <5>2 DEF M!First
          <6> QED BY <2>1, <2>5, <6>1 DEF M!Exists
        <5> QED BY <5>1, <5>2
      <4>2. ASSUME NEW u \in Thread, step'[u] = "make"
            PROVE  path[u] # <<>> /\ at'[u] \in M!First(path[u])..Len(path[u]) + 1
        BY <2>1, <3>1, <4>2 DEF M!First
      <4>3. at' \in [Thread -> Nat] /\ {<<>>, <<Root>>} \subseteq tree'
        BY <2>5, <3>1
      <4> QED BY <2>1, <3>1, <4>1, <4>2, <4>3 DEF M!First
    <3>6. M!TrueMeansThere' /\ M!FalseForAReason'
      BY <2>1, <2>5, <3>1 DEF M!First, M!Exists
    <3> QED BY <3>4, <3>5, <3>6
  <2>7. CASE M!Fail(t)
    <3>1. step' = [step EXCEPT ![t] = "idle"] /\ result' = [result EXCEPT ![t] = FALSE] /\ at' = at
      BY <2>7 DEF M!Fail
    <3>2. ~M!Continue(t) /\ tree' = tree /\ refused' \in [Thread -> BOOLEAN]
            /\ \A u \in Thread \ {t} : refused'[u] = refused[u]
      BY <2>1, <2>4, <3>1 DEF M!Continue
    <3>3. refused'[t] \/ \E k \in 1..Len(path[t]) : SubSeq(path[t], 1, k) \in Plain
      \* the directory above d was made or is a file, so a file is what is in the way
      <4>1. CASE ~M!Exists(d) /\ ~M!Makes(d)
        <5>1. SubSeq(path[t], 1, at[t] - 1) \notin tree
          BY <2>2, <4>1 DEF M!Exists, M!Makes
        <5>2. CASE at[t] = M!First(path[t])
          <6>1. SubSeq(path[t], 1, at[t] - 1) \in {<<>>, <<Root>>}
            BY <2>1, <5>2, FirstNames
          <6> QED BY <2>3, <5>1, <6>1
        <5>3. CASE at[t] # M!First(path[t])
          <6>1. at[t] - 1 \in M!First(path[t])..at[t] - 1 /\ at[t] - 1 \in 1..Len(path[t])
            BY <2>1, <5>3 DEF M!First
          <6> QED BY <2>1, <5>1, <6>1 DEF M!Exists
        <5> QED BY <5>2, <5>3
      <4>2. CASE refused' = [refused EXCEPT ![t] = TRUE]
        BY <4>2
      <4> QED BY <2>4, <3>2, <4>1, <4>2
    <3>4. M!TypeOK' /\ MakingInv'
      BY <2>1, <3>1, <3>2 DEF M!Exists, M!First
    <3>5. M!TrueMeansThere' /\ M!FalseForAReason'
      BY <2>1, <3>1, <3>2, <3>3 DEF M!Exists, M!First
    <3> QED BY <3>4, <3>5
  <2> QED BY <2>4, <2>6, <2>7
<1>3. ASSUME NEW t \in Thread, M!Return(t) PROVE MkdirpInv'
  BY <1>3 DEF M!Return, M!Exists
<1>4. CASE UNCHANGED M!vars
  BY <1>4 DEF M!vars, M!Exists
<1> QED BY <1>1, <1>2, <1>3, <1>4 DEF M!Next

LEMMA MkdirpUnit ==
    /\ Init /\ unit = "mkdirp" => M!Init
    /\ [Next]_vars /\ unit = "mkdirp" => [M!Next]_(M!vars) /\ (unit = "mkdirp")'
    /\ [Next]_vars /\ ~(unit = "mkdirp") => ~(unit = "mkdirp")'
BY DEF Init, Begin, Next, Only, vars, paths, M!vars

-----------------------------------------------------------------------------
(* A socket object                                                         *)

\* Where start() is, up to the end of createSocket, there is no socket; behind it, there
\* is one with what was asked for, as far as it has come.
PlaceInv ==
    /\ spc \in {"idle", "address", "create", "failed", "stopped"} => m_nSocketFD = None
    /\ spc \in {"bind", "listen", "connect"} => m_nSocketFD # None
    /\ spc = "up" /\ m_nSocketFD = None => kind = "CATcpServer"
    /\ spc = "bind" => S!Server
    /\ spc = "listen" => S!Server /\ want.style = "SOCK_STREAM"
    /\ spc = "connect" => ~S!Server /\ want.style = "SOCK_STREAM"
    /\ m_nSocketFD # None =>
        /\ sock[m_nSocketFD].state # "closed"
        /\ spc = "up" => sock[m_nSocketFD].state =
              IF want.style = "SOCK_DGRAM" THEN IF S!Server THEN "bound" ELSE "open"
              ELSE IF S!Server THEN "listening" ELSE "connected"
        /\ sock[m_nSocketFD].fam = want.fam /\ sock[m_nSocketFD].style = want.style
        /\ want.fam = "AF_INET" \/ want.style = "SOCK_STREAM"
        /\ m_nSocketType = want.fam /\ m_nSocketStyle = want.style

\* The addresses are those start() was given this time, if it was given one.
AddressInv ==
    /\ spc \in {"address", "create", "bind", "listen", "connect", "closing"} => target = None
    /\ spc = "create" /\ want.addr # None =>
        IF want.fam = "AF_UNIX" THEN szPath = want.addr ELSE szIP = want.addr
    /\ m_nSocketFD # None /\ want.addr # None =>
        /\ IF want.fam = "AF_UNIX" THEN unAddr = want.addr ELSE szIP = want.addr /\ inAddr = want.addr
        /\ sock[m_nSocketFD].addr \in {want.addr, None}

\* The kernel's sockets; a bound one may have any address that start() was given.
SockAddr   == S!Where \cup {S!BadHost, S!BadPort}
SockRecord == [state : {"closed", "open", "bound", "listening", "connected", "mac"},
               fam : S!Family, style : S!Style, addr : SockAddr]
SocketTable == sock \in [FD -> SockRecord]

SocketInv == S!TypeOK /\ SocketTable /\ S!NothingLeftOpen /\ PlaceInv /\ AddressInv /\ S!UsesItsAddress

LEMMA SocketNames ==
    /\ None \notin FD /\ None \notin Addr
    /\ S!BadHost \notin Addr \cup {None} /\ S!BadPort \notin Addr \cup {None} /\ S!AnyAddr \notin Addr \cup {None}
    /\ S!BadHost # S!BadPort /\ S!BadHost # S!AnyAddr /\ S!BadPort # S!AnyAddr
BY SocketAssumption DEF S!AddrAssumption, S!BadHost, S!BadPort, S!AnyAddr

LEMMA SocketInit == ASSUME S!Init PROVE SocketInv
BY SocketNames DEF S!Init, SocketInv, SocketTable, SockRecord, SockAddr, PlaceInv, AddressInv,
   S!TypeOK, S!NothingLeftOpen, S!UsesItsAddress,
       S!Wanted, S!Family, S!Style, S!Where, S!Closed

LEMMA BecomeTable ==
    ASSUME SocketTable, NEW state \in {"open", "bound", "listening", "connected"}, NEW addr \in SockAddr, S!Become(state, addr)
    PROVE  SocketTable'
<1>1. \A r \in SockRecord : [r EXCEPT !.state = state, !.addr = addr] \in SockRecord
  BY DEF SockRecord
<1> QED BY <1>1 DEF SocketTable, S!Become

LEMMA SocketTypes == ASSUME S!TypeOK, SocketTable, [S!Next]_(S!vars) PROVE (S!TypeOK /\ SocketTable)'
<1> USE SocketNames DEF S!TypeOK, SocketTable, S!Wanted, S!Family, S!Style, S!Where, SockAddr,
        S!object, S!names, S!At, S!setLastError
<1>0. /\ S!Closed \in SockRecord /\ [S!Closed EXCEPT !.state = "mac", !.style = "SOCK_DGRAM"] \in SockRecord
      /\ \A fam \in S!Family, style \in S!Style :
            [state |-> "open", fam |-> fam, style |-> style, addr |-> None] \in SockRecord
      /\ \A r \in SockRecord : r.addr \in SockAddr
  BY DEF SockRecord, S!Closed
<1>1. ASSUME NEW w \in S!Wanted, S!Begin(w) PROVE (S!TypeOK /\ SocketTable)'
  BY <1>1 DEF S!Begin
<1>2. CASE S!NoQueue
  BY <1>2 DEF S!NoQueue
<1>3. CASE S!setDomainSocketPath
  BY <1>3 DEF S!setDomainSocketPath
<1>4. CASE S!setInetSocket
  BY <1>4 DEF S!setInetSocket
<1>5. CASE S!NoAddress
  BY <1>5 DEF S!NoAddress
<1>6. CASE S!NoSocket
  BY <1>6 DEF S!NoSocket, S!Addressed
<1>7. CASE S!socketBind
  <2>1. S!Address \in SockAddr
    BY DEF S!Address, SockAddr
  <2>2. SocketTable'
    BY <1>7, <2>1, BecomeTable DEF S!socketBind
  <2> QED BY <1>7, <2>2 DEF S!socketBind, S!OnlySocket
<1>8. CASE S!socketListen
  <2>1. CASE m_nSocketFD \in FD
    <3>1. sock[m_nSocketFD].addr \in SockAddr
      BY <1>0, <2>1
    <3>2. SocketTable'
      BY <1>8, <3>1, BecomeTable DEF S!socketListen
    <3> QED BY <1>8, <3>2 DEF S!socketListen, S!OnlySocket
  <2>2. CASE m_nSocketFD = None
    <3>1. sock' = sock
      BY <1>8, <2>2 DEF S!socketListen, S!Become
    <3> QED BY <1>8, <3>1 DEF S!socketListen, S!OnlySocket
  <2> QED BY <2>1, <2>2
<1>9. CASE S!connectServer
  <2>1. (IF m_nSocketType = "AF_UNIX" THEN unAddr ELSE szIP) \in SockAddr
    BY DEF SockAddr
  <2>2. SocketTable'
    BY <1>9, <2>1, BecomeTable DEF S!connectServer
  <2> QED BY <1>9, <2>2 DEF S!connectServer, S!OnlySocket
<1>10. CASE S!StepFails
  BY <1>10 DEF S!StepFails
<1>11. CASE S!CloseFailed
  BY <1>0, <1>11 DEF S!CloseFailed, S!socketClose
<1>12. CASE S!stop
  BY <1>0, <1>12 DEF S!stop, S!socketClose
<1>13. CASE S!socketSend
  BY <1>13 DEF S!socketSend
<1>14. CASE S!SendFails
  BY <1>14 DEF S!SendFails
<1>15. ASSUME NEW fd \in FD, S!createSocket(fd) PROVE (S!TypeOK /\ SocketTable)'
  BY <1>0, <1>15 DEF S!createSocket, S!Addressed
<1>16. ASSUME NEW fd \in FD, S!getMac(fd) PROVE (S!TypeOK /\ SocketTable)'
  BY <1>0, <1>16 DEF S!getMac
<1>17. CASE UNCHANGED S!vars
  BY <1>17 DEF S!vars
<1> QED
  BY <1>1, <1>2, <1>3, <1>4, <1>5, <1>6, <1>7, <1>8, <1>9, <1>10, <1>11, <1>12, <1>13, <1>14,
     <1>15, <1>16, <1>17
     DEF S!Next

LEMMA PlaceStep ==
    ASSUME S!TypeOK, SocketTable, S!NothingLeftOpen, PlaceInv, [S!Next]_(S!vars)
    PROVE  S!NothingLeftOpen' /\ PlaceInv'
<1> USE SocketNames DEF S!NothingLeftOpen, PlaceInv, S!TypeOK, SocketTable, SockRecord, S!Wanted,
        S!Family, S!Style, S!Server, Classes,
        S!object, S!names, S!At, S!setLastError
<1>1. ASSUME NEW w \in S!Wanted, S!Begin(w) PROVE S!NothingLeftOpen' /\ PlaceInv'
  BY <1>1 DEF S!Begin
<1>2. CASE S!NoQueue
  BY <1>2 DEF S!NoQueue
<1>3. CASE S!setDomainSocketPath
  BY <1>3 DEF S!setDomainSocketPath
<1>4. CASE S!setInetSocket
  BY <1>4 DEF S!setInetSocket
<1>5. CASE S!NoAddress
  BY <1>5 DEF S!NoAddress
<1>6. CASE S!NoSocket
  BY <1>6 DEF S!NoSocket, S!Addressed
<1>7. CASE S!socketBind
  BY <1>7 DEF S!socketBind, S!Become, S!Address, S!OnlySocket
<1>8. CASE S!socketListen
  BY <1>8 DEF S!socketListen, S!Become, S!OnlySocket
<1>9. CASE S!connectServer
  BY <1>9 DEF S!connectServer, S!Become, S!OnlySocket
<1>10. CASE S!StepFails
  BY <1>10 DEF S!StepFails
<1>11. CASE S!CloseFailed
  BY <1>11 DEF S!CloseFailed, S!socketClose, S!Closed
<1>12. CASE S!stop
  BY <1>12 DEF S!stop, S!socketClose, S!Closed
<1>13. CASE S!socketSend
  BY <1>13 DEF S!socketSend
<1>14. CASE S!SendFails
  BY <1>14 DEF S!SendFails
<1>15. ASSUME NEW fd \in FD, S!createSocket(fd) PROVE S!NothingLeftOpen' /\ PlaceInv'
  BY <1>15 DEF S!createSocket, S!Addressed
<1>16. ASSUME NEW fd \in FD, S!getMac(fd) PROVE S!NothingLeftOpen' /\ PlaceInv'
  BY <1>16 DEF S!getMac, S!Closed
<1>17. CASE UNCHANGED S!vars
  BY <1>17 DEF S!vars
<1> QED
  BY <1>1, <1>2, <1>3, <1>4, <1>5, <1>6, <1>7, <1>8, <1>9, <1>10, <1>11, <1>12, <1>13, <1>14,
     <1>15, <1>16, <1>17
     DEF S!Next

LEMMA AddressStep ==
    ASSUME S!TypeOK, SocketTable, S!NothingLeftOpen, PlaceInv, AddressInv, S!UsesItsAddress, [S!Next]_(S!vars)
    PROVE  AddressInv' /\ S!UsesItsAddress'
<1> USE SocketNames DEF PlaceInv, AddressInv, S!UsesItsAddress, S!TypeOK, SocketTable, SockRecord,
        S!Wanted, S!Family, S!Style,
        S!object, S!names, S!At, S!setLastError
<1>1. ASSUME NEW w \in S!Wanted, S!Begin(w) PROVE AddressInv' /\ S!UsesItsAddress'
  BY <1>1 DEF S!Begin
<1>2. CASE S!NoQueue
  BY <1>2 DEF S!NoQueue
<1>3. CASE S!setDomainSocketPath
  BY <1>3 DEF S!setDomainSocketPath
<1>4. CASE S!setInetSocket
  BY <1>4 DEF S!setInetSocket
<1>5. CASE S!NoAddress
  BY <1>5 DEF S!NoAddress
<1>6. CASE S!NoSocket
  BY <1>6 DEF S!NoSocket, S!Addressed
<1>7. CASE S!socketBind
  BY <1>7 DEF S!socketBind, S!Become, S!Address, S!OnlySocket
<1>8. CASE S!socketListen
  BY <1>8 DEF S!socketListen, S!Become, S!OnlySocket
<1>9. CASE S!connectServer
  BY <1>9 DEF S!connectServer, S!Become, S!OnlySocket
<1>10. CASE S!StepFails
  BY <1>10 DEF S!StepFails
<1>11. CASE S!CloseFailed
  BY <1>11 DEF S!CloseFailed, S!socketClose, S!Closed
<1>12. CASE S!stop
  BY <1>12 DEF S!stop, S!socketClose, S!Closed
<1>13. CASE S!socketSend
  BY <1>13 DEF S!socketSend
<1>14. CASE S!SendFails
  BY <1>14 DEF S!SendFails
<1>15. ASSUME NEW fd \in FD, S!createSocket(fd) PROVE AddressInv' /\ S!UsesItsAddress'
  BY <1>15 DEF S!createSocket, S!Addressed
<1>16. ASSUME NEW fd \in FD, S!getMac(fd) PROVE AddressInv' /\ S!UsesItsAddress'
  BY <1>16 DEF S!getMac, S!Closed
<1>17. CASE UNCHANGED S!vars
  BY <1>17 DEF S!vars
<1> QED
  BY <1>1, <1>2, <1>3, <1>4, <1>5, <1>6, <1>7, <1>8, <1>9, <1>10, <1>11, <1>12, <1>13, <1>14,
     <1>15, <1>16, <1>17
     DEF S!Next

LEMMA SocketUnit ==
    /\ Init /\ unit = "socket" => S!Init
    /\ [Next]_vars /\ unit = "socket" => [S!Next]_(S!vars) /\ (unit = "socket")'
    /\ [Next]_vars /\ ~(unit = "socket") => ~(unit = "socket")'
BY DEF Init, Begin, Next, Only, vars, socket, S!vars, S!object, S!names

-----------------------------------------------------------------------------
(* Timers                                                                  *)

\* Between the deletion and the end of setTimer, mapTimerId has nothing under the id, or
\* the timer that was made for it and is not armed.
CallInv ==
    /\ opc[o1] # "idle" => oid[o1] \in TimerId
    /\ opc[o1] \in {"create", "store"} => mapTimerId[oid[o1]] = None
    /\ opc[o1] \in {"store", "arm"} => otm[o1] \in Timer \ armed /\ timer[otm[o1]] = oid[o1]
    /\ opc[o1] = "arm" => mapTimerId[oid[o1]] = otm[o1]

TimerInv == T!TypeOK /\ CallInv /\ T!NoTimerLost /\ T!KilledStops

LEMMA TimerInit == ASSUME T!Init PROVE TimerInv
BY DEF T!Init, TimerInv, CallInv, T!TypeOK, T!CallState, T!NoTimerLost, T!KilledStops

\* The steps of setTimer and killTimer.
LEMMA TimerCall == ASSUME TimerInv, T!CallStep(o1) PROVE TimerInv'
<1> USE TimersAssumption DEF TimerInv, CallInv, T!TypeOK, T!CallState, T!NoTimerLost,
        T!KilledStops, T!NoneAssumption,
        T!Call, T!OnlyCall, T!maps, T!kernel, T!objects, T!calls, T!threads
<1>1. CASE T!EraseCallback(o1)
  BY <1>1 DEF T!EraseCallback
<1>2. CASE T!DeleteTimer(o1)
  BY <1>2 DEF T!DeleteTimer, T!After
<1>3. ASSUME NEW t \in Timer, T!Create(o1, t) PROVE TimerInv'
  BY <1>3 DEF T!Create
<1>4. CASE T!CreateFails(o1)
  BY <1>4 DEF T!CreateFails
<1>5. CASE T!Store(o1)
  BY <1>5 DEF T!Store
<1>6. CASE T!Arm(o1)
  BY <1>6 DEF T!Arm
<1>7. CASE T!ArmFails(o1)
  BY <1>7 DEF T!ArmFails
<1> QED BY <1>1, <1>2, <1>3, <1>4, <1>5, <1>6, <1>7 DEF T!CallStep

LEMMA TimerStep == ASSUME TimerInv, [T!Next]_(T!vars) PROVE TimerInv'
<1> USE TimersAssumption DEF TimerInv, CallInv, T!TypeOK, T!CallState, T!NoTimerLost,
        T!KilledStops, T!NoneAssumption,
        T!maps, T!kernel, T!objects, T!calls, T!threads
<1>1. CASE T!CallStep(o1)
  BY <1>1, TimerCall
<1>2. CASE T!Delete(o1) \/ T!TakeTick(o1)
  BY <1>2 DEF T!Delete, T!TakeTick, T!OnlyThread
<1>3. ASSUME NEW i \in TimerId, T!KillTimer(o1, i) PROVE TimerInv'
  BY <1>3 DEF T!KillTimer, T!Call, T!OnlyCall
<1>4. ASSUME NEW i \in TimerId, NEW e \in BOOLEAN, T!SetTimer(o1, i, e) PROVE TimerInv'
  BY <1>4 DEF T!SetTimer, T!Call, T!OnlyCall
<1>5. ASSUME NEW f \in Thread, T!handle(f) PROVE TimerInv'
  <2>1. T!NoTimerLost' /\ T!KilledStops' /\ CallInv'
    BY <1>5 DEF T!handle, T!Find, T!CallNull, T!OnTimer, T!OnlyThread
  <2>2. T!TypeOK'
    <3>1. CASE T!Find(f)
      BY <3>1 DEF T!Find, T!OnlyThread
    <3>2. CASE T!CallNull(f)
      BY <3>2 DEF T!CallNull, T!OnlyThread
    <3>3. CASE T!OnTimer(f)
      BY <3>3 DEF T!OnTimer, T!OnlyThread
    <3> QED BY <1>5, <3>1, <3>2, <3>3 DEF T!handle
  <2> QED BY <2>1, <2>2
<1>6. ASSUME NEW f \in Thread, NEW t \in Timer, T!Expire(t, f) PROVE TimerInv'
  BY <1>6 DEF T!Expire
<1>7. CASE UNCHANGED T!vars
  BY <1>7 DEF T!vars
<1> QED BY <1>1, <1>2, <1>3, <1>4, <1>5, <1>6, <1>7 DEF T!Next

LEMMA TimerUnit ==
    /\ Init /\ unit = "timer" => T!Init
    /\ [Next]_vars /\ unit = "timer" => [T!Next]_(T!vars) /\ (unit = "timer")'
    /\ [Next]_vars /\ ~(unit = "timer") => ~(unit = "timer")'
BY DEF Init, Begin, Next, Only, vars, timers, T!vars, T!maps, T!kernel, T!objects, T!calls,
       T!threads

-----------------------------------------------------------------------------
(* The numbers of packets                                                  *)

\* The difference of two numbers that are d apart: the counter may have wrapped once.
Gone(d) == {d, d - (Limit - 1)}

\* The newest number is the counter; from each number to a later one the counter has
\* gone on by one for every number between.
CountInv ==
    /\ given # <<>> => given[Len(given)] = msnSequence
    /\ \A i \in 1..Len(given) : given[i] \in 1..Limit - 1
    /\ \A j \in 1..Len(given) : \A i \in 1..j : given[j] - given[i] \in Gone(j - i)

NumbersInv == N!TypeOK /\ CountInv

LEMMA GoneOn ==
    ASSUME NEW n \in 0..Limit - 1, NEW g \in 1..Limit - 1, NEW d \in 0..Limit - 3, n - g \in Gone(d)
    PROVE  (IF n + 1 >= Limit THEN 1 ELSE n + 1) - g \in Gone(d + 1)
<1>1. Limit \in Nat /\ (n - g = d \/ n - g = d - (Limit - 1))
  BY NumbersAssumption DEF Gone, N!LimitAssumption
<1>2. CASE n + 1 >= Limit
  <2>1. n = Limit - 1 /\ n - g = d
    BY <1>1, <1>2
  <2> QED BY <1>1, <1>2, <2>1 DEF Gone
<1>3. CASE ~(n + 1 >= Limit)
  BY <1>1, <1>3 DEF Gone
<1> QED BY <1>2, <1>3

LEMMA NumbersInit == ASSUME N!Init PROVE NumbersInv
BY NumbersAssumption DEF N!Init, N!LimitAssumption, NumbersInv, CountInv, N!TypeOK

LEMMA NumbersStep == ASSUME NumbersInv, [N!Next]_(N!vars) PROVE NumbersInv'
<1> USE NumbersAssumption DEF N!LimitAssumption, NumbersInv, N!TypeOK
<1>1. CASE N!Next
  <2> DEFINE old == IF Len(given) = Limit - 1 THEN Tail(given) ELSE given
             drop == IF Len(given) = Limit - 1 THEN 1 ELSE 0
             m == Len(old)
  <2>1. /\ msnSequence' = N!NextSequence /\ given' = Append(old, msnSequence')
        /\ msnSequence' \in 1..Limit - 1
    BY <1>1 DEF N!Next, N!getSequence, N!NextSequence
  <2>2. /\ old \in Seq(Nat) /\ m = Len(given) - drop /\ m \in 0..Limit - 2 /\ drop \in {0, 1}
        /\ \A i \in 1..m : i + drop \in 1..Len(given) /\ old[i] = given[i + drop]
    OBVIOUS
  <2>3. /\ \A i \in 1..Len(given) : given[i] \in 1..Limit - 1 /\ msnSequence - given[i] \in Gone(Len(given) - i)
        /\ \A j \in 1..Len(given) : \A i \in 1..j : given[j] - given[i] \in Gone(j - i)
    <3>1. ASSUME NEW i \in 1..Len(given)
          PROVE  given # <<>> /\ Len(given) \in 1..Len(given) /\ i \in 1..Len(given)
      OBVIOUS
    <3> QED BY <3>1 DEF CountInv
  <2>4. /\ given' \in Seq(Nat) /\ Len(given') = m + 1 /\ given'[m + 1] = msnSequence'
        /\ \A i \in 1..m : given'[i] = old[i]
    <3> HIDE DEF old
    <3> QED BY <2>1, <2>2
  <2> HIDE DEF m, old, drop
  <2>5. ASSUME NEW i \in 1..m PROVE msnSequence' - given'[i] \in Gone(m + 1 - i)
    <3>1. i + drop \in 1..Len(given) /\ given'[i] = given[i + drop]
      BY <2>2, <2>4
    <3>2. m - i \in 0..Limit - 3 /\ Len(given) - (i + drop) = m - i /\ m + 1 - i = (m - i) + 1
      BY <2>2
    <3>3. given'[i] \in 1..Limit - 1 /\ msnSequence - given'[i] \in Gone(m - i)
      BY <2>3, <3>1, <3>2
    <3> QED BY <2>1, <3>2, <3>3, GoneOn DEF N!NextSequence
  <2>6. ASSUME NEW j \in 1..m + 1, NEW i \in 1..j PROVE given'[j] - given'[i] \in Gone(j - i)
    <3>1. CASE i = j
      <4>1. given'[j] \in Nat
        BY <2>4
      <4>2. j - i = 0 /\ given'[j] - given'[i] = 0
        BY <2>2, <3>1, <4>1
      <4> QED BY <4>2 DEF Gone
    <3>2. CASE j = m + 1 /\ i # j
      <4>1. i \in 1..m /\ j - i = m + 1 - i
        BY <2>2, <3>2
      <4>2. given'[j] = msnSequence' /\ msnSequence' - given'[i] \in Gone(m + 1 - i)
        BY <2>4, <2>5, <3>2, <4>1
      <4> QED BY <4>1, <4>2
    <3>3. CASE j # m + 1
      <4>1. j \in 1..m /\ i \in 1..m
        BY <2>2, <3>3
      <4>2. i + drop \in 1..j + drop /\ j + drop \in 1..Len(given) /\ (j + drop) - (i + drop) = j - i
        BY <2>2, <4>1
      <4>3. given'[j] = given[j + drop] /\ given'[i] = given[i + drop]
        BY <2>2, <2>4, <4>1
      <4>4. given[j + drop] - given[i + drop] \in Gone((j + drop) - (i + drop))
        BY <2>3, <4>2
      <4> QED BY <4>2, <4>3, <4>4
    <3> QED BY <3>1, <3>2, <3>3
  <2>7. ASSUME NEW i \in 1..m + 1 PROVE given'[i] \in 1..Limit - 1
    <3>1. CASE i = m + 1
      BY <2>1, <2>4, <3>1
    <3>2. CASE i # m + 1
      <4>1. m \in Nat
        BY <2>2
      <4>2. i \in 1..m
        BY <3>2, <4>1
      <4> QED BY <2>2, <2>3, <2>4, <4>2
    <3> QED BY <3>1, <3>2
  <2>8. CountInv'
    BY <2>4, <2>6, <2>7 DEF CountInv
  <2>9. N!TypeOK'
    BY <2>1, <2>2, <2>4
  <2> QED BY <2>8, <2>9
<1>2. CASE UNCHANGED N!vars
  BY <1>2 DEF N!vars, CountInv
<1> QED BY <1>1, <1>2

\* Two of the last Limit - 1 numbers are less than Limit - 1 apart.
LEMMA NumbersApart == ASSUME NumbersInv PROVE N!NoNumberTwice
<1>1. given \in Seq(Nat) /\ Len(given) \in 0..Limit - 1 /\ Limit \in Nat
  BY NumbersAssumption DEF N!LimitAssumption, NumbersInv, N!TypeOK
<1>2. ASSUME NEW j \in 1..Len(given), NEW i \in 1..j, given[i] = given[j] PROVE i = j
  <2>1. given[j] - given[i] = 0
    BY <1>1, <1>2
  <2>2. 0 = j - i \/ 0 = j - i - (Limit - 1)
    BY <2>1 DEF NumbersInv, CountInv, Gone
  <2> QED BY <1>1, <2>2
<1>3. ASSUME NEW i \in 1..Len(given), NEW j \in 1..Len(given), given[i] = given[j] PROVE i = j
  <2>1. i \in 1..j \/ j \in 1..i
    BY <1>1
  <2> QED BY <1>2, <1>3, <2>1
<1>4. DOMAIN given = 1..Len(given)
  BY <1>1
<1> QED BY <1>3, <1>4 DEF N!NoNumberTwice, NumbersInv, CountInv

LEMMA NumbersUnit ==
    /\ Init /\ unit = "numbers" => N!Init
    /\ [Next]_vars /\ unit = "numbers" => [N!Next]_(N!vars) /\ (unit = "numbers")'
    /\ [Next]_vars /\ ~(unit = "numbers") => ~(unit = "numbers")'
BY DEF Init, Begin, Next, Only, vars, counter, N!vars

-----------------------------------------------------------------------------
(* Packets and queues, whose theorems are those of their modules           *)

LEMMA ServerUnit ==
    /\ Init /\ unit = "server" => F!Init
    /\ [Next]_vars /\ unit = "server" => [F!Next]_(F!vars) /\ (unit = "server")'
    /\ [Next]_vars /\ ~(unit = "server") => ~(unit = "server")'
BY DEF Init, Begin, Next, Only, vars, packets, F!vars

LEMMA ClientUnit ==
    /\ Init /\ unit = "client" => G!Init
    /\ [Next]_vars /\ unit = "client" => [G!Next]_(G!vars) /\ (unit = "client")'
    /\ [Next]_vars /\ ~(unit = "client") => ~(unit = "client")'
BY DEF Init, Begin, Next, Only, vars, packets, F!Init, G!Init, F!NoPacket, G!NoPacket, G!vars

LEMMA HandlerUnit ==
    /\ Init /\ unit = "handler" => Q!Init
    /\ [Next]_vars /\ unit = "handler" => [Q!Next]_(Q!vars) /\ (unit = "handler")'
    /\ [Next]_vars /\ ~(unit = "handler") => ~(unit = "handler")'
BY DEF Init, Begin, Next, Only, vars, queues, Q!vars, Q!kernel, Q!fields, Q!threads, Q!book, Q!loop

LEMMA RestartUnit ==
    /\ Init /\ unit = "restart" => R!Init
    /\ [Next]_vars /\ unit = "restart" => [R!Next]_(R!vars) /\ (unit = "restart")'
    /\ [Next]_vars /\ ~(unit = "restart") => ~(unit = "restart")'
BY DEF Init, Begin, Next, Only, vars, queues, R!vars, R!kernel, R!fields, R!threads, R!book, R!loop

-----------------------------------------------------------------------------
(* The theorems                                                            *)

\* What a unit's invariant is, in the behaviours that are of the unit.
LEMMA LogAlways == Spec => [](unit = "log" => LogIInv)
<1>1. Init => (unit = "log" => LogIInv)
  BY LogUnit, LogInit
<1>2. LogIInv /\ [L!Next]_(L!vars) => LogIInv'
  BY LogStep
<1>3. (unit = "log" => LogIInv) /\ [Next]_vars => (unit = "log" => LogIInv)'
  BY <1>2, LogUnit
<1> QED BY <1>1, <1>3, PTL DEF Spec

LEMMA MkdirpAlways == Spec => [](unit = "mkdirp" => MkdirpInv)
<1>1. Init => (unit = "mkdirp" => MkdirpInv)
  BY MkdirpUnit, MkdirpInit
<1>2. MkdirpInv /\ [M!Next]_(M!vars) => MkdirpInv'
  BY MkdirpStep
<1>3. (unit = "mkdirp" => MkdirpInv) /\ [Next]_vars => (unit = "mkdirp" => MkdirpInv)'
  BY <1>2, MkdirpUnit
<1> QED BY <1>1, <1>3, PTL DEF Spec

LEMMA SocketAlways == Spec => [](unit = "socket" => SocketInv)
<1>1. Init => (unit = "socket" => SocketInv)
  BY SocketUnit, SocketInit
<1>2. SocketInv /\ [S!Next]_(S!vars) => SocketInv'
  BY SocketTypes, PlaceStep, AddressStep DEF SocketInv
<1>3. (unit = "socket" => SocketInv) /\ [Next]_vars => (unit = "socket" => SocketInv)'
  BY <1>2, SocketUnit
<1> QED BY <1>1, <1>3, PTL DEF Spec

LEMMA TimerAlways == Spec => [](unit = "timer" => TimerInv)
<1>1. Init => (unit = "timer" => TimerInv)
  BY TimerUnit, TimerInit
<1>2. TimerInv /\ [T!Next]_(T!vars) => TimerInv'
  BY TimerStep
<1>3. (unit = "timer" => TimerInv) /\ [Next]_vars => (unit = "timer" => TimerInv)'
  BY <1>2, TimerUnit
<1> QED BY <1>1, <1>3, PTL DEF Spec

LEMMA NumbersAlways == Spec => [](unit = "numbers" => NumbersInv)
<1>1. Init => (unit = "numbers" => NumbersInv)
  BY NumbersUnit, NumbersInit
<1>2. NumbersInv /\ [N!Next]_(N!vars) => NumbersInv'
  BY NumbersStep
<1>3. (unit = "numbers" => NumbersInv) /\ [Next]_vars => (unit = "numbers" => NumbersInv)'
  BY <1>2, NumbersUnit
<1> QED BY <1>1, <1>3, PTL DEF Spec

\* Every line is in the file of its day and of the path set last, or lost for a reason, but
\* for what lines that open the file at once and failed writes cost, for any number of
\* threads, days and paths (_log, writeLog, _setLogPath, _close).
THEOREM LinesInTheirFiles == Spec => []LinesKept
<1>1. (unit = "log" => LogIInv) => LinesKept
  BY LogGives DEF LinesKept
<1> QED BY <1>1, LogAlways, PTL

\* The result of mkdirp says what became of the path, for any number of threads that make
\* any paths at a time.
THEOREM ResultsTrue == Spec => []MkdirpTells
<1>1. (unit = "mkdirp" => MkdirpInv) => MkdirpTells
  BY DEF MkdirpInv, MkdirpTells
<1> QED BY <1>1, MkdirpAlways, PTL

\* However often an object was started, stopped and failed: it leaves no socket open, and
\* serves the address it was given this time (CSocket, CATcpServer::start and the others).
THEOREM SocketsInHand == Spec => []SocketKept
<1>1. (unit = "socket" => SocketInv) => SocketKept
  BY SocketNames DEF SocketInv, PlaceInv, S!NothingLeftOpen, S!StartTells, S!KnowsItsSocket,
     S!TypeOK, SocketKept
<1> QED BY <1>1, SocketAlways, PTL

\* One object loses no timer and hears of none it has killed, for any number of ids,
\* kernel timers and threads that run handle() (_SetTimer, _KillTimer).
THEOREM TimersUnderControl == Spec => []TimersKillable
<1>1. (unit = "timer" => TimerInv) => TimersKillable
  BY DEF TimerInv, TimersKillable
<1> QED BY <1>1, TimerAlways, PTL

\* Both runCMPHandler give the application whole packets in order and answer in order;
\* the last Limit - 1 numbers are all different, over the wrap too.
THEOREM PacketsHeardInOrder == Spec => []PacketsInOrder
<1>1. F!Spec => []F!EachWayInOrder /\ []F!AnswersInOrder
  BY PacketsAssumption, F!HeardInOrder, F!AnswersMatchRequests, PTL
<1>2. G!Spec => []G!EachWayInOrder /\ []G!AnswersInOrder
  BY PacketsAssumption, G!HeardInOrder, G!AnswersMatchRequests, PTL
<1>3. Spec => [](unit = "server" => F!EachWayInOrder /\ F!AnswersInOrder)
  BY <1>1, ServerUnit, PTL DEF Spec, F!Spec
<1>4. Spec => [](unit = "client" => G!EachWayInOrder /\ G!AnswersInOrder)
  BY <1>2, ClientUnit, PTL DEF Spec, G!Spec
<1>5. (unit = "numbers" => NumbersInv) => (unit = "numbers" => N!NoNumberTwice)
  BY NumbersApart
<1> QED BY <1>3, <1>4, <1>5, NumbersAlways, PTL DEF PacketsInOrder

\* Handlers end their threads, reach whom they send to and list what they opened, also in
\* the middle of a release(), when system calls fail and when the process crashes and finds
\* its queues again.
THEOREM HandlersKeepQueues == Spec => []QueuesKept
<1>1. Q!Spec => []Q!NoUseAfterFree /\ []Q!SameAddress /\ []Q!OpenedListed
  BY QueuesAssumption, Q!EndsItsThread, Q!ReachesItsAddress, Q!ListsWhatItOpened, PTL
<1>2. R!Spec => []R!NoUseAfterFree /\ []R!SameAddress /\ []R!OpenedListed
  BY QueuesAssumption, R!EndsItsThread, R!ReachesItsAddress, R!ListsWhatItOpened, PTL
<1>3. Spec => [](unit = "handler" => Q!NoUseAfterFree /\ Q!SameAddress /\ Q!OpenedListed)
  BY <1>1, HandlerUnit, PTL DEF Spec, Q!Spec
<1>4. Spec => [](unit = "restart" => R!NoUseAfterFree /\ R!SameAddress /\ R!OpenedListed)
  BY <1>2, RestartUnit, PTL DEF Spec, R!Spec
<1> QED BY <1>3, <1>4, PTL DEF QueuesKept

\* Every variable of every part keeps its type.
THEOREM TypeCorrect == Spec => []TypeOK
<1>1. /\ F!Spec => []F!TypeOK
      /\ G!Spec => []G!TypeOK
  BY PacketsAssumption, F!TypeCorrect, G!TypeCorrect
<1>2. /\ Q!Spec => []Q!TypeOK
      /\ R!Spec => []R!TypeOK
  BY QueuesAssumption, Q!TypeCorrect, R!TypeCorrect
<1>3. Spec => [](unit = "server" => F!TypeOK) /\ [](unit = "client" => G!TypeOK)
  BY <1>1, ServerUnit, ClientUnit, PTL DEF Spec, F!Spec, G!Spec
<1>4. Spec => [](unit = "handler" => Q!TypeOK) /\ [](unit = "restart" => R!TypeOK)
  BY <1>2, HandlerUnit, RestartUnit, PTL DEF Spec, Q!Spec, R!Spec
<1>5. /\ (unit = "log" => LogIInv) => (unit = "log" => L!TypeOK)
      /\ (unit = "mkdirp" => MkdirpInv) => (unit = "mkdirp" => M!TypeOK)
      /\ (unit = "socket" => SocketInv) => (unit = "socket" => S!TypeOK)
      /\ (unit = "timer" => TimerInv) => (unit = "timer" => T!TypeOK)
      /\ (unit = "numbers" => NumbersInv) => (unit = "numbers" => N!TypeOK)
  BY DEF LogIInv, MkdirpInv, SocketInv, TimerInv, NumbersInv
<1> QED BY <1>3, <1>4, <1>5, LogAlways, MkdirpAlways, SocketAlways, TimerAlways,
           NumbersAlways, PTL DEF TypeOK
=============================================================================
