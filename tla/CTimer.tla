-------------------------------- MODULE CTimer --------------------------------
(***************************************************************************)
(* objectHandler/CTimer.cpp and the timers of objectHandler/CObject.cpp.   *)
(*                                                                         *)
(* _SetTimer makes a POSIX timer for a callback id and remembers callback  *)
(* and timer in two global maps; when the timer is due, the C library runs *)
(* handle() on a thread of its own, which finds the callback by the id.    *)
(* CObject registers one callback for all objects: it calls whatever the   *)
(* global variable object points to, the last object that set a timer.    *)
(* Neither the maps nor object are locked.                                 *)
(***************************************************************************)
EXTENDS Naturals, FiniteSets

CONSTANTS
    Object,   \* the CObjects that use timers, each on a thread of its own
    TimerId,  \* the callback ids they use
    Timer,    \* bound: kernel timers; timer_create fails without a free one
    Thread,   \* bound: handle() calls under way
    None      \* no timer, no object, no id

NoneAssumption == None \notin Object \cup TimerId \cup Timer

VARIABLES
    mapCBF,         \* ids with a callback
    mapTimerId,     \* id -> its timer or None
    timer,          \* kernel timer -> the id it passes to handle, None: free
    armed,          \* timers that will be due
    object,         \* the last object that set a timer
    mnTimerEventId, \* objects that want a TIMER message
    opc, oid, otm,  \* objects: where in a call, its nId, its timerid
    setting,        \* objects whose call is setTimer
    fpc, fid,       \* threads: where in handle, the id
    tick,           \* objects with a TIMER message waiting
    want,           \* ghost: object -> ids it set, with success, and has not killed
    gone, dead      \* objects deleted; the process called a null function

maps == <<mapCBF, mapTimerId>>
kernel == <<timer, armed>>
objects == <<object, mnTimerEventId>>
calls == <<opc, oid, otm, setting>>
threads == <<fpc, fid>>
vars == <<maps, kernel, objects, calls, threads, tick, want, gone, dead>>

CallState == {"idle", "kill", "delete", "create", "store", "arm"}

Init ==
    /\ mapCBF = {} /\ mapTimerId = [i \in TimerId |-> None]
    /\ timer = [t \in Timer |-> None] /\ armed = {}
    /\ object = None /\ mnTimerEventId = {}
    /\ opc = [o \in Object |-> "idle"] /\ oid = [o \in Object |-> None]
    /\ otm = [o \in Object |-> None] /\ setting = {}
    /\ fpc = [f \in Thread |-> "idle"] /\ fid = [f \in Thread |-> None]
    /\ tick = {} /\ want = [o \in Object |-> {}] /\ gone = {} /\ dead = FALSE

-----------------------------------------------------------------------------
(* setTimer and killTimer.                                                 *)

Call(o, from, to) == ~dead /\ opc[o] = from /\ opc' = [opc EXCEPT ![o] = to]

OnlyCall == UNCHANGED <<threads, tick, gone, dead>>

SetTimer(o, i, event) ==
    /\ Call(o, "idle", "kill") /\ o \notin gone
    /\ oid' = [oid EXCEPT ![o] = i] /\ setting' = setting \cup {o}
    /\ object' = o /\ want' = [want EXCEPT ![o] = @ \ {i}]
    /\ mnTimerEventId' = IF event THEN mnTimerEventId \cup {o} ELSE mnTimerEventId \ {o}
    /\ OnlyCall /\ UNCHANGED <<maps, kernel, otm>>

KillTimer(o, i) ==
    /\ Call(o, "idle", "kill") /\ o \notin gone
    /\ oid' = [oid EXCEPT ![o] = i] /\ want' = [want EXCEPT ![o] = @ \ {i}]
    /\ OnlyCall /\ UNCHANGED <<maps, kernel, objects, otm, setting>>

EraseCallback(o) ==
    /\ Call(o, "kill", "delete") /\ mapCBF' = mapCBF \ {oid[o]}
    /\ OnlyCall /\ UNCHANGED <<mapTimerId, kernel, objects, oid, otm, setting, want>>

After(o) == IF o \in setting THEN "create" ELSE "idle"

BugDeleteTimerSkipped(o) ==
    /\ Call(o, "delete", After(o))
    /\ OnlyCall /\ UNCHANGED <<maps, kernel, objects, oid, otm, setting, want>>

DeleteTimer(o) ==
    LET t == mapTimerId[oid[o]] IN
    /\ Call(o, "delete", After(o))
    /\ IF t = None THEN UNCHANGED kernel
       ELSE timer' = [timer EXCEPT ![t] = None] /\ armed' = armed \ {t}
    /\ mapTimerId' = [mapTimerId EXCEPT ![oid[o]] = None]
    /\ OnlyCall /\ UNCHANGED <<mapCBF, objects, oid, otm, setting, want>>

Create(o, t) ==
    /\ Call(o, "create", "store") /\ timer[t] = None
    /\ timer' = [timer EXCEPT ![t] = oid[o]] /\ otm' = [otm EXCEPT ![o] = t]
    /\ OnlyCall /\ UNCHANGED <<maps, armed, objects, oid, setting, want>>

CreateFails(o) ==
    /\ Call(o, "create", "idle") /\ setting' = setting \ {o}
    /\ OnlyCall /\ UNCHANGED <<maps, kernel, objects, oid, otm, want>>

Store(o) ==
    /\ Call(o, "store", "arm") /\ mapCBF' = mapCBF \cup {oid[o]}
    /\ mapTimerId' = [mapTimerId EXCEPT ![oid[o]] = otm[o]]
    /\ OnlyCall /\ UNCHANGED <<kernel, objects, oid, otm, setting, want>>

\* The delay and the interval are positive, so the timer is due, and again.
Arm(o) ==
    /\ Call(o, "arm", "idle") /\ setting' = setting \ {o}
    /\ armed' = armed \cup ({otm[o]} \cap {t \in Timer : timer[t] # None})
    /\ want' = [want EXCEPT ![o] = @ \cup {oid[o]}]
    /\ OnlyCall /\ UNCHANGED <<maps, timer, objects, oid, otm>>

\* timer_settime fails: the maps forget a timer that stays in the kernel.
ArmFails(o) ==
    /\ Call(o, "arm", "idle") /\ setting' = setting \ {o}
    /\ mapCBF' = mapCBF \ {oid[o]} /\ mapTimerId' = [mapTimerId EXCEPT ![oid[o]] = None]
    /\ OnlyCall /\ UNCHANGED <<kernel, objects, oid, otm, want>>

\* ~CObject kills no timer, and object still points to what is deleted.
Delete(o) ==
    /\ ~dead /\ o \notin gone /\ opc[o] = "idle" /\ gone' = gone \cup {o}
    /\ UNCHANGED <<maps, kernel, objects, calls, threads, tick, want, dead>>

-----------------------------------------------------------------------------
(* A timer that is due.                                                    *)

Expire(t, f) ==
    /\ ~dead /\ t \in armed /\ fpc[f] = "idle"
    /\ fpc' = [fpc EXCEPT ![f] = "find"] /\ fid' = [fid EXCEPT ![f] = timer[t]]
    /\ UNCHANGED <<maps, kernel, objects, calls, tick, want, gone, dead>>

OnlyThread == UNCHANGED <<maps, kernel, objects, calls, want, gone>>

Find(f) ==
    /\ ~dead /\ fpc[f] = "find"
    /\ fpc' = [fpc EXCEPT ![f] = IF fid[f] \in mapCBF THEN "call" ELSE "idle"]
    /\ OnlyThread /\ UNCHANGED <<fid, tick, dead>>

\* (*mapCBF[id])(id), looked up again: operator[] gives null for an id that
\* was erased meanwhile.
CallNull(f) ==
    /\ ~dead /\ fpc[f] = "call" /\ fid[f] \notin mapCBF
    /\ dead' = TRUE /\ OnlyThread /\ UNCHANGED <<threads, tick>>

BugOnTimerDirect(f) ==
    /\ ~dead /\ fpc[f] = "call" /\ fid[f] \in mapCBF
    /\ fpc' = [fpc EXCEPT ![f] = "idle"]
    /\ OnlyThread /\ UNCHANGED <<fid, tick, dead>>

\* _onTimer: the TIMER message of the object, if it asked for one.  What a
\* deleted object does is open; here, nothing.
OnTimer(f) ==
    /\ ~dead /\ fpc[f] = "call" /\ fid[f] \in mapCBF
    /\ fpc' = [fpc EXCEPT ![f] = "idle"]
    /\ tick' = tick \cup (({object} \cap mnTimerEventId) \ gone)
    /\ OnlyThread /\ UNCHANGED <<fid, dead>>

\* The object's message thread takes the message.
TakeTick(o) ==
    /\ ~dead /\ o \in tick /\ tick' = tick \ {o}
    /\ OnlyThread /\ UNCHANGED <<threads, dead>>

-----------------------------------------------------------------------------
CallStep(o) ==
    \/ EraseCallback(o) \/ DeleteTimer(o) \/ CreateFails(o) \/ Store(o) \/ Arm(o) \/ ArmFails(o)
    \/ \E t \in Timer : Create(o, t)

handle(f) == Find(f) \/ CallNull(f) \/ OnTimer(f)

Next ==
    \/ \E o \in Object : CallStep(o) \/ Delete(o) \/ TakeTick(o)
    \/ \E o \in Object, i \in TimerId : KillTimer(o, i) \/ \E e \in BOOLEAN : SetTimer(o, i, e)
    \/ \E f \in Thread : handle(f) \/ \E t \in Timer : Expire(t, f)

Spec == Init /\ [][Next]_vars

\* Threads run and armed timers are due; nobody has to set or kill one.
Fairness ==
    /\ \A o \in Object : WF_vars(CallStep(o)) /\ WF_vars(TakeTick(o))
    /\ \A f \in Thread : WF_vars(handle(f))
    /\ \A t \in Timer : SF_vars(\E f \in Thread : Expire(t, f))

-----------------------------------------------------------------------------
(* Properties                                                              *)

TypeOK ==
    /\ mapCBF \subseteq TimerId /\ mapTimerId \in [TimerId -> Timer \cup {None}]
    /\ timer \in [Timer -> TimerId \cup {None}] /\ armed \subseteq Timer
    /\ object \in Object \cup {None} /\ mnTimerEventId \subseteq Object
    /\ opc \in [Object -> CallState] /\ oid \in [Object -> TimerId \cup {None}]
    /\ otm \in [Object -> Timer \cup {None}] /\ setting \subseteq Object
    /\ fpc \in [Thread -> {"idle", "find", "call"}] /\ fid \in [Thread -> TimerId \cup {None}]
    /\ tick \subseteq Object /\ want \in [Object -> SUBSET TimerId]
    /\ gone \subseteq Object /\ dead \in BOOLEAN

\* A timer that will be due can be killed: mapTimerId has it under the id it
\* passes to handle, so there is at most one for an id, and one that nobody
\* wants any more is only there while _KillTimer is on its way to delete it.
NoTimerLost == \A t \in armed : timer[t] # None /\ mapTimerId[timer[t]] = t

\* Nothing is due for an id that was killed, once killTimer has returned,
\* however often and in whatever order ids were set, killed or failed.
KilledStops ==
    \A t \in armed : \/ \E o \in Object : timer[t] \in want[o]
                     \/ \E o \in Object : opc[o] # "idle" /\ oid[o] = timer[t]

\* "after first start then every time due" (CTimer.cpp): an object that has set
\* a timer with an event, and neither killed it nor been deleted, gets a TIMER
\* message again and again, as long as the process lives.
EveryTimeDue ==
    \A o \in Object, i \in TimerId :
        <>[](~dead /\ i \in want[o] /\ o \in mnTimerEventId \ gone) => []<>(o \in tick)
=============================================================================
