---------------------------- MODULE PapiexClient ----------------------------
(***************************************************************************)
(* papiex as a client of libmonitor (papiex/src): the callbacks of         *)
(* monitor.c, the process-wide tables that they fill (all_threads,         *)
(* eventnames, eventcodes, eventcnt), the record each thread keeps of      *)
(* itself, and the shutdown that hands the records to the writer.          *)
(*                                                                         *)
(* The callbacks come in the order that MonitorExit allows when its        *)
(* shootdown does not give up: init_process first, init_thread in each new *)
(* thread, and, once a thread exits or calls exec, fini_thread in every    *)
(* created thread that runs application code, the exiting thread last, and *)
(* fini_process.  The main thread gets no fini_thread.  After a fork the   *)
(* model goes on as the child, whose main thread is the one that forked.   *)
(***************************************************************************)
EXTENDS Integers, FiniteSets, SequencesExt

CONSTANTS
    Thread, Main,
    NoThread,
    Wanted,        \* the sequence of events that PAPIEX_OPTIONS names
    Unknown,       \* the events that PAPI cannot map to a code
    Refused,       \* the events that PAPI may refuse to add
    PapiFails,     \* the calls of PAPI that may fail: "init", "create", "start"
    Builds,        \* the builds looked at: with HAVE_PAPI (TRUE), without (FALSE)
    InitThreads,   \* PAPIEX_INIT_THREADS
    ExitHow,       \* how the process may end: subset of {"exit", "exec"}
    AnyExiter,     \* may a created thread end the process?
    Forks,         \* may the process fork?
    LateInit,      \* may a thread be in init_thread while the process exits?
    MaxApi         \* bound: calls of papiex_start and papiex_stop by the application

Event == ToSet(Wanted)

ASSUME ClientAssumption ==
    /\ Main \in Thread /\ NoThread \notin Thread
    /\ Wanted \in Seq(Event) /\ {"zero", "null"} \cap (Event \cup Thread) = {}
    /\ Unknown \subseteq Event /\ Refused \subseteq Event
    /\ PapiFails \subseteq {"init", "create", "start"}
    /\ ExitHow \subseteq {"exit", "exec"}
    /\ Builds \subseteq BOOLEAN
    /\ {AnyExiter, Forks, LateInit} \subseteq BOOLEAN
    /\ InitThreads \in Nat \ {0} /\ MaxApi \in Nat

VARIABLES
    havePapi,   \* the build: HAVE_PAPI
    pc,         \* where each thread is
    main,       \* the main thread of the process
    enable,     \* _papiex_enable: nobody's pid, this process's, or the parent's
    rec,        \* the record that thr_data of each thread points to
    loop,       \* locals of papiex_thread_init_routine
    api,        \* the application's call that has read the counters, if any
    apiCalls,   \* calls of the application so far (a bound)
    names, codes, eventcnt,      \* eventnames, eventcodes, eventcnt
    dropped,    \* history: eventcnt has been 0, or less
    slots, num, size,            \* all_threads, all_threads_num, all_threads_size
    raced,      \* history: two threads were in the unlocked part of init_thread
    called,     \* called_process_shutdown
    how,        \* how the process ends, once that is decided
    exiter,     \* the thread that ends it
    rows        \* the argument num of papiex_write_data_csv_v2, then what it wrote

countVars == <<eventcnt, dropped>>
eventVars == <<names, codes, countVars>>
tableVars == <<slots, num, size, raced>>
exitVars  == <<called, how, exiter, rows>>
apiVars   == <<api, apiCalls>>
vars == <<havePapi, pc, main, enable, rec, loop, apiVars, eventVars, tableVars, exitVars>>

\* The set-up of the event set, and the part of it that has locals.
LoopLoc == {"addEvent", "zero", "check", "round", "seek", "code", "name", "subtract",
            "assign", "test"}
SetUpLoc == {"create", "papiStart"} \cup LoopLoc
InitLoc == {"insert", "store", "bump", "start"} \cup SetUpLoc
Loc == {"none", "boot", "run", "finished", "last", "write", "exec", "replaced",
        "crash", "over"} \cup InitLoc

Zero == "zero"   \* an event code of 0
Null == "null"   \* PAPI_NULL as an event code, and a slot never written

\* torn is history: the record was closed inside a call of papiex_start or _stop.
NoRecord == [bound |-> FALSE, evset |-> "null", depth |-> 0, used |-> 0, closed |-> 0,
             torn |-> FALSE]
NewRecord == [NoRecord EXCEPT !.bound = TRUE]

NoLoop == [i |-> 1, j |-> 0, err |-> 0, num |-> 0, cnt |-> 0]

NoCodes == [i \in DOMAIN Wanted |-> Zero]

\* papiex_init_library has run, in the library constructor.
Init ==
    /\ havePapi \in Builds
    /\ main = Main
    /\ pc = [t \in Thread |-> IF t = Main THEN "boot" ELSE "none"]
    /\ enable = "self"
    /\ rec = [t \in Thread |-> NoRecord]
    /\ loop = [t \in Thread |-> NoLoop]
    /\ api = [t \in Thread |-> "none"] /\ apiCalls = 0
    /\ names = Wanted
    /\ codes = NoCodes
    /\ eventcnt = Len(Wanted) /\ dropped = (eventcnt = 0)
    /\ slots = <<>> /\ num = 0 /\ size = 0 /\ raced = FALSE
    /\ called = FALSE
    /\ how = "none" /\ exiter = NoThread
    /\ rows = [num |-> 0, out |-> <<>>]

Goto(t, l) == pc' = [pc EXCEPT ![t] = l]

-----------------------------------------------------------------------------
(***************************************************************************)
(* init_process and init_thread.                                           *)
(***************************************************************************)

\* Fault: the table of the parent is kept.
KeptTable ==
    IF size = 0
      THEN /\ slots' = [i \in 1 .. InitThreads |-> Null]
           /\ num' = 0 /\ size' = InitThreads /\ raced' = FALSE
      ELSE UNCHANGED tableVars

\* The thread descriptor table is allocated.
FreshTable ==
    /\ slots' = [i \in 1 .. InitThreads |-> Null]
    /\ num' = 0 /\ size' = InitThreads /\ raced' = FALSE

\* Fault: a child that starts afresh does not take its own pid in the end.
NoPid == enable' = IF enable = "self" THEN "self" ELSE "off"

\* A child disables papiex, starts it afresh, and then takes its own pid.
OwnPid == enable' = "self"

\* papiex_init_library (again, in a child) and papiex_process_init_routine, up
\* to its call of papiex_thread_init_routine.  An event without a code keeps
\* its place in the lists, and eventcnt is the number of the others.
InitProcess(t) ==
    /\ pc[t] = "boot"
    /\ enable # "off"
    /\ OwnPid
    /\ LET mapped == {i \in DOMAIN Wanted : ~havePapi \/ Wanted[i] \notin Unknown} IN
         /\ names' = Wanted
         /\ codes' = [i \in DOMAIN Wanted |->
                        CASE ~havePapi       -> Zero
                          [] i \notin mapped -> Null
                          [] OTHER           -> Wanted[i]]
         /\ eventcnt' = Cardinality(mapped) /\ dropped' = (eventcnt' = 0)
    /\ FreshTable
    /\ called' = FALSE
    /\ rec' = [rec EXCEPT ![t] = NewRecord]
    /\ Goto(t, "insert")
    /\ UNCHANGED <<main, loop, how, exiter, rows>>

\* The routine returns early, without a table and a record for the thread.  In
\* the process that loaded the library papiex stays enabled.
InitProcessFails(t) ==
    /\ pc[t] = "boot"
    /\ havePapi /\ "init" \in PapiFails
    /\ enable' = IF enable = "self" THEN "self" ELSE "off"
    /\ called' = FALSE
    /\ names' = Wanted /\ codes' = NoCodes /\ eventcnt' = Len(Wanted)
    /\ dropped' = (eventcnt' = 0)
    /\ slots' = <<>> /\ num' = 0 /\ size' = 0 /\ raced' = FALSE
    /\ Goto(t, "run")
    /\ UNCHANGED <<main, rec, loop, how, exiter, rows>>

\* init_thread; a process that papiex does not measure gets no record.
InitThread(t) ==
    /\ pc[t] = "none"
    /\ exiter = NoThread
    /\ \E u \in Thread : pc[u] = "run"
    /\ IF enable = "self"
         THEN rec' = [rec EXCEPT ![t] = NewRecord] /\ Goto(t, "insert")
         ELSE UNCHANGED rec /\ Goto(t, "run")
    /\ UNCHANGED <<main, enable, loop, eventVars, tableVars, exitVars>>

\* Fault: the table grows one record too late.
MustGrowLate == num > size

\* The table doubles when this record would fill it.
MustGrow == num + 1 >= size
NewSize  == IF MustGrow THEN 2 * size ELSE size

\* Fault: the table is allocated anew, and the records are not copied.
WidenedEmpty(n) == [i \in 1 .. n |-> IF n = size THEN slots[i] ELSE Null]

\* realloc keeps what was there.
Widened(n) == [i \in 1 .. n |-> IF i <= size THEN slots[i] ELSE Null]

\* Under PAPI_lock the record enters the table.  After an initialisation that failed
\* there is none, and twice its size is nothing: if realloc gives a block, the store
\* is behind it, and is lost, or ends the process.
InsertLocked(t) ==
    /\ havePapi
    /\ pc[t] = "insert"
    /\ slots' = [Widened(NewSize) EXCEPT ![num + 1] = t]
    /\ size' = NewSize
    /\ num' = num + 1
    /\ \E l \in IF num < NewSize THEN {"create"} ELSE {"create", "crash"} : Goto(t, l)
    /\ UNCHANGED <<main, enable, rec, loop, eventVars, raced, exitVars>>

\* realloc may give no block for a size of zero (that of glibc frees the one it is
\* given).  The record is freed, and thr_data points to it still.
InsertRefused(t) ==
    /\ havePapi
    /\ pc[t] = "insert" /\ size = 0
    /\ rec' = [rec EXCEPT ![t] = NoRecord]
    /\ Goto(t, "run")
    /\ UNCHANGED <<main, enable, loop, eventVars, tableVars, exitVars>>

\* Without PAPI there is no lock, and other threads come between growing, the
\* store, and the increment.
GrowUnlocked(t) ==
    /\ ~havePapi
    /\ pc[t] = "insert"
    /\ slots' = Widened(NewSize)
    /\ size' = NewSize
    /\ raced' = (raced \/ \E u \in Thread \ {t} : pc[u] \in {"store", "bump"})
    /\ Goto(t, "store")
    /\ UNCHANGED <<main, enable, rec, loop, eventVars, num, exitVars>>

\* Three threads may have grown the table for one of them: the last store is then
\* past its end, and is lost, or ends the process.
StoreUnlocked(t) ==
    /\ pc[t] = "store"
    /\ slots' = [slots EXCEPT ![num + 1] = t]
    /\ loop' = [loop EXCEPT ![t].num = num]
    /\ \E l \in IF num < size THEN {"bump"} ELSE {"bump", "crash"} : Goto(t, l)
    /\ UNCHANGED <<main, enable, rec, eventVars, num, size, raced, exitVars>>

\* The compiler may or may not read all_threads_num again.
BumpUnlocked(t) ==
    /\ pc[t] = "bump"
    /\ \E n \in {loop[t].num, num} : num' = n + 1
    /\ loop' = [loop EXCEPT ![t] = NoLoop]
    /\ Goto(t, "start")
    /\ UNCHANGED <<main, enable, rec, eventVars, slots, size, raced, exitVars>>

-----------------------------------------------------------------------------
(***************************************************************************)
(* The event set of a thread, and the list of events that all threads      *)
(* share and any of them may shorten.                                      *)
(***************************************************************************)

SetCount(n) == eventcnt' = n /\ dropped' = (dropped \/ n <= 0)

\* What a use of eventcnt finds: no call separates those after the last PAPI_add_event,
\* and the compiler may or may not read it again.
Count(t) == {loop[t].cnt, eventcnt}

CreateEventset(t) ==
    /\ pc[t] = "create"
    /\ \/ UNCHANGED countVars
       \/ "create" \in PapiFails /\ SetCount(0)
    /\ Goto(t, "addEvent")
    /\ UNCHANGED <<rec, loop, names, codes>>

EventAdded(t) ==
    /\ pc[t] = "addEvent" /\ loop[t].i <= eventcnt
    /\ codes[loop[t].i] \notin {Zero, Null}
    /\ loop' = [loop EXCEPT ![t].i = @ + 1]
    /\ UNCHANGED <<pc, rec, eventVars>>

\* PAPI may refuse an event that it has, too.
EventRefused(t) ==
    /\ pc[t] = "addEvent" /\ loop[t].i <= eventcnt
    /\ codes[loop[t].i] \in
         {Zero, Null} \cup Refused \cup {codes[k] : k \in 1 .. loop[t].i - 1}
    /\ loop' = [loop EXCEPT ![t].err = @ + 1]
    /\ Goto(t, "zero")
    /\ UNCHANGED <<rec, eventVars>>

EventZeroed(t) ==
    /\ pc[t] = "zero"
    /\ codes' = [codes EXCEPT ![loop[t].i] = Zero]
    /\ loop' = [loop EXCEPT ![t].i = @ + 1]
    /\ Goto(t, "addEvent")
    /\ UNCHANGED <<rec, names, countVars>>

EventsDone(t) ==
    /\ pc[t] = "addEvent" /\ loop[t].i > eventcnt
    /\ loop' = [loop EXCEPT ![t].i = 1, ![t].cnt = eventcnt]
    /\ Goto(t, "check")
    /\ UNCHANGED <<rec, eventVars>>

\* Another thread may have lowered eventcnt since the loop: err may be more than it.
AllRefused(t) ==
    /\ pc[t] = "check"
    /\ loop[t].err \in Count(t)
    /\ SetCount(0)
    /\ loop' = [loop EXCEPT ![t].cnt = 0]
    /\ Goto(t, "test")
    /\ UNCHANGED <<rec, names, codes>>

SomeAdded(t) ==
    /\ pc[t] = "check"
    /\ \E n \in Count(t) \ {loop[t].err} : loop' = [loop EXCEPT ![t].cnt = n]
    /\ Goto(t, IF loop[t].err = 0 THEN "test" ELSE "round")
    /\ UNCHANGED <<rec, eventVars>>

\* The compaction: each gap, from the first event to the last, looks for the next event
\* after it, and takes it; the event stays where it was as well.
Round(t) ==
    /\ pc[t] = "round"
    /\ \E n \in Count(t) :
         \/ /\ loop[t].i > n
            /\ loop' = [loop EXCEPT ![t].cnt = n]
            /\ Goto(t, "subtract")
         \/ /\ loop[t].i <= n /\ codes[loop[t].i] = Zero
            /\ loop' = [loop EXCEPT ![t].cnt = n, ![t].j = loop[t].i + 1]
            /\ Goto(t, "seek")
         \/ /\ loop[t].i <= n /\ codes[loop[t].i] # Zero
            /\ loop' = [loop EXCEPT ![t].cnt = n, ![t].i = @ + 1]
            /\ UNCHANGED pc
    /\ UNCHANGED <<rec, eventVars>>

Seek(t) ==
    /\ pc[t] = "seek"
    /\ \E n \in Count(t) :
         \/ /\ loop[t].j > n
            /\ loop' = [loop EXCEPT ![t].cnt = n, ![t].i = @ + 1]
            /\ Goto(t, "round")
         \/ /\ loop[t].j <= n /\ codes[loop[t].j] = Zero
            /\ loop' = [loop EXCEPT ![t].cnt = n, ![t].j = @ + 1]
            /\ UNCHANGED pc
         \/ /\ loop[t].j <= n /\ codes[loop[t].j] # Zero
            /\ loop' = [loop EXCEPT ![t].cnt = n]
            /\ Goto(t, "code")
    /\ UNCHANGED <<rec, eventVars>>

CopyCode(t) ==
    /\ pc[t] = "code"
    /\ codes' = [codes EXCEPT ![loop[t].i] = codes[loop[t].j]]
    /\ Goto(t, "name")
    /\ UNCHANGED <<rec, loop, names, countVars>>

CopyName(t) ==
    /\ pc[t] = "name"
    /\ names' = [names EXCEPT ![loop[t].i] = names[loop[t].j]]
    /\ loop' = [loop EXCEPT ![t].i = @ + 1]
    /\ Goto(t, "round")
    /\ UNCHANGED <<rec, codes, countVars>>

\* eventcnt -= errcnt is a read and a write: what another thread writes between the
\* two is lost, and the difference may be negative.
Subtract(t) ==
    /\ pc[t] = "subtract"
    /\ \E n \in Count(t) : loop' = [loop EXCEPT ![t].cnt = n - loop[t].err]
    /\ Goto(t, "assign")
    /\ UNCHANGED <<rec, eventVars>>

Assign(t) ==
    /\ pc[t] = "assign"
    /\ SetCount(loop[t].cnt)
    /\ Goto(t, "test")
    /\ UNCHANGED <<rec, loop, names, codes>>

\* With events left the thread keeps its event set.
Test(t) ==
    /\ pc[t] = "test"
    /\ \E n \in Count(t) :
         \/ n # 0 /\ rec' = [rec EXCEPT ![t].evset = "own"] /\ Goto(t, "papiStart")
         \/ n = 0 /\ UNCHANGED rec /\ Goto(t, "start")
    /\ loop' = [loop EXCEPT ![t] = NoLoop]
    /\ UNCHANGED eventVars

PapiStart(t) ==
    /\ pc[t] = "papiStart"
    /\ \/ UNCHANGED countVars
       \/ "start" \in PapiFails /\ SetCount(0)
    /\ Goto(t, "start")
    /\ UNCHANGED <<rec, loop, names, codes>>

SetUp(t) ==
    /\ \/ CreateEventset(t) \/ EventAdded(t) \/ EventRefused(t) \/ EventZeroed(t)
       \/ EventsDone(t) \/ AllRefused(t) \/ SomeAdded(t) \/ Round(t) \/ Seek(t)
       \/ CopyCode(t) \/ CopyName(t) \/ Subtract(t) \/ Assign(t) \/ Test(t) \/ PapiStart(t)
    /\ UNCHANGED <<main, enable, tableVars, exitVars>>

\* Fault: whether the counters can be read is not looked at.
ReadableAlways(r) == TRUE

\* PAPI_read_ts succeeds, or there is no PAPI to ask.
Readable(r) == havePapi => r.evset = "own"

\* papiex_start(0, ""), which the build without PAPI leaves out.
Start(t) ==
    /\ pc[t] = "start"
    /\ rec' = [rec EXCEPT ![t].depth =
                 IF havePapi /\ eventcnt > 0 /\ @ = 0 /\ Readable(rec[t])
                 THEN @ + 1 ELSE @]
    /\ Goto(t, "run")
    /\ UNCHANGED <<main, enable, loop, eventVars, tableVars, exitVars>>

-----------------------------------------------------------------------------
(***************************************************************************)
(* papiex_start, papiex_stop and papiex_accum, called by the application.  *)
(* There is one caliper, 0, the one that papiex itself starts and stops:   *)
(* all other points are out of range, and papiex_accum refuses point 0.    *)
(***************************************************************************)

\* Application code runs: until the exit, in threads that the shootdown has left
\* alone or passed, and in key destructors.
AppRuns(t) == pc[t] = "finished" \/ (pc[t] = "run" /\ exiter # t)

ApiCall(t) ==
    /\ AppRuns(t) /\ rec[t].bound /\ api[t] = "none"
    /\ eventcnt > 0
    /\ apiCalls < MaxApi
    /\ apiCalls' = apiCalls + 1

\* The tests and the reading of the counters.  A point in use, or not in use, is
\* refused.  fini_thread may come before the call returns.
ApiStart(t) ==
    /\ ApiCall(t)
    /\ rec[t].depth = 0 /\ Readable(rec[t])
    /\ api' = [api EXCEPT ![t] = "start"]
    /\ UNCHANGED <<pc, main, enable, rec, loop, eventVars, tableVars, exitVars>>

ApiStop(t) ==
    /\ ApiCall(t)
    /\ rec[t].depth # 0 /\ Readable(rec[t])
    /\ api' = [api EXCEPT ![t] = "stop"]
    /\ UNCHANGED <<pc, main, enable, rec, loop, eventVars, tableVars, exitVars>>

\* The rest of the call, with what it had found before.
ApiReturn(t) ==
    /\ AppRuns(t) /\ api[t] # "none"
    /\ \/ api[t] = "start" /\ rec' = [rec EXCEPT ![t].depth = @ + 1]
       \/ api[t] = "stop"  /\ rec' = [rec EXCEPT ![t].depth = @ - 1, ![t].used = @ + 1]
    /\ api' = [api EXCEPT ![t] = "none"]
    /\ UNCHANGED <<apiCalls, pc, main, enable, loop, eventVars, tableVars, exitVars>>

\* A thread without a record, or whose record was freed: papiex_accum follows thr_data
\* at once, the others if there are events.
ApiCrash(t) ==
    /\ AppRuns(t) /\ ~rec[t].bound
    /\ apiCalls < MaxApi
    /\ pc' = [pc EXCEPT ![t] = "crash"]
    /\ UNCHANGED <<apiVars, main, enable, rec, loop, eventVars, tableVars, exitVars>>

-----------------------------------------------------------------------------
(***************************************************************************)
(* The end of a thread, of the process, and of what is known of a parent.  *)
(***************************************************************************)

\* Fault: papiex_stop is left out.
StopForgotten(r) == r

\* papiex_stop(0), which reads the event set of the record.
Stop(r) ==
    IF eventcnt > 0 /\ r.depth > 0 /\ r.evset = "own"
    THEN [r EXCEPT !.depth = @ - 1, !.used = @ + 1]
    ELSE r

\* papiex_thread_shutdown_routine: stop, the end time and the plugin data, and the
\* mark that the record is complete.  The mark overwrites papi_eventset, which is
\* what the release of the event set then reads, in vain.
ShutdownThread(t) ==
    LET r == [Stop(rec[t]) EXCEPT !.closed = @ + 1, !.evset = "mark"]
    IN  rec' = [rec EXCEPT ![t] = [r EXCEPT !.torn = @ \/ api[t] # "none"]]

\* fini_thread in a thread that ends, or that the shootdown has reached, in the
\* middle of a call of papiex_start or papiex_stop perhaps.  One whose record was
\* freed writes into that memory, or crashes.
FiniThread(t) ==
    LET done == IF exiter = t THEN "last" ELSE "finished" IN
    /\ pc[t] = "run" /\ t # main
    /\ api[t] = "none" \/ exiter \notin {NoThread, t}
    /\ exiter = t => \A u \in Thread \ {t, main} : pc[u] # "run"
    /\ IF enable = "self" /\ rec[t].bound THEN ShutdownThread(t) ELSE UNCHANGED rec
    /\ \/ Goto(t, done)
       \/ enable = "self" /\ ~rec[t].bound /\ Goto(t, "crash")
    /\ UNCHANGED <<main, enable, loop, eventVars, tableVars, exitVars>>

\* A thread begins to exit, or is about to exec.
Exit(t) ==
    /\ pc[t] = "run" /\ api[t] = "none" /\ exiter = NoThread
    /\ AnyExiter \/ t = main
    /\ LateInit \/ \A u \in Thread : pc[u] \notin InitLoc
    /\ exiter' = t
    /\ how' \in ExitHow
    /\ UNCHANGED <<pc, main, enable, rec, loop, eventVars, tableVars, called, rows>>

\* fini_process comes when the shootdown has seen everybody's fini_thread.
AtFiniProcess(t) ==
    /\ exiter = t
    /\ pc[t] = IF t = main THEN "run" ELSE "last"
    /\ \A u \in Thread \ {t, main} : pc[u] # "run"

\* The callback skips a process it does not measure, and a duplicate.
FiniProcessSkipped(t) ==
    /\ AtFiniProcess(t)
    /\ enable # "self" \/ called
    /\ enable' = IF enable = "self" THEN "off" ELSE enable
    /\ Goto(t, "over")
    /\ UNCHANGED <<main, rec, loop, eventVars, tableVars, exitVars>>

\* Before an exec nothing is written.
FiniProcessExec(t) ==
    /\ AtFiniProcess(t)
    /\ enable = "self" /\ ~called /\ how = "exec"
    /\ called' = TRUE
    /\ enable' = "off"
    /\ Goto(t, "exec")
    /\ UNCHANGED <<main, rec, loop, eventVars, tableVars, how, exiter, rows>>

\* Fault: the main thread is not shut down.
FiniProcessOnlyWrites(t) ==
    /\ AtFiniProcess(t)
    /\ enable = "self" /\ ~called /\ how = "exit"
    /\ called' = TRUE
    /\ rows' = [rows EXCEPT !.num = num]
    /\ Goto(t, "write")
    /\ UNCHANGED <<main, enable, rec, loop, eventVars, tableVars, how, exiter>>

\* "Shut down main thread" shuts down the record of the thread that calls,
\* whichever record it is given; with none it dereferences a null pointer, and if its
\* record was freed the table, which has no entry then, does not survive.
FiniProcess(t) ==
    /\ AtFiniProcess(t)
    /\ enable = "self" /\ ~called /\ how = "exit"
    /\ called' = TRUE
    /\ IF rec[t].bound
         THEN /\ ShutdownThread(t)
              /\ rows' = [rows EXCEPT !.num = num]
              /\ Goto(t, "write")
         ELSE Goto(t, "crash") /\ UNCHANGED <<rec, rows>>
    /\ UNCHANGED <<main, enable, loop, eventVars, tableVars, how, exiter>>

\* papiex_write_data_csv_v2 writes the rows it was given, past the end of the table if
\* it must; papiex is off.
Write(t) ==
    /\ pc[t] = "write"
    /\ rows' = [rows EXCEPT !.out = Widened(rows.num)]
    /\ enable' = "off"
    /\ Goto(t, "over")
    /\ UNCHANGED <<main, rec, loop, eventVars, tableVars, called, how, exiter>>

\* The new image, which starts with new memory, or a failed exec: monitor starts
\* nothing again, and would be told of papiex that it is off.
Exec(t) ==
    /\ pc[t] = "exec"
    /\ \E l \in {"replaced", "over"} : Goto(t, l)
    /\ UNCHANGED <<main, enable, rec, loop, eventVars, tableVars, exitVars>>

\* fork: from here on this is the child, with a copy of everything and one
\* thread.  Its init_process comes, unless monitor lost it (MonitorProcess).
Fork(t) ==
    /\ Forks
    /\ pc[t] = "run" /\ api[t] = "none" /\ exiter = NoThread
    /\ enable = "self"
    /\ enable' = "other"
    /\ main' = t
    /\ \E l \in {"boot", "run"} :
         pc' = [u \in Thread |-> IF u = t THEN l ELSE "none"]
    /\ rec' = [u \in Thread |-> IF u = t THEN rec[t] ELSE NoRecord]
    /\ loop' = [u \in Thread |-> NoLoop]
    /\ api' = [u \in Thread |-> "none"]
    /\ UNCHANGED <<apiCalls, eventVars, tableVars, exitVars>>

-----------------------------------------------------------------------------

InitStep(t) ==
    \/ InitProcess(t) \/ InitProcessFails(t) \/ InitThread(t)
    \/ InsertLocked(t) \/ InsertRefused(t)
    \/ GrowUnlocked(t) \/ StoreUnlocked(t) \/ BumpUnlocked(t)
    \/ SetUp(t) \/ Start(t)

ApiStep(t) ==
    \/ ApiStart(t) \/ ApiStop(t) \/ ApiReturn(t) \/ ApiCrash(t)

EndStep(t) ==
    \/ FiniThread(t) \/ Exit(t)
    \/ FiniProcessSkipped(t) \/ FiniProcessExec(t) \/ FiniProcess(t)
    \/ Write(t) \/ Exec(t)

Ended == \E t \in Thread : pc[t] \in {"over", "crash", "replaced"}

\* Nothing that happens after the process has ended matters.
Terminated == Ended /\ UNCHANGED vars

Next ==
    \/ /\ ~Ended /\ UNCHANGED havePapi
       /\ \E t \in Thread :
            \/ (InitStep(t) \/ EndStep(t)) /\ UNCHANGED apiVars
            \/ ApiStep(t) \/ Fork(t)
    \/ Terminated

Spec == Init /\ [][Next]_vars

-----------------------------------------------------------------------------
(***************************************************************************)
(* Properties.                                                             *)
(***************************************************************************)

Record == [bound : BOOLEAN, evset : {"null", "own", "mark"}, depth : -1 .. 1,
           used : Nat, closed : Nat, torn : BOOLEAN]
Locals == [i : Nat, j : Nat, err : Nat, num : Nat, cnt : Int]
Code == Event \cup {Zero, Null}

TypeOK ==
    /\ havePapi \in Builds /\ raced \in BOOLEAN
    /\ pc \in [Thread -> Loc]
    /\ main \in Thread
    /\ enable \in {"self", "other", "off"}
    /\ rec \in [Thread -> Record]
    /\ \A t \in Thread : rec[t].depth < 0 => rec[t].torn
    /\ api \in [Thread -> {"none", "start", "stop"}] /\ apiCalls \in 0 .. MaxApi
    /\ loop \in [Thread -> Locals]
    /\ names \in Seq(Event) /\ codes \in Seq(Code)
    /\ eventcnt \in Int /\ eventcnt <= Len(names) /\ dropped \in BOOLEAN
    /\ slots \in Seq(Thread \cup {Null}) /\ Len(slots) = size
    /\ num \in Nat /\ (~raced /\ size > 0 => num <= size)
    /\ called \in BOOLEAN
    /\ how \in {"none", "exit", "exec"} /\ exiter \in Thread \cup {NoThread}
    /\ rows \in [num : Nat, out : Seq(Thread \cup {Null})]

Written == \E t \in Thread : pc[t] = "over" /\ rows.num > 0

\* Every thread that papiex initialised, and is past its entry into the table,
\* has exactly one slot below all_threads_num, and nobody else has one: "Link in
\* the thread struct to the process wide table for later retrieval".  Without PAPI
\* there is no lock: this holds as long as no two threads entered at a time.
TableWhole ==
    enable = "self" /\ size > 0 /\ ~raced =>
      \A t \in Thread :
        pc[t] \notin {"insert", "store", "bump", "boot", "crash"} =>
          Cardinality({i \in 1 .. num : slots[i] = t}) = IF rec[t].bound THEN 1 ELSE 0

\* What is written is one row for each thread that papiex initialised, of a
\* record that was closed once, by its own thread.
RowsClosed ==
    Written /\ ~raced => \A t \in Thread :
      Cardinality({i \in DOMAIN rows.out : rows.out[i] = t}) = rec[t].closed
      /\ rec[t].closed = IF rec[t].bound THEN 1 ELSE 0

\* Built with PAPI, and whatever the application does with papiex_start and papiex_stop,
\* the caliper of a closed record was started and stopped in pairs, at least once,
\* unless the events were dropped for all threads at some time, or the shutdown came
\* inside such a call.  Once dropped they may come back: a thread that lost the
\* update of eventcnt writes its own, and the others have no event set then.
CalipersBalanced ==
    \A t \in Thread : havePapi /\ rec[t].closed > 0 /\ ~rec[t].torn /\ ~dropped =>
      rec[t].depth = 0 /\ rec[t].used >= 1

\* "memory consistency flag that shows everything is up to date" (thread.c:509):
\* built with PAPI, a closed record does not change any more, also when its thread,
\* which the shootdown has interrupted, goes on to call papiex.
ClosedSettled ==
    [][\A t \in Thread : havePapi /\ rec[t].closed > 0 /\ ~rec[t].torn =>
         rec'[t] = rec[t] \/ pc'[t] \in {"none", "insert"}]_vars

\* A row of a child is of a thread of the child: nothing that the parent had in
\* its table when it forked is written again.
ChildRowsOwn ==
    ~raced /\ size > 0 => \A i \in DOMAIN rows.out : rows.out[i] \in Thread /\ rec[rows.out[i]].bound

\* A process that ends has written its data, unless it never got a thread
\* descriptor table: "Skip those shutdowns that happen just before an exec.  We
\* will catch these at init."
AlwaysWritten ==
    \A t \in Thread : pc[t] = "over" =>
      enable = "other" \/ size = 0 \/ how = "exec" \/ rows.num > 0
=============================================================================
