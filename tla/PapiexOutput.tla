---------------------------- MODULE PapiexOutput ----------------------------
(***************************************************************************)
(* The writer of papiex (papiex/src/output.c), run at its exit by each     *)
(* process of a session on one host.  All of them write under the same     *)
(* prefix and synchronise through the file system only.                    *)
(*                                                                         *)
(* Collated output (papiex_write_data_csv_v2) appends one row to a file    *)
(* that all share, and one of them writes the header to another.  The      *)
(* other format (papiex_write_data_csv) has a file for each process, named *)
(* by pid and a generation number.                                         *)
(*                                                                         *)
(* Text is its length, where a buffer may be too small for it, and else    *)
(* the process that wrote it.                                              *)
(***************************************************************************)
EXTENDS Integers, FiniteSets, Sequences

CONSTANTS
    Proc, NoProc,
    Pid,         \* the pid of each process, which another may have had before
    Threads,     \* num, the number of thread records of each
    HasFields,   \* is its record in slot 0 closed, so that it names its fields?
    ThreadLen,   \* length of the data of one thread in a row
    HeadLen,     \* length of the process fields, up to the last tab
    ArgsLen,     \* length of the last process field of each, the arguments
    BufLen,      \* PAPIEX_MAX_CSV_STRLEN
    Depth,       \* the directories of the prefix, one inside the other
    Collated,    \* is COLLATED_TSV among the options of each?
    MayDie       \* may a process be killed while it writes?

ASSUME OutputAssumption ==
    /\ NoProc \notin Proc
    /\ DOMAIN Pid = Proc
    /\ Threads \in [Proc -> Nat \ {0}]
    /\ HasFields \in [Proc -> BOOLEAN] /\ ArgsLen \in [Proc -> Nat]
    /\ ThreadLen \in Nat /\ HeadLen \in Nat
    /\ BufLen \in Nat \ {0} /\ Depth \in Nat \ {0}
    /\ Collated \in [Proc -> BOOLEAN] /\ MayDie \in BOOLEAN

VARIABLES
    pc,         \* where each process is
    dirs,       \* how many directories of the prefix exist
    level,      \* the directory that mkdir_p tries next
    attempt,    \* local of papiex_write_data_csv_v2
    bufLen,     \* line_max_len
    csv,        \* the shared data file: does it exist, and its rows
    hdr,        \* the shared header file: who created it, and its lines
    files,      \* the files of single processes, and the writers of their lines
    gen         \* the instance number of each process

vars == <<pc, dirs, level, attempt, bufLen, csv, hdr, files, gen>>

Loc == {"idle", "run", "open", "append", "mkdir", "header", "fill", "count",
        "row", "create", "lines", "done", "failed", "dead"}

Ended == {"done", "failed", "dead"}

Init ==
    /\ pc = [p \in Proc |-> "idle"]
    /\ dirs \in 0 .. Depth
    /\ level = [p \in Proc |-> 1]
    /\ attempt = [p \in Proc |-> 0]
    /\ bufLen = [p \in Proc |-> BufLen]
    /\ csv = [exists |-> FALSE, rows |-> <<>>]
    /\ hdr = [maker |-> NoProc, lines |-> <<>>]
    /\ files = <<>>
    /\ gen = [p \in Proc |-> 0]

Goto(p, l) == pc' = [pc EXCEPT ![p] = l]

-----------------------------------------------------------------------------
(***************************************************************************)
(* The life of a process, as far as the output depends on it.              *)
(***************************************************************************)

\* The system gives a pid to one process at a time.
Start(p) ==
    /\ pc[p] = "idle"
    /\ \A q \in Proc : Pid[q] = Pid[p] => pc[q] \in Ended \cup {"idle"}
    /\ Goto(p, "run")
    /\ UNCHANGED <<dirs, level, attempt, bufLen, csv, hdr, files, gen>>

Finish(p) ==
    /\ pc[p] = "run"
    /\ Goto(p, IF Collated[p] THEN "open" ELSE "mkdir")
    /\ UNCHANGED <<dirs, level, attempt, bufLen, csv, hdr, files, gen>>

Die(p) ==
    /\ MayDie
    /\ pc[p] \notin Ended \cup {"idle"}
    /\ Goto(p, "dead")
    /\ UNCHANGED <<dirs, level, attempt, bufLen, csv, hdr, files, gen>>

-----------------------------------------------------------------------------
(***************************************************************************)
(* mkdir_p.                                                                *)
(***************************************************************************)

\* What the caller of mkdir_p does next.
NextOpen(p) == IF Collated[p] THEN "open" ELSE "create"

\* Fault: a directory that somebody else has just made is an error.
MkdirAlone(p) ==
    /\ pc[p] = "mkdir"
    /\ dirs' = IF dirs < level[p] THEN level[p] ELSE dirs
    /\ level' = [level EXCEPT ![p] = @ + 1]
    /\ Goto(p, CASE dirs >= level[p] -> "failed"
                 [] level[p] < Depth -> "mkdir"
                 [] OTHER            -> NextOpen(p))
    /\ UNCHANGED <<attempt, bufLen, csv, hdr, files, gen>>

\* One mkdir: EEXIST is as good as success.
Mkdir(p) ==
    /\ pc[p] = "mkdir"
    /\ dirs' = IF dirs < level[p] THEN level[p] ELSE dirs
    /\ level' = [level EXCEPT ![p] = @ + 1]
    /\ Goto(p, IF level[p] < Depth THEN "mkdir" ELSE NextOpen(p))
    /\ UNCHANGED <<attempt, bufLen, csv, hdr, files, gen>>

-----------------------------------------------------------------------------
(***************************************************************************)
(* papiex_write_data_csv_v2.                                               *)
(***************************************************************************)

\* O_CREAT|O_EXCL finds no directory: make it, the first time.
OpenNoDirectory(p) ==
    /\ pc[p] = "open" /\ dirs < Depth
    /\ attempt' = [attempt EXCEPT ![p] = @ + 1]
    /\ Goto(p, IF attempt[p] = 0 THEN "mkdir" ELSE "failed")
    /\ UNCHANGED <<dirs, level, bufLen, csv, hdr, files, gen>>

OpenCreates(p) ==
    /\ pc[p] = "open" /\ dirs = Depth /\ ~csv.exists
    /\ csv' = [csv EXCEPT !.exists = TRUE]
    /\ Goto(p, "header")
    /\ UNCHANGED <<dirs, level, attempt, bufLen, hdr, files, gen>>

\* Fault: EEXIST tries again with the same flags.
OpenExistsRetries(p) ==
    /\ pc[p] = "open" /\ dirs = Depth /\ csv.exists
    /\ attempt' = [attempt EXCEPT ![p] = 1]
    /\ UNCHANGED <<pc, dirs, level, bufLen, csv, hdr, files, gen>>

\* EEXIST: the next open only appends.
OpenExists(p) ==
    /\ pc[p] = "open" /\ dirs = Depth /\ csv.exists
    /\ attempt' = [attempt EXCEPT ![p] = @ + 1]
    /\ Goto(p, "append")
    /\ UNCHANGED <<dirs, level, bufLen, csv, hdr, files, gen>>

OpenAppend(p) ==
    /\ pc[p] = "append"
    /\ Goto(p, "header")
    /\ UNCHANGED <<dirs, level, attempt, bufLen, csv, hdr, files, gen>>

\* Fault: the header file is opened without O_EXCL.
OpenHeaderShared(p) ==
    /\ pc[p] = "header"
    /\ hdr' = [hdr EXCEPT !.maker = p]
    /\ Goto(p, "fill")
    /\ UNCHANGED <<dirs, level, attempt, bufLen, csv, files, gen>>

\* The header file is created by one process, and the others only count the
\* separators that the header would have.
OpenHeader(p) ==
    /\ pc[p] = "header"
    /\ IF hdr.maker = NoProc
         THEN hdr' = [hdr EXCEPT !.maker = p] /\ Goto(p, "fill")
         ELSE UNCHANGED hdr /\ Goto(p, "count")
    /\ UNCHANGED <<dirs, level, attempt, bufLen, csv, files, gen>>

\* Fault: the descriptor does not reach the function that writes the header.
WriteHeaderNowhere(p) ==
    /\ pc[p] \in {"fill", "count"}
    /\ Goto(p, IF HasFields[p] THEN "row" ELSE "failed")
    /\ UNCHANGED <<dirs, level, attempt, bufLen, csv, hdr, files, gen>>

\* write_header_csv_v2 fails before it writes, if a plugin names no fields.
WriteHeader(p) ==
    /\ pc[p] \in {"fill", "count"}
    /\ hdr' = IF pc[p] = "fill" /\ HasFields[p]
              THEN [hdr EXCEPT !.lines = Append(@, p)]
              ELSE hdr
    /\ Goto(p, IF HasFields[p] THEN "row" ELSE "failed")
    /\ UNCHANGED <<dirs, level, attempt, bufLen, csv, files, gen>>

\* The length of what the strlcat of output.c leaves in a buffer of that size,
\* which is also what it returns: it counts what it copied, not what it should.
Strlcat(len, more, size) == IF len + more < size THEN len + more ELSE size - 1

\* The thread data between braces, clipped at PAPIEX_MAX_CSV_STRLEN whatever
\* the size of the buffer, and then the process fields up to the last tab.
ThreadsLen(p) == Strlcat(1, Threads[p] * ThreadLen, BufLen)
HeadEnd(p)    == Strlcat(ThreadsLen(p), 2 + HeadLen, bufLen[p])
LineLen(p)    == Strlcat(HeadEnd(p), ArgsLen[p], bufLen[p])

\* What the line should be, with its newline.
FullLen(p) == 1 + Threads[p] * ThreadLen + 2 + HeadLen + ArgsLen[p] + 1

\* Fields that do not fit, or a line cut before its last tab, are not written.
RowRejected(p) ==
    \/ HeadLen + ArgsLen[p] >= BufLen
    \/ HeadEnd(p) < ThreadsLen(p) + 2 + HeadLen

\* The row is filled in, its tabs are counted, and it is appended by one write
\* with its newline; write_buffer_v2 asks for more space if that fills the
\* buffer.
WriteRow(p) ==
    /\ pc[p] = "row"
    /\ LET len  == Strlcat(LineLen(p), 1, bufLen[p])
           more == ~RowRejected(p) /\ len = bufLen[p]
       IN  /\ bufLen' = IF more THEN [bufLen EXCEPT ![p] = 2 * @] ELSE bufLen
           /\ csv' = IF RowRejected(p) \/ more THEN csv
                     ELSE [csv EXCEPT !.rows =
                             Append(@, [by |-> p, whole |-> len = FullLen(p)])]
           /\ Goto(p, IF RowRejected(p) THEN "failed" ELSE IF more THEN "row" ELSE "done")
    /\ UNCHANGED <<dirs, level, attempt, hdr, files, gen>>

-----------------------------------------------------------------------------
(***************************************************************************)
(* papiex_write_data_csv.                                                  *)
(***************************************************************************)

Name(p) == <<Pid[p], gen[p]>>

\* Fault: the file is opened without O_EXCL.
CreateShared(p) ==
    /\ pc[p] = "create"
    /\ files' = IF Name(p) \in DOMAIN files THEN files
                ELSE [n \in DOMAIN files \cup {Name(p)} |->
                        IF n = Name(p) THEN <<>> ELSE files[n]]
    /\ Goto(p, "lines")
    /\ UNCHANGED <<dirs, level, attempt, bufLen, csv, hdr, gen>>

\* One open of create_process_file: EEXIST goes on with the next instance.
CreateExists(p) ==
    /\ pc[p] = "create" /\ Name(p) \in DOMAIN files
    /\ gen' = [gen EXCEPT ![p] = @ + 1]
    /\ UNCHANGED <<pc, dirs, level, attempt, bufLen, csv, hdr, files>>

Create(p) ==
    /\ pc[p] = "create" /\ Name(p) \notin DOMAIN files
    /\ files' = [n \in DOMAIN files \cup {Name(p)} |->
                   IF n = Name(p) THEN <<>> ELSE files[n]]
    /\ Goto(p, "lines")
    /\ UNCHANGED <<dirs, level, attempt, bufLen, csv, hdr, gen>>

\* The header, if write_header can make it, and a row for each thread.
LineCount(p) == Threads[p] + (IF HasFields[p] THEN 1 ELSE 0)

WriteLine(p) ==
    /\ pc[p] = "lines"
    /\ files' = [files EXCEPT ![Name(p)] = Append(@, p)]
    /\ Goto(p, IF Len(files'[Name(p)]) >= LineCount(p) THEN "done" ELSE "lines")
    /\ UNCHANGED <<dirs, level, attempt, bufLen, csv, hdr, gen>>

-----------------------------------------------------------------------------

\* What the writer does in process p.
WriterStep(p) ==
    \/ Mkdir(p)
    \/ OpenNoDirectory(p) \/ OpenCreates(p) \/ OpenExists(p) \/ OpenAppend(p)
    \/ OpenHeader(p) \/ WriteHeader(p) \/ WriteRow(p)
    \/ CreateExists(p) \/ Create(p) \/ WriteLine(p)

\* What happens to process p.
ProcessStep(p) == Start(p) \/ Finish(p) \/ Die(p)

SessionOver == \A p \in Proc : pc[p] \in Ended
Terminated == SessionOver /\ UNCHANGED vars

Next == (\E p \in Proc : WriterStep(p) \/ ProcessStep(p)) \/ Terminated

Spec == Init /\ [][Next]_vars

\* The writer runs without waiting for anything but the file system.
FairSpec == Spec /\ \A p \in Proc : WF_vars(WriterStep(p))

-----------------------------------------------------------------------------
(***************************************************************************)
(* Properties.                                                             *)
(***************************************************************************)

\* The lines of a file are all of one writer.
OneWriter(lines) == \A i, j \in DOMAIN lines : lines[i] = lines[j]

TypeOK ==
    /\ pc \in [Proc -> Loc]
    /\ dirs \in 0 .. Depth /\ level \in [Proc -> 1 .. Depth + 1]
    /\ attempt \in [Proc -> 0 .. 2]
    /\ bufLen \in [Proc -> Nat \ {0}]
    /\ csv \in [exists : BOOLEAN, rows : Seq([by : Proc, whole : BOOLEAN])]
    /\ hdr \in [maker : Proc \cup {NoProc}, lines : Seq(Proc)]
    /\ \A n \in DOMAIN files : files[n] \in Seq(Proc)
    /\ gen \in [Proc -> Nat]

\* The two shared files are what a reader of the session expects (OutputLog).
Log == INSTANCE OutputLog WITH
    header <- hdr.lines,
    rows   <- [i \in DOMAIN csv.rows |-> csv.rows[i].by]
ImplementsLog == Log!Spec

\* A row in the shared file ends with its own newline: "Appends newline, checks
\* for buffer overflow and writes or asks for more space."
RowsWhole == \A i \in DOMAIN csv.rows : csv.rows[i].whole

\* A process whose data are in order and fit writes them, whatever the others
\* of the session do at the same time, and whoever made the directories.
NeverFails == \A p \in Proc : pc[p] # "failed"

\* When the session is over and nobody was killed there is a header for its rows:
\* "we only expect a single process will end up writing the header.  All the
\* other processes should have the open fail with EEXIST".
HeaderFilled ==
    (\A p \in Proc : pc[p] \in {"done", "failed"}) /\ csv.rows # <<>> => hdr.lines # <<>>

\* Two processes never write to the same file of their own, not even if the
\* second has the pid of the first.
FilesOwned == \A n \in DOMAIN files : OneWriter(files[n])

\* Neither the loop over the flags nor the one over the names goes on for ever.
WriterEnds == \A p \in Proc : pc[p] \notin Ended \cup {"idle", "run"} ~> pc[p] \in Ended
=============================================================================
