---------------------------- MODULE DiagnosticLog -----------------------------
(***************************************************************************)
(* The diagnostic log (src/src/diagnostic-log.ts): processes that append   *)
(* records to one file, in turn by a lock that does not wait               *)
(* (src/src/lock.ts). A file that has grown to its limit is copied to .1,  *)
(* which was copied to .2 before, and .2 to .3; then it is truncated. Any  *)
(* of it may fail, upon which the writer tries again later, and a process  *)
(* may die in the midst of it.                                             *)
(*                                                                         *)
(* Records are numbered as they are written, a file holds some in a row:   *)
(* which, is all that is said of it. Which events become records, and how  *)
(* often one that repeats does, is left to Emits.                          *)
(***************************************************************************)
EXTENDS Integers

CONSTANTS
    Loggers,      \* processes that write the log
    FileLimit,    \* records after which a file is rotated: 8 MiB
    QueueLimit,   \* records that wait: 1024
    MaxEmitted    \* bound on records

ASSUME LogAssumption ==
    FileLimit \in Nat \ {0} /\ QueueLimit \in Nat /\ "unlocked" \notin Loggers

VARIABLES
    logger,     \* a writer: how far its flush is, its queue, dropped, timer
    logLock,    \* who holds diagnostic-clients.lock
    records,    \* the log itself, 0, and its older files
    written,    \* how many records have been
    emitted     \* how many were to be

logFileVars == <<logger, logLock, records, written, emitted>>

Unlocked == "unlocked"
Row(from, to) == [from |-> from, to |-> to]
NoFile == Row(0, -1)
Size(f) == records[f].to - records[f].from + 1
Latest == 0
Olders == 1..3
Files == 0..3

LogInit ==
    /\ logger = [l \in Loggers |->
          [at |-> "idle", file |-> 2, queue |-> 0, dropped |-> 0, timer |-> FALSE,
           closing |-> FALSE]]
    /\ logLock = Unlocked
    /\ records = [f \in Files |-> IF f = Latest THEN Row(1, 0) ELSE NoFile]
    /\ written = 0 /\ emitted = 0

WriterGoes(l, new) == logger' = [logger EXCEPT ![l] = new]

-----------------------------------------------------------------------------
(* enqueue, close, and the timer of a flush that failed: each flushes at once. *)

Flushes(new) == [new EXCEPT !.at = "locking"]

Emits(l) ==
    /\ logger[l].at = "idle" /\ emitted < MaxEmitted
    /\ emitted' = emitted + 1
    /\ WriterGoes(l, IF logger[l].queue >= QueueLimit THEN [logger[l] EXCEPT !.dropped = @ + 1]
                ELSE Flushes([logger[l] EXCEPT !.queue = @ + 1]))
    /\ UNCHANGED <<logLock, records, written>>
Retries(l) ==
    /\ logger[l].at = "idle" /\ logger[l].timer
    /\ WriterGoes(l, Flushes([logger[l] EXCEPT !.timer = FALSE]))
    /\ UNCHANGED <<logLock, records, written, emitted>>
Closes(l) ==
    /\ logger[l].at = "idle"
    /\ WriterGoes(l, Flushes([logger[l] EXCEPT !.closing = TRUE]))
    /\ UNCHANGED <<logLock, records, written, emitted>>

-----------------------------------------------------------------------------
(* flush. It does not give way, but other processes go on and this one may die. *)

LocksLog(l) ==
    /\ logger[l].at = "locking" /\ logLock = Unlocked
    /\ logLock' = l
    /\ WriterGoes(l, [logger[l] EXCEPT !.at = "checking"])
    /\ UNCHANGED <<records, written, emitted>>

\* rotateDiagnosticLog, before each record.
Checks(l) ==
    /\ logger[l].at = "checking"
    /\ WriterGoes(l, IF Size(Latest) >= FileLimit
                THEN [logger[l] EXCEPT !.at = "copying", !.file = 2]
                ELSE [logger[l] EXCEPT !.at = "appending"])
    /\ UNCHANGED <<logLock, records, written, emitted>>

\* Mutation of NextOlder: the files go the other way, the newest first.
NextOlderLast(f) == 3 - f

NextOlder(f) == f + 1

\* A file that is there is copied over the next older one.
Copied(l) == IF logger[l].file = Latest THEN [logger[l] EXCEPT !.at = "truncating"]
             ELSE [logger[l] EXCEPT !.file = @ - 1]
Copies(l) ==
    /\ logger[l].at = "copying"
    /\ LET f == logger[l].file IN
          records' = IF records[f] = NoFile THEN records
                     ELSE [records EXCEPT ![NextOlder(f)] = records[f]]
    /\ WriterGoes(l, Copied(l))
    /\ UNCHANGED <<logLock, written, emitted>>
\* Of a copy that fails there is nothing left or, if its process died, the beginning.
CopiesInPart(l, upTo) ==
    /\ logger[l].at = "copying" /\ records[logger[l].file] # NoFile
    /\ LET f == logger[l].file  from == records[f].from IN
          /\ from - 1 <= upTo /\ upTo < records[f].to
          /\ \E left \in {NoFile, Row(from, upTo)} :
                records' = [records EXCEPT ![NextOlder(f)] = left]
    /\ WriterGoes(l, [logger[l] EXCEPT !.at = "failing"])
    /\ UNCHANGED <<logLock, written, emitted>>
Truncates(l) ==
    /\ logger[l].at = "truncating"
    /\ records' = [records EXCEPT ![Latest] = Row(written + 1, written)]
    /\ WriterGoes(l, [logger[l] EXCEPT !.at = "appending"])
    /\ UNCHANGED <<logLock, written, emitted>>

\* How many were dropped is a record of its own; the others go in the order of the queue, each
\* after a check.
Appends(l) ==
    /\ logger[l].at = "appending" /\ logger[l].dropped + logger[l].queue > 0
    /\ written' = written + 1
    /\ records' = [records EXCEPT ![Latest].to = written + 1]
    /\ LET left == IF logger[l].dropped > 0 THEN [logger[l] EXCEPT !.dropped = 0]
                   ELSE [logger[l] EXCEPT !.queue = @ - 1]
       IN  WriterGoes(l, IF left.queue > 0 THEN [left EXCEPT !.at = "checking"] ELSE left)
    /\ UNCHANGED <<logLock, emitted>>

\* Mutation of Rests: a flush that failed is not tried again.
RestsForGood(l, failed) ==
    WriterGoes(l, [logger[l] EXCEPT !.at = IF logger[l].closing THEN "dead" ELSE "idle"])

\* A writer that closes is through, whether it has written everything or not.
Rests(l, failed) ==
    WriterGoes(l, IF logger[l].closing THEN [logger[l] EXCEPT !.at = "dead"]
             ELSE [logger[l] EXCEPT !.at = "idle", !.timer = failed])
Unlocks(l) == logLock' = IF logLock = l THEN Unlocked ELSE logLock

EndsFlush(l) ==
    /\ logger[l].at = "appending" /\ logger[l].dropped + logger[l].queue = 0
    /\ Rests(l, FALSE) /\ Unlocks(l)
    /\ UNCHANGED <<records, written, emitted>>
\* The lock is not free, or anything fails.
FailsFlush(l) ==
    /\ logger[l].at \notin {"idle", "dead"}
    /\ Rests(l, TRUE) /\ Unlocks(l)
    /\ UNCHANGED <<records, written, emitted>>

\* A kernel lock ends with its process.
Dies(l) ==
    /\ logger[l].at # "dead"
    /\ WriterGoes(l, [logger[l] EXCEPT !.at = "dead"]) /\ Unlocks(l)
    /\ UNCHANGED <<records, written, emitted>>

LogNext ==
    \E l \in Loggers :
        \/ Emits(l) \/ Retries(l) \/ Closes(l) \/ LocksLog(l) \/ Checks(l) \/ Copies(l)
        \/ \E upTo \in 0..written : CopiesInPart(l, upTo)
        \/ Truncates(l) \/ Appends(l) \/ EndsFlush(l) \/ FailsFlush(l) \/ Dies(l)

LogSpec == LogInit /\ [][LogNext]_logFileVars

-----------------------------------------------------------------------------
(* Properties. *)

In(n, f) == records[f].from <= n /\ n <= records[f].to
IsKept(n) == \E f \in Files : In(n, f)

\* The log and its older files hold the latest records, without a gap: one that is kept, all
\* later ones are, wherever a rotation failed or its process died, and however often.
KeptWithoutAGap ==
    \A n, m \in 1..written : n < m /\ IsKept(n) => IsKept(m)
\* The last of them are in the log or the file before it.
LatestAreAtHand ==
    \A n \in 1..written : n > written - FileLimit => In(n, Latest) \/ In(n, 1)
\* No file begins before one that is older.
FilesAreInOrder ==
    \A f, g \in Files :
        f < g /\ records[f] # NoFile /\ records[g] # NoFile =>
            records[g].from <= records[f].from
\* What waits will be written: the flush is under way, or a timer is set.
QueuedIsTended ==
    \A l \in Loggers :
        logger[l].queue > 0 => logger[l].at # "idle" \/ logger[l].timer

LogIsKept == KeptWithoutAGap /\ LatestAreAtHand /\ FilesAreInOrder /\ QueuedIsTended
=============================================================================
