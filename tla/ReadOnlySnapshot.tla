-------------------------- MODULE ReadOnlySnapshot --------------------------
(***************************************************************************)
(* storage/read_only.py: a private copy of the database, for the host      *)
(* contract and the diagnostics, taken with plain file reads while other   *)
(* processes write.                                                        *)
(*                                                                         *)
(* The database is its file and its write-ahead log: a commit appends one  *)
(* frame per page to the log, a checkpoint copies them to the file, then   *)
(* the log is written again from its start.                                *)
(***************************************************************************)
EXTENDS Naturals, Sequences

CONSTANTS
    Pages,     \* pages of the database; every commit writes all of them
    Slots,     \* frames of the log: the checkpoint runs when it is full
    MaxCommit  \* bound of the commits

VARIABLES
    file,     \* per page: the commit it is of
    log,      \* per slot: the commit and the salt of the frame last written there
    writer,   \* the next slot, the salt, the last commit
    capture,  \* the copy being taken, and how much of it is verified
    view      \* what the last copy shows, and the commits it may show

snapVars == <<file, log, writer, capture, view>>

ASSUME SnapConstants == Pages \in Nat \ {0} /\ Slots \in Nat /\ Slots % Pages = 0

-----------------------------------------------------------------------------
\* The frames of a commit go to the log one after the other; the last commits.
AppendFrame ==
    LET slot == writer.slot
        ends == slot % Pages = 0
    IN  /\ slot <= Slots
        /\ writer.last < MaxCommit
        /\ log' = [log EXCEPT ![slot] = [of |-> writer.last + 1, salt |-> writer.salt]]
        /\ writer' = [writer EXCEPT !.slot = slot + 1, !.last = IF ends THEN @ + 1 ELSE @]
        /\ UNCHANGED <<file, capture, view>>

CheckpointPage ==
    /\ writer.slot > Slots
    /\ \E page \in {n \in 1..Pages : file[n] # writer.last} : file' = [file EXCEPT ![page] = writer.last]
    /\ UNCHANGED <<log, writer, capture, view>>

\* The log starts again; what is left of it has the old salt.
RestartLog ==
    /\ writer.slot > Slots
    /\ \A page \in 1..Pages : file[page] = writer.last
    /\ writer' = [writer EXCEPT !.slot = 1, !.salt = @ + 1]
    /\ UNCHANGED <<file, log, capture, view>>

\* What SQLite makes of a file and a log: the commits that are whole.
Recovered(f, w) ==
    LET whole == {n \in 1..Slots : /\ n % Pages = 0
                                   /\ \A k \in 1..n : w[k].salt = w[1].salt /\ w[k].salt > 0}
    IN  IF whole = {} THEN f
        ELSE [page \in 1..Pages |-> w[CHOOSE n \in whole : \A k \in whole : k <= n].of]

-----------------------------------------------------------------------------
NoCapture == [op |-> "none"]
NoView == [pages |-> << >>, from |-> 0, upto |-> 0]

\* One pass over the sources reads the pages of the file, then the slots of the log.
ReadOf(k) == IF k <= Pages THEN [of |-> file[k], salt |-> 0] ELSE log[k - Pages]

BeginCapture ==
    /\ capture = NoCapture
    /\ capture' = [op |-> "copy", copied |-> << >>, checked |-> 0, since |-> writer.last]
    /\ view' = NoView
    /\ UNCHANGED <<file, log, writer>>

WrongCopyNext ==   \* BUG (SnapshotIsCommitted): the file alone is copied, and not looked at again
    /\ capture.op = "copy"
    /\ LET n == Len(capture.copied) + 1 IN
        capture' = IF n < Pages THEN [capture EXCEPT !.copied = Append(@, ReadOf(n))]
                   ELSE [capture EXCEPT !.copied = @ \o <<ReadOf(n)>> \o [k \in 1..Slots |-> [of |-> 0, salt |-> 0]],
                                        !.op = "verify", !.checked = Pages + Slots]
    /\ UNCHANGED <<file, log, writer, view>>

CopyNext ==
    /\ capture.op = "copy"
    /\ LET n == Len(capture.copied) + 1 IN
        capture' = [capture EXCEPT !.copied = @ \o <<ReadOf(n)>>,
                                   !.op = IF n < Pages + Slots THEN "copy" ELSE "verify"]
    /\ UNCHANGED <<file, log, writer, view>>

\* The generations (inode, size, times) are compared as well, but two writes
\* within one tick of the file system's clock look alike: no help is counted on.
Stable(k) == capture.copied[k] = ReadOf(k)

\* The second pass hashes the sources again; source_changed_during_capture.
VerifyNext ==
    /\ capture.op = "verify" /\ capture.checked < Pages + Slots
    /\ capture' = IF Stable(capture.checked + 1)
                  THEN [capture EXCEPT !.checked = @ + 1]
                  ELSE NoCapture
    /\ UNCHANGED <<file, log, writer, view>>

\* SQLite opens the copy, and recovers it there.
OpenCopy ==
    /\ capture.op = "verify" /\ capture.checked = Pages + Slots
    /\ view' = [pages |-> Recovered([n \in 1..Pages |-> capture.copied[n].of],
                                    [n \in 1..Slots |-> capture.copied[Pages + n]]),
                from |-> capture.since, upto |-> writer.last]
    /\ capture' = NoCapture
    /\ UNCHANGED <<file, log, writer>>

\* The deadline passes, a source is too large, the process dies.
SnapshotUnavailable ==
    /\ capture # NoCapture
    /\ capture' = NoCapture
    /\ UNCHANGED <<file, log, writer, view>>

-----------------------------------------------------------------------------
SnapInit ==
    /\ file = [n \in 1..Pages |-> 0]
    /\ log = [n \in 1..Slots |-> [of |-> 0, salt |-> 0]]
    /\ writer = [slot |-> 1, salt |-> 1, last |-> 0]
    /\ capture = NoCapture
    /\ view = NoView

SnapNext ==
    \/ AppendFrame \/ CheckpointPage \/ RestartLog
    \/ BeginCapture \/ CopyNext \/ VerifyNext \/ OpenCopy \/ SnapshotUnavailable

SnapSpec == SnapInit /\ [][SnapNext]_snapVars

-----------------------------------------------------------------------------
\* "Capture a stable read view" (read_only.py:71): what a copy shows is one
\* commit, whole, and not older than the last one before the capture, whatever
\* is appended, checkpointed and overwritten while the files are read.
SnapshotIsCommitted ==
    view # NoView =>
        \E n \in view.from..view.upto : \A page \in 1..Pages : view.pages[page] = n
=============================================================================
