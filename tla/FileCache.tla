----------------------------- MODULE FileCache -----------------------------
(***************************************************************************)
(* The rotating log of application/benchmark/bk_filecache.c.  Messages go  *)
(* to a live file; when it is full it becomes archive 1, every archive n   *)
(* becomes n + 1 and the oldest of `cachemax' archives is removed.  One    *)
(* worker writes.  A list in memory records which archives exist; the      *)
(* process may die between any two of its file operations, and the next    *)
(* one rebuilds the list from the disk.                                    *)
(*                                                                         *)
(* Messages are numbered as they are written and all have size 1.  A file  *)
(* is the sequence of its messages; `files' are the ones that exist, since *)
(* a kill between fopen and fwrite leaves an empty one.                    *)
(***************************************************************************)
EXTENDS Integers, Sequences

CONSTANTS
    cachemax,   \* archives to keep
    maxsize,    \* messages that fill a file
    MaxWritten, \* bound: messages
    MaxCrashes, \* bound: crashes
    MaxFailures \* bound: allocations that fail

ASSUME FileCacheAssumption ==
    /\ cachemax \in Nat \ {0}
    /\ maxsize \in Nat \ {0}
    /\ MaxWritten \in Nat
    /\ MaxCrashes \in Nat
    /\ MaxFailures \in Nat

\* The live file, and the archives an interrupted rotation, or one without
\* memory, can leave behind.
Live == 0
Ids == 1 .. (2 * cachemax + MaxFailures)
Files == {Live} \cup Ids
Nothing == <<>>

VARIABLES
    disk,       \* content of every file
    files,      \* the files that exist
    caches,     \* fc->caches: ids of the recorded archives
    cachenum,   \* fc->cachenum
    initFinish, \* fc->init_finish
    pc, i,      \* where bk_filecache_write is, and its loop variable
    written, crashes, failures

vars == <<disk, files, caches, cachenum, initFinish, pc, i, written, crashes, failures>>
memory == <<caches, cachenum, initFinish>>

TypeOK ==
    /\ disk \in [Files -> Seq(1 .. MaxWritten)]
    /\ files \subseteq Files
    /\ caches \in Seq(Ids)
    /\ cachenum \in Nat
    /\ initFinish \in BOOLEAN
    /\ pc \in {"idle", "init", "check", "shift", "add", "write", "fwrite"}
    /\ i \in Nat
    /\ written \in 0 .. MaxWritten
    /\ crashes \in 0 .. MaxCrashes
    /\ failures \in 0 .. MaxFailures

Init ==
    /\ disk = [f \in Files |-> Nothing] /\ files = {}
    /\ caches = <<>> /\ cachenum = 0 /\ initFinish = FALSE
    /\ pc = "idle" /\ i = 0
    /\ written = 0 /\ crashes = 0 /\ failures = 0

fc_file_exist(f) == f \in files

\* Mutant of rename: the source stays.
RenameCopy(from, to) ==
    IF fc_file_exist(from)
    THEN disk' = [disk EXCEPT ![to] = disk[from]] /\ files' = files \cup {to}
    ELSE UNCHANGED <<disk, files>>

\* rename(2): replaces the target; fails when there is no source.
rename(from, to) ==
    IF fc_file_exist(from)
    THEN /\ disk' = [disk EXCEPT ![to] = disk[from], ![from] = Nothing]
         /\ files' = (files \ {from}) \cup {to}
    ELSE UNCHANGED <<disk, files>>

\* remove(3)
remove(f) ==
    /\ disk' = [disk EXCEPT ![f] = Nothing]
    /\ files' = files \ {f}

filecache_full == Len(disk[Live]) >= maxsize

\* filecahce_item_add: the live file becomes archive `id', unless there is no
\* memory for its entry; its callers go on in either case.
filecahce_item_add(id) ==
    \/ /\ rename(Live, id)
       /\ caches' = Append(caches, id)
       /\ cachenum' = cachenum + 1
       /\ UNCHANGED failures
    \/ /\ failures < MaxFailures
       /\ failures' = failures + 1
       /\ UNCHANGED <<disk, files, caches, cachenum>>

-----------------------------------------------------------------------------

\* bk_filecache_write is entered: the first call looks for archives.
BeginWrite ==
    /\ pc = "idle" /\ written < MaxWritten
    /\ IF initFinish THEN pc' = "check" /\ UNCHANGED i ELSE pc' = "init" /\ i' = cachemax
    /\ UNCHANGED <<disk, files, memory, written, crashes, failures>>

\* Mutant of filecahce_init: the loop also runs for 0.
InitZeroth ==
    /\ pc = "init"
    /\ IF i >= 0 /\ fc_file_exist(i) THEN filecahce_item_add(i)
       ELSE UNCHANGED <<disk, files, caches, cachenum, failures>>
    /\ i' = i - 1
    /\ pc' = IF i' < 0 THEN "check" ELSE "init"
    /\ initFinish' = (i' < 0)
    /\ UNCHANGED <<written, crashes>>

\* One iteration of the loop of filecahce_init, and its end.
filecahce_init ==
    /\ pc = "init"
    /\ \/ /\ i > 0 /\ fc_file_exist(i)
          /\ filecahce_item_add(i)
          /\ i' = i - 1
          /\ UNCHANGED <<pc, initFinish>>
       \/ /\ i > 0 /\ ~fc_file_exist(i)
          /\ i' = i - 1
          /\ UNCHANGED <<pc, disk, files, memory, failures>>
       \/ /\ i = 0
          /\ initFinish' = TRUE
          /\ pc' = "check"
          /\ UNCHANGED <<i, disk, files, caches, cachenum, failures>>
    /\ UNCHANGED <<written, crashes>>

\* Mutant of Check: one archive too many is kept.
CheckLate ==
    /\ pc = "check"
    /\ pc' = IF filecache_full THEN "shift" ELSE "write"
    /\ i' = 1
    /\ IF filecache_full /\ cachenum > cachemax
       THEN remove(Head(caches)) /\ caches' = Tail(caches)
       ELSE UNCHANGED <<disk, files, caches>>
    /\ UNCHANGED <<cachenum, initFinish, written, crashes, failures>>

\* The live file is tested; filecahce_update removes the first archive of the
\* list when there are `cachemax' of them.  cachenum is not decremented, so that
\* after `cachemax' failed additions the list can be empty here: the head of the
\* list is freed, and the process aborts (only Crash is left).
Check ==
    /\ pc = "check"
    /\ \/ /\ ~filecache_full
          /\ pc' = "write"
          /\ UNCHANGED <<disk, files, caches, i>>
       \/ /\ filecache_full /\ cachenum >= cachemax /\ caches # <<>>
          /\ remove(Head(caches))
          /\ caches' = Tail(caches)
          /\ pc' = "shift" /\ i' = 1
       \/ /\ filecache_full /\ cachenum < cachemax
          /\ pc' = "shift" /\ i' = 1
          /\ UNCHANGED <<disk, files, caches>>
    /\ UNCHANGED <<cachenum, initFinish, written, crashes, failures>>

\* Mutant of Shift: the list is walked from the newest archive.
ShiftBackwards ==
    /\ pc = "shift"
    /\ IF i <= Len(caches)
       THEN LET j == Len(caches) + 1 - i IN
            /\ rename(caches[j], caches[j] + 1)
            /\ caches' = [caches EXCEPT ![j] = @ + 1]
            /\ i' = i + 1
            /\ UNCHANGED pc
       ELSE pc' = "add" /\ UNCHANGED <<i, disk, files, caches>>
    /\ UNCHANGED <<cachenum, initFinish, written, crashes, failures>>

\* One iteration of the renaming loop of filecahce_update.
Shift ==
    /\ pc = "shift"
    /\ \/ /\ i <= Len(caches)
          /\ rename(caches[i], caches[i] + 1)
          /\ caches' = [caches EXCEPT ![i] = @ + 1]
          /\ i' = i + 1
          /\ UNCHANGED pc
       \/ /\ i > Len(caches)
          /\ pc' = "add"
          /\ UNCHANGED <<i, disk, files, caches>>
    /\ UNCHANGED <<cachenum, initFinish, written, crashes, failures>>

Add ==
    /\ pc = "add"
    /\ filecahce_item_add(1)
    /\ pc' = "write"
    /\ UNCHANGED <<i, initFinish, written, crashes>>

\* filecache_write: fopen creates the live file, or fails and the message is
\* dropped.
filecache_open ==
    /\ pc = "write"
    /\ \/ files' = files \cup {Live} /\ pc' = "fwrite" /\ UNCHANGED i
       \/ pc' = "idle" /\ i' = 0 /\ UNCHANGED files
    /\ UNCHANGED <<disk, memory, written, crashes, failures>>

\* filecache_write: fwrite and fclose.
filecache_write ==
    /\ pc = "fwrite"
    /\ written' = written + 1
    /\ disk' = [disk EXCEPT ![Live] = Append(@, written')]
    /\ pc' = "idle" /\ i' = 0
    /\ UNCHANGED <<files, memory, crashes, failures>>

\* The process dies and a new one starts: the disk stays.
Crash ==
    /\ crashes < MaxCrashes
    /\ crashes' = crashes + 1
    /\ caches' = <<>> /\ cachenum' = 0 /\ initFinish' = FALSE
    /\ pc' = "idle" /\ i' = 0
    /\ UNCHANGED <<disk, files, written, failures>>

Next ==
    \/ BeginWrite \/ filecahce_init \/ Check \/ Shift \/ Add
    \/ filecache_open \/ filecache_write \/ Crash

Spec == Init /\ [][Next]_vars

-----------------------------------------------------------------------------
(* Properties *)

\* The messages numbered from .. to.
Messages(from, to) == [m \in 1 .. (to - from + 1) |-> from + m - 1]

\* Before any crash or failed allocation, between calls, the files hold exactly
\* the latest messages: archive n is the n-th full file before the live one, and
\* archives are missing only when they were never filled or had to go.
ArchivesExact ==
    (pc = "idle" /\ crashes = 0 /\ failures = 0) =>
        LET old == written - Len(disk[Live])
        IN  /\ disk[Live] = Messages(old + 1, written)
            /\ \A n \in 1 .. cachemax :
                  disk[n] = IF old >= n * maxsize
                            THEN Messages(old - n * maxsize + 1, old - (n - 1) * maxsize)
                            ELSE Nothing
            /\ \A n \in Ids : n \in files <=> n <= cachemax /\ disk[n] # Nothing

\* However the process dies, no message is ever in two files, nor twice in one.
NoDuplicates ==
    \A f, g \in DOMAIN disk :
        \A m \in DOMAIN disk[f], n \in DOMAIN disk[g] :
            disk[f][m] = disk[g][n] => f = g /\ m = n

\* Archives beyond `cachemax' are left by interrupted rotations and by failed
\* allocations only.  However many kills there were, no archive is numbered
\* beyond 2 * cachemax - 1; every allocation that failed adds one to that.
DiskBound == \A f \in files : f < 2 * cachemax + failures

=============================================================================
