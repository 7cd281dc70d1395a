------------------------------ MODULE ErrorLog ------------------------------
(***************************************************************************)
(* The error diagnostics of the proxy: every instance runs its appends,    *)
(* lists, lookups and clears one after the other, and the files they work  *)
(* on are its own (one pod) or lie side by side in a directory that all    *)
(* instances read (shared mode).  One action is one file operation, and an *)
(* instance may stop between any two of them.                              *)
(***************************************************************************)
EXTENDS Naturals, Sequences, FiniteSets

CONSTANTS
  Instances,   \* the proxy pods
  MaxFiles,    \* the active file and its predecessors
  PerFile,     \* blocks that fit into maxFileBytes
  MaxRecords,  \* bound on the failures reported
  MaxExtras,   \* bound on the reads, the clears and the crashes together
  MaxTime      \* bound on the clock

ASSUME LogAssumption ==
  /\ Instances # {}
  /\ {MaxFiles, PerFile, MaxTime} \subseteq Nat \ {0}
  /\ {MaxRecords, MaxExtras} \subseteq Nat

VARIABLES
  shared,   \* one directory for all instances
  time,     \* milliseconds, the same for every instance
  files,    \* the blocks in each file of each instance: none where there is no file
  marker,   \* the cutoff of the shared clear marker, 0: no marker
  litter,   \* instances whose renamed directory was left behind
  waiting,  \* the records of each instance that are made and wait to be written
  op,       \* the operation of each instance that runs, and where it is
  used,     \* how much of each bound is spent
  past,     \* the records each instance wrote since it last cleared its files
  floor,    \* the latest cutoff of a clear that was answered
  raced     \* two clears were under way at once

logVars == <<shared, time, files, marker, litter, waiting, op, used, past, floor, raced>>

Indexes  == 0..(MaxFiles - 1)
Records  == [id : 1..MaxRecords, time : 1..MaxTime]
Blocks   == [record : Records, whole : BOOLEAN, line : BOOLEAN, closed : BOOLEAN]
Resting  == [at |-> "idle"]
Busy(i)  == op[i].at # "idle"
Step(i, o) == op' = [op EXCEPT ![i] = o]

\* A block is found by its BEGIN at the start of a line and its own END.
Readable(blocks) == {k \in DOMAIN blocks : blocks[k].whole /\ blocks[k].line}

FileRecords(i, n) == {files[i][n][k].record : k \in Readable(files[i][n])}

\* Mutant: what was recorded in the very moment of the cutoff is shown.
MutantHidden(r, cutoff) == shared /\ cutoff > 0 /\ r.time < cutoff

Hidden(r, cutoff) == shared /\ cutoff > 0 /\ r.time <= cutoff

Shows(records, cutoff) == {r \in records : ~Hidden(r, cutoff)}

Kept(i) == UNION {FileRecords(i, n) : n \in Indexes}

\* The blocks that were written to their end.
Whole(blocks) == {k \in DOMAIN blocks : blocks[k].whole}

\* A pod that is alone has its files to itself.
Pods == IF shared THEN Instances ELSE {CHOOSE i \in Instances : TRUE}

Operations ==
  {Resting} \union [at : {"size", "drop oldest", "write"}, record : Records]
    \union [at : {"move"}, record : Records, moved : Indexes]
    \union [at : {"cutoff"}, floor : 0..MaxTime]
    \union [at : {"scan"}, cutoff : 0..MaxTime, floor : 0..MaxTime, done : [Pods -> 0..MaxFiles],
           got : SUBSET Records, there : SUBSET Records]
    \union [at : {"swap", "sweep", "stamp"}]
    \union [at : {"rename marker"}, cutoff : 1..MaxTime]
    \union [at : {"unlink"}, cutoff : 1..MaxTime, next : 0..MaxFiles]

LogTypeOK ==
  /\ shared \in BOOLEAN /\ time \in 1..MaxTime
  /\ files \in [Instances -> [Indexes -> Seq(Blocks)]]
  /\ \A i \in Instances, n \in Indexes : Cardinality(Whole(files[i][n])) <= PerFile
  /\ marker \in 0..MaxTime /\ litter \subseteq Instances
  /\ waiting \in [Instances -> Seq(Records)]
  /\ op \in [Instances -> Operations]
  /\ used \in [records : 0..MaxRecords, extras : 0..MaxExtras, stops : 0..1]
  /\ past \in [Instances -> SUBSET Records]
  /\ floor \in 0..MaxTime /\ raced \in BOOLEAN

LogInit ==
  /\ shared \in BOOLEAN
  /\ time = 1
  /\ files = [i \in Instances |-> [n \in Indexes |-> <<>>]]
  /\ marker = 0 /\ litter = {}
  /\ waiting = [i \in Instances |-> <<>>]
  /\ op = [i \in Instances |-> Resting]
  /\ used = [records |-> 0, extras |-> 0, stops |-> 0]
  /\ past = [i \in Instances |-> {}]
  /\ floor = 0 /\ raced = FALSE

-----------------------------------------------------------------------------
(* What is asked for.  A record has the time at which it was made, which   *)
(* may be long before it is written.                                        *)

LogTick ==
  /\ time < MaxTime
  /\ time' = time + 1
  /\ UNCHANGED <<shared, files, marker, litter, waiting, op, used, past, floor, raced>>

\* persistRecord: the record is stamped, then waits for the operations before it.
Report(i) ==
  /\ used.records < MaxRecords
  /\ waiting' = [waiting EXCEPT ![i] = Append(@, [id |-> used.records + 1, time |-> time])]
  /\ used' = [used EXCEPT !.records = @ + 1]
  /\ UNCHANGED <<shared, time, files, marker, litter, op, past, floor, raced>>

\* serialized: an operation starts when the one before it has ended.  When a read or a
\* clear was asked for makes no difference to it, so that it is asked for as it starts.
Start(i, first) ==
  /\ ~Busy(i) /\ used.extras < MaxExtras
  /\ Step(i, first)
  /\ used' = [used EXCEPT !.extras = @ + 1]
  /\ UNCHANGED <<shared, time, files, marker, litter, waiting, past, floor>>

StartAppend(i) ==
  /\ ~Busy(i) /\ waiting[i] # <<>>
  /\ Step(i, [at |-> "size", record |-> Head(waiting[i])])
  /\ waiting' = [waiting EXCEPT ![i] = Tail(@)]
  /\ UNCHANGED <<shared, time, files, marker, litter, used, past, floor, raced>>

\* list, or get, which answers the one record of the list that has the id.  A list shows
\* what it read by time, however it came by it: got is a set.
StartRead(i) ==
  /\ Start(i, [at |-> "cutoff", floor |-> floor])
  /\ UNCHANGED raced

Clearing(i) == op[i].at \in {"stamp", "rename marker", "unlink"}

StartClear(i) ==
  /\ Start(i, [at |-> IF shared THEN "stamp" ELSE "swap"])
  /\ raced' = (raced \/ \E j \in Instances : Clearing(j))

-----------------------------------------------------------------------------
(* append *)

\* The block that does not fit starts a new file.  A torn block has any size below a
\* whole one.
LookAtSize(i) ==
  /\ op[i].at = "size"
  /\ \/ /\ Len(files[i][0]) >= PerFile
        /\ Step(i, [at |-> "drop oldest", record |-> op[i].record])
     \/ /\ Cardinality(Whole(files[i][0])) < PerFile
        /\ Step(i, [at |-> "write", record |-> op[i].record])
  /\ UNCHANGED <<shared, time, files, marker, litter, waiting, used, past, floor, raced>>

\* rotate: the last file goes, the others move up, the last but one first.
DropOldest(i) ==
  /\ op[i].at = "drop oldest"
  /\ files' = [files EXCEPT ![i][MaxFiles - 1] = <<>>]
  /\ Step(i, [at |-> "move", record |-> op[i].record, moved |-> MaxFiles - 1])
  /\ UNCHANGED <<shared, time, marker, litter, waiting, used, past, floor, raced>>

\* Mutant: the active file is moved first.
MutantNextToMove(moved) == (MaxFiles - 1) - moved

NextToMove(moved) == moved - 1

MoveUp(i) ==
  /\ op[i].at = "move"
  /\ LET n == NextToMove(op[i].moved) IN
       IF op[i].moved = 0
       THEN Step(i, [at |-> "write", record |-> op[i].record]) /\ UNCHANGED files
       ELSE /\ files' = IF files[i][n] = <<>> THEN files
                        ELSE [files EXCEPT ![i][n + 1] = files[i][n], ![i][n] = <<>>]
            /\ Step(i, [op[i] EXCEPT !.moved = n])
  /\ UNCHANGED <<shared, time, marker, litter, waiting, used, past, floor, raced>>

\* A file that does not end with a newline gets one first.
NeedsNewline(blocks) == blocks # <<>> /\ ~blocks[Len(blocks)].closed

StartsLine(blocks) == blocks = <<>> \/ blocks[Len(blocks)].closed \/ NeedsNewline(blocks)

Block(i, whole, closed) ==
  [record |-> op[i].record, whole |-> whole, line |-> StartsLine(files[i][0]), closed |-> closed]

Write(i) ==
  /\ op[i].at = "write"
  /\ files' = [files EXCEPT ![i][0] = Append(@, Block(i, TRUE, TRUE))]
  /\ past' = [past EXCEPT ![i] = @ \union {op[i].record}]
  /\ Step(i, Resting)
  /\ UNCHANGED <<shared, time, marker, litter, waiting, used, floor, raced>>

-----------------------------------------------------------------------------
(* list and get *)

\* Mutant: the oldest file is read first.
MutantFileToRead(done) == (MaxFiles - 1) - done

FileToRead(done) == done

\* In shared mode every instance's files, one directory after the other, in whatever order
\* they are listed.
DirectoryToRead(i, j) ==
  /\ op[i].done[j] < MaxFiles
  /\ \A k \in Pods \ {j} : op[i].done[k] \in {0, MaxFiles}

Stored(cutoff) == UNION {Shows(Kept(i), cutoff) : i \in Pods}

ReadCutoff(i) ==
  /\ op[i].at = "cutoff"
  /\ Step(i, [at |-> "scan", cutoff |-> marker, floor |-> op[i].floor,
              done |-> [j \in Pods |-> 0], got |-> {}, there |-> Stored(marker)])
  /\ UNCHANGED <<shared, time, files, marker, litter, waiting, used, past, floor, raced>>

\* A file that is not there (any more, or yet) is passed over.
ReadFile(i) ==
  /\ op[i].at = "scan"
  /\ \E j \in Pods :
       LET n == op[i].done[j] IN
         /\ DirectoryToRead(i, j)
         /\ Step(i, [op[i] EXCEPT !.done[j] = n + 1,
                                  !.got = @ \union Shows(FileRecords(j, FileToRead(n)), op[i].cutoff)])
  /\ UNCHANGED <<shared, time, files, marker, litter, waiting, used, past, floor, raced>>

Answering(i) == op[i].at = "scan" /\ \A j \in Pods : op[i].done[j] = MaxFiles

Answer(i) ==
  /\ Answering(i)
  /\ Step(i, Resting)
  /\ UNCHANGED <<shared, time, files, marker, litter, waiting, used, past, floor, raced>>

-----------------------------------------------------------------------------
(* clear *)

EmptyFiles == [n \in Indexes |-> <<>>]

\* One pod: the directory is renamed, a new one is made, the old one removed.
SwapDirectory(i) ==
  /\ op[i].at = "swap"
  /\ files' = [files EXCEPT ![i] = EmptyFiles]
  /\ past' = [past EXCEPT ![i] = {}]
  /\ litter' = litter \union {i}
  /\ Step(i, [at |-> "sweep"])
  /\ UNCHANGED <<shared, time, marker, waiting, used, floor, raced>>

Sweep(i) ==
  /\ op[i].at = "sweep"
  /\ litter' = litter \ {i}
  /\ Step(i, Resting)
  /\ UNCHANGED <<shared, time, files, marker, waiting, used, past, floor, raced>>

\* Shared: everything up to now is hidden from every instance.
\* The marker is written beside the old one, then renamed over it.
Stamp(i) ==
  /\ op[i].at = "stamp"
  /\ Step(i, [at |-> "rename marker", cutoff |-> time])
  /\ UNCHANGED <<shared, time, files, marker, litter, waiting, used, past, floor, raced>>

RenameMarker(i) ==
  /\ op[i].at = "rename marker"
  /\ marker' = op[i].cutoff
  /\ past' = [past EXCEPT ![i] = {}]
  /\ Step(i, [at |-> "unlink", cutoff |-> op[i].cutoff, next |-> 0])
  /\ UNCHANGED <<shared, time, files, litter, waiting, used, floor, raced>>

\* Only its own files are removed: the others may be writing theirs.
Unlink(i) ==
  /\ op[i].at = "unlink"
  /\ IF op[i].next < MaxFiles
     THEN /\ files' = [files EXCEPT ![i][op[i].next] = <<>>]
          /\ Step(i, [op[i] EXCEPT !.next = @ + 1])
          /\ UNCHANGED floor
     ELSE /\ floor' = IF op[i].cutoff > floor THEN op[i].cutoff ELSE floor
          /\ Step(i, Resting)
          /\ UNCHANGED files
  /\ UNCHANGED <<shared, time, marker, litter, waiting, used, past, raced>>

-----------------------------------------------------------------------------

\* The instance stops and starts again: an append that was under way leaves part of
\* its block, cut anywhere, or nothing.
StopInstance(i) ==
  /\ used.extras < MaxExtras /\ Busy(i)
  /\ used' = [used EXCEPT !.extras = @ + 1, !.stops = 1]
  /\ waiting' = [waiting EXCEPT ![i] = <<>>]
  /\ Step(i, Resting)
  /\ \/ UNCHANGED files
     \/ /\ op[i].at = "write"
        /\ \E closed \in BOOLEAN :
             files' = [files EXCEPT ![i][0] = Append(@, Block(i, FALSE, closed))]
  /\ UNCHANGED <<shared, time, marker, litter, past, floor, raced>>

LogNext ==
  \/ LogTick
  \/ \E i \in Pods :
       \/ Report(i) \/ StartAppend(i) \/ StartClear(i) \/ StartRead(i)
       \/ LookAtSize(i) \/ DropOldest(i) \/ MoveUp(i) \/ Write(i)
       \/ ReadCutoff(i) \/ ReadFile(i) \/ Answer(i)
       \/ SwapDirectory(i) \/ Sweep(i) \/ Stamp(i) \/ RenameMarker(i) \/ Unlink(i)
       \/ StopInstance(i)

LogSpec == LogInit /\ [][LogNext]_logVars

-----------------------------------------------------------------------------
(* Properties. *)

\* In the files of an instance records follow each other as they were made, each of them
\* once, the last file first.
InOrder(i) ==
  \A n, m \in Indexes : \A k \in Readable(files[i][n]), l \in Readable(files[i][m]) :
    n > m \/ (n = m /\ k < l) => files[i][n][k].record.id < files[i][m][l].record.id

\* The records of an instance that are neither cleared nor hidden are the newest of
\* those it wrote, with no gap between them and each of them once, at every moment of
\* a rotation and whatever a crash left half done, a torn block included; without a
\* crash they are as many as fit into all files but one.
KeepsNewest ==
  \A i \in Instances :
    /\ InOrder(i)
    /\ ~raced =>
         LET shown == Shows(Kept(i), marker) IN
           /\ shown \subseteq past[i]
           /\ \A r \in Shows(past[i], marker), s \in shown : r.id > s.id => r \in shown
    /\ used.stops = 0 => \/ past[i] \subseteq Kept(i)
                         \/ Cardinality(Kept(i)) >= (MaxFiles - 1) * PerFile

\* A read may show a record twice while its instance rotates, but misses none that is
\* stored from the moment the read looks at the marker until it answers: files move in
\* the direction in which they are read.
NothingMissed ==
  \A i \in Instances : Answering(i) =>
    op[i].there \intersect Stored(op[i].cutoff) \subseteq op[i].got

\* What a clear that was answered has hidden is in no answer to a read that starts
\* after it, in any instance, unless two clears overlapped: the one that took its time
\* first may write the marker last.
ClearedStaysCleared ==
  shared /\ ~raced => \A i \in Instances : Answering(i) =>
    \A r \in op[i].got : r.time > op[i].floor
=============================================================================
