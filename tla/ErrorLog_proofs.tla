-------------------------- MODULE ErrorLog_proofs ---------------------------
(***************************************************************************)
(* Proofs about the error diagnostics, for any number of instances, files, *)
(* records, reads, clears and crashes: what is kept is the newest with no  *)
(* gap, a read misses nothing that stays, and what was cleared stays so.   *)
(* They take six steps: operations and types; what the files hold, which   *)
(* is the invariant; what a step does to the contents of the files and to  *)
(* what waits; what a read finds; what a clear hides; how full the files   *)
(* are.                                                                    *)
(***************************************************************************)
EXTENDS ErrorLog, FiniteSetTheorems, TLAPS

-----------------------------------------------------------------------------
(* The error log: operations, files and their types. *)

Appending == {"size", "drop oldest", "move", "write"}

Scans   == [at : {"scan"}, cutoff : 0..MaxTime, floor : 0..MaxTime, done : [Pods -> 0..MaxFiles],
            got : SUBSET Records, there : SUBSET Records]
Moves   == [at : {"move"}, record : Records, moved : Indexes]
Unlinks == [at : {"unlink"}, cutoff : 1..MaxTime, next : 0..MaxFiles]

LEMMA Operation ==
  ASSUME NEW o \in Operations
  PROVE  /\ o.at \in Appending \union {"idle", "cutoff", "scan", "swap", "sweep", "stamp", "rename marker", "unlink"}
         /\ o.at \in Appending => o.record \in Records
         /\ o.at = "move" => o \in Moves
         /\ o.at = "cutoff" => o.floor \in 0..MaxTime
         /\ o.at = "scan" => o \in Scans
         /\ o.at = "rename marker" => o.cutoff \in 1..MaxTime
         /\ o.at = "unlink" => o \in Unlinks
<1>1. CASE o = Resting
  BY <1>1 DEF Resting, Appending
<1>2. CASE o \in [at : {"size", "drop oldest", "write"}, record : Records]
  BY <1>2 DEF Appending
<1>3. CASE o \in Moves
  BY <1>3 DEF Appending, Moves
<1>4. CASE o \in [at : {"cutoff"}, floor : 0..MaxTime]
  BY <1>4 DEF Appending
<1>5. CASE o \in Scans
  BY <1>5 DEF Appending, Scans
<1>6. CASE o \in [at : {"swap", "sweep", "stamp"}]
  BY <1>6 DEF Appending
<1>7. CASE o \in [at : {"rename marker"}, cutoff : 1..MaxTime]
  BY <1>7 DEF Appending
<1>8. CASE o \in Unlinks
  BY <1>8 DEF Appending, Unlinks
<1> QED BY <1>1, <1>2, <1>3, <1>4, <1>5, <1>6, <1>7, <1>8 DEF Operations, Scans, Moves, Unlinks

LEMMA AppendingOperation ==
  ASSUME NEW r \in Records
  PROVE  /\ \A at \in {"size", "drop oldest", "write"} : [at |-> at, record |-> r] \in Operations
         /\ \A n \in Indexes : [at |-> "move", record |-> r, moved |-> n] \in Operations
BY DEF Operations

LEMMA OtherOperation ==
  /\ Resting \in Operations
  /\ \A at \in {"swap", "sweep", "stamp"} : [at |-> at] \in Operations
  /\ \A t \in 0..MaxTime : [at |-> "cutoff", floor |-> t] \in Operations
  /\ \A t \in 1..MaxTime : [at |-> "rename marker", cutoff |-> t] \in Operations
  /\ \A t \in 1..MaxTime, n \in 0..MaxFiles : [at |-> "unlink", cutoff |-> t, next |-> n] \in Operations
BY DEF Operations

LEMMA ScanOperation == Scans \subseteq Operations
BY DEF Operations, Scans

LEMMA PodsAreInstances == Pods \subseteq Instances
BY LogAssumption DEF Pods

LEMMA FileNumbers == /\ MaxFiles \in Nat \ {0} /\ PerFile \in Nat \ {0} /\ MaxTime \in Nat \ {0}
                     /\ MaxRecords \in Nat /\ MaxExtras \in Nat
                     /\ 0 \in Indexes /\ MaxFiles - 1 \in Indexes
                     /\ \A n \in Indexes : n \in Nat /\ (n # 0 => n - 1 \in Indexes)
BY LogAssumption DEF Indexes

\* A block more, in a file.
LEMMA OneBlockMore ==
  ASSUME NEW s \in Seq(Blocks), NEW b \in Blocks
  PROVE  /\ Append(s, b) \in Seq(Blocks)
         /\ Len(s) \in Nat /\ DOMAIN s = 1..Len(s)
         /\ DOMAIN Append(s, b) = 1..(Len(s) + 1) /\ Len(Append(s, b)) = Len(s) + 1
         /\ \A k \in 1..Len(s) : Append(s, b)[k] = s[k]
         /\ Append(s, b)[Len(s) + 1] = b
         /\ Readable(Append(s, b)) = Readable(s) \union (IF b.whole /\ b.line THEN {Len(s) + 1} ELSE {})
         /\ Whole(Append(s, b)) = Whole(s) \union (IF b.whole THEN {Len(s) + 1} ELSE {})
<1>1. /\ Append(s, b) \in Seq(Blocks) /\ Len(s) \in Nat /\ DOMAIN s = 1..Len(s)
      /\ DOMAIN Append(s, b) = 1..(Len(s) + 1) /\ Len(Append(s, b)) = Len(s) + 1
      /\ \A k \in 1..Len(s) : Append(s, b)[k] = s[k]
      /\ Append(s, b)[Len(s) + 1] = b
  OBVIOUS
<1>2. \A k \in DOMAIN Append(s, b) : k \in 1..Len(s) \/ k = Len(s) + 1
  BY <1>1
<1> QED BY <1>1, <1>2 DEF Readable, Whole

LEMMA NoBlocks == Readable(<<>>) = {} /\ Whole(<<>>) = {} /\ <<>> \in Seq(Blocks) /\ Len(<<>>) = 0 /\ DOMAIN <<>> = {}
BY DEF Readable, Whole

LEMMA WholeIsFinite ==
  ASSUME NEW s \in Seq(Blocks)
  PROVE  IsFiniteSet(Whole(s)) /\ Cardinality(Whole(s)) \in Nat
<1>1. Whole(s) \subseteq 1..Len(s) /\ Len(s) \in Nat
  BY DEF Whole
<1>2. IsFiniteSet(1..Len(s))
  BY <1>1, FS_Interval
<1>3. IsFiniteSet(Whole(s))
  BY <1>1, <1>2, FS_Subset
<1> QED BY <1>3, FS_CardinalityType

\* What a step of one instance leaves of the operations, and of the files.
LEMMA OneOperation ==
  ASSUME op \in [Instances -> Operations], NEW i \in Instances, NEW o \in Operations, Step(i, o)
  PROVE  /\ op' \in [Instances -> Operations]
         /\ op'[i] = o /\ \A j \in Instances \ {i} : op'[j] = op[j]
BY DEF Step

FileTable == [Instances -> [Indexes -> Seq(Blocks)]]

LEMMA OneFile ==
  ASSUME files \in FileTable, NEW i \in Instances, NEW n \in Indexes, NEW s \in Seq(Blocks),
         files' = [files EXCEPT ![i][n] = s]
  PROVE  /\ files' \in FileTable /\ files'[i][n] = s
         /\ \A j \in Instances, m \in Indexes : (j # i \/ m # n) => files'[j][m] = files[j][m]
BY DEF FileTable

\* Where the files of an instance are while it works on them.
Rotation(i) ==
  /\ op[i].at = "write" => Cardinality(Whole(files[i][0])) < PerFile
  /\ op[i].at = "move" => files[i][op[i].moved] = <<>>
  /\ op[i].at = "unlink" => \A n \in Indexes : n < op[i].next => files[i][n] = <<>>
  /\ \A n \in Indexes : \A k \in DOMAIN files[i][n] : files[i][n][k].line

\* What all steps have to show of the operations and the files they change.
Fits(i) ==
  /\ op' \in [Instances -> Operations] /\ \A j \in Instances \ {i} : op'[j] = op[j]
  /\ files' \in FileTable /\ \A j \in Instances \ {i} : files'[j] = files[j]
  /\ \A n \in Indexes : Cardinality(Whole(files'[i][n])) <= PerFile
  /\ Rotation(i)'

LEMMA MovedUp ==
  ASSUME LogTypeOK, NEW i \in Instances, op[i].at = "move", op[i].moved # 0, MoveUp(i)
  PROVE  LET n == op[i].moved - 1 IN
           /\ op[i].moved \in Nat \ {0} /\ n \in Indexes /\ n + 1 = op[i].moved /\ n + 1 \in Indexes
           /\ files' \in FileTable
           /\ \A j \in Instances, m \in Indexes : (j # i \/ m \notin {n, n + 1}) => files'[j][m] = files[j][m]
           /\ files[i][n] = <<>> => files' = files
           /\ files[i][n] # <<>> => files'[i][n] = <<>> /\ files'[i][n + 1] = files[i][n]
           /\ op'[i] = [op[i] EXCEPT !.moved = n] /\ op'[i] \in Moves /\ op'[i].record = op[i].record
           /\ op' \in [Instances -> Operations] /\ \A j \in Instances \ {i} : op'[j] = op[j]
           /\ op'[i].moved = n
<1> DEFINE n == op[i].moved - 1
<1>1. op[i] \in Moves /\ op \in [Instances -> Operations] /\ files \in FileTable
  BY Operation DEF LogTypeOK, FileTable
<1>2. op[i].moved \in Nat \ {0} /\ n \in Indexes /\ n + 1 = op[i].moved /\ op[i].moved \in Indexes
  BY <1>1, FileNumbers DEF Moves
<1>3. [op[i] EXCEPT !.moved = n] \in Moves /\ [op[i] EXCEPT !.moved = n].record = op[i].record
      /\ [op[i] EXCEPT !.moved = n].moved = n
  BY <1>1, <1>2 DEF Moves
<1>4. Moves \subseteq Operations
  BY DEF Moves, Operations
<1>5. Step(i, [op[i] EXCEPT !.moved = n])
  BY <1>2 DEF MoveUp, NextToMove
<1>6. /\ op' \in [Instances -> Operations] /\ op'[i] = [op[i] EXCEPT !.moved = n]
      /\ \A j \in Instances \ {i} : op'[j] = op[j]
  BY <1>1, <1>3, <1>4, <1>5, OneOperation
<1>7. CASE files[i][n] = <<>>
  <2>1. files' = files
    BY <1>2, <1>7 DEF MoveUp, NextToMove
  <2> QED BY <1>1, <1>2, <1>3, <1>6, <1>7, <2>1
<1>8. CASE files[i][n] # <<>>
  <2>1. files' = [files EXCEPT ![i][n + 1] = files[i][n], ![i][n] = <<>>]
    BY <1>2, <1>8 DEF MoveUp, NextToMove
  <2>2. /\ files' \in FileTable /\ files'[i][n] = <<>> /\ files'[i][n + 1] = files[i][n]
        /\ \A j \in Instances, m \in Indexes : (j # i \/ m \notin {n, n + 1}) => files'[j][m] = files[j][m]
    <3> DEFINE moved == [files EXCEPT ![i][n + 1] = files[i][n]]
    <3>1. files[i][n] \in Seq(Blocks)
      BY <1>1, <1>2 DEF FileTable
    <3>2. /\ moved \in FileTable /\ moved[i][n + 1] = files[i][n]
          /\ \A j \in Instances, m \in Indexes : (j # i \/ m # n + 1) => moved[j][m] = files[j][m]
      BY <1>1, <1>2, <3>1 DEF FileTable
    <3>3. files' = [moved EXCEPT ![i][n] = <<>>]
      BY <1>1, <1>2, <2>1 DEF FileTable
    <3> HIDE DEF moved
    <3>4. n + 1 # n
      BY <1>2, FileNumbers
    <3> QED BY <1>2, <3>2, <3>3, <3>4, NoBlocks DEF FileTable
  <2> QED BY <1>1, <1>2, <1>3, <1>6, <1>8, <2>2
<1> QED BY <1>7, <1>8

\* The file that is moved, n, and where it is moved to.
LEMMA MovedOne ==
  ASSUME LogTypeOK, NEW i \in Instances, op[i].at = "move", op[i].moved # 0, MoveUp(i)
  PROVE  \E h \in Indexes, n \in Indexes :
           /\ h \in Nat \ {0} /\ n \in Nat /\ n + 1 = h /\ n <= h /\ n < h /\ n # h
           /\ h = op[i].moved /\ op'[i].moved = n
           /\ \A m \in Indexes : m \notin {n, h} => files'[i][m] = files[i][m]
           /\ files[i][n] = <<>> => files' = files
           /\ files[i][n] # <<>> => files'[i][n] = <<>> /\ files'[i][h] = files[i][n]
<1> DEFINE h == op[i].moved
           n == op[i].moved - 1
<1>1. /\ h \in Nat \ {0} /\ n \in Indexes /\ n + 1 = h /\ h \in Indexes /\ op'[i].moved = n
      /\ \A m \in Indexes : m \notin {n, h} => files'[i][m] = files[i][m]
      /\ files[i][n] = <<>> => files' = files
      /\ files[i][n] # <<>> => files'[i][n] = <<>> /\ files'[i][h] = files[i][n]
  BY MovedUp
<1>2. n \in Nat
  BY <1>1
<1> HIDE DEF n
<1>3. n <= h /\ n < h /\ n # h
  <2> HIDE DEF h
  <2> QED BY <1>1, <1>2
<1>4. h = op[i].moved
  OBVIOUS
<1> h \in Indexes /\ n \in Indexes
  BY <1>1
<1> HIDE DEF h
<1> WITNESS h \in Indexes, n \in Indexes
<1> QED BY <1>1, <1>2, <1>3, <1>4

LEMMA SameFiles ==
  ASSUME LogTypeOK, NEW i \in Instances, Rotation(i), NEW o \in Operations, Step(i, o), files' = files,
         o.at = "write" => Cardinality(Whole(files[i][0])) < PerFile,
         o.at = "move" => files[i][o.moved] = <<>>,
         o.at = "unlink" => \A n \in Indexes : n < o.next => files[i][n] = <<>>
  PROVE  Fits(i)
<1>1. /\ op' \in [Instances -> Operations] /\ op'[i] = o
      /\ \A j \in Instances \ {i} : op'[j] = op[j]
  BY OneOperation DEF LogTypeOK
<1>2. Rotation(i)'
  BY <1>1 DEF Rotation
<1>3. files' \in FileTable /\ \A n \in Indexes : Cardinality(Whole(files'[i][n])) <= PerFile
  BY DEF LogTypeOK, FileTable
<1> QED BY <1>1, <1>2, <1>3 DEF Fits

LEMMA AnotherFile ==
  ASSUME LogTypeOK, NEW i \in Instances, Rotation(i), NEW o \in Operations, Step(i, o),
         NEW f \in Indexes, NEW s \in Seq(Blocks), files' = [files EXCEPT ![i][f] = s],
         Cardinality(Whole(s)) <= PerFile, \A k \in DOMAIN s : s[k].line,
         o.at # "write",
         o.at = "move" => o.moved = f /\ s = <<>>,
         o.at = "unlink" => \A n \in Indexes : n < o.next => files'[i][n] = <<>>
  PROVE  Fits(i)
<1>1. /\ op' \in [Instances -> Operations] /\ op'[i] = o
      /\ \A j \in Instances \ {i} : op'[j] = op[j]
  BY OneOperation DEF LogTypeOK
<1>2. /\ files' \in FileTable /\ files'[i][f] = s
      /\ \A j \in Instances, m \in Indexes : (j # i \/ m # f) => files'[j][m] = files[j][m]
  BY OneFile DEF LogTypeOK, FileTable
<1>3. \A n \in Indexes : n # f =>
        /\ Cardinality(Whole(files'[i][n])) <= PerFile
        /\ \A k \in DOMAIN files'[i][n] : files'[i][n][k].line
  BY <1>2 DEF LogTypeOK, Rotation
<1>4. Rotation(i)'
  BY <1>1, <1>2, <1>3 DEF Rotation
<1>5. \A j \in Instances \ {i} : files'[j] = files[j]
  BY <1>2 DEF FileTable, LogTypeOK
<1> QED BY <1>1, <1>2, <1>3, <1>4, <1>5 DEF Fits

LEMMA BlockType ==
  ASSUME LogTypeOK, NEW i \in Instances, op[i].at \in Appending, NEW whole \in BOOLEAN, NEW closed \in BOOLEAN
  PROVE  LET b == Block(i, whole, closed) IN
           b \in Blocks /\ b.line /\ b.whole = whole /\ b.record = op[i].record
<1>1. files[i][0] \in Seq(Blocks) /\ op[i].record \in Records
  BY FileNumbers, Operation DEF LogTypeOK
<1>2. StartsLine(files[i][0])
  BY DEF StartsLine, NeedsNewline
<1> QED BY <1>1, <1>2 DEF Block, Blocks

\* A whole block more fits where one fits.
LEMMA OneMoreFits ==
  ASSUME NEW s \in Seq(Blocks), NEW b \in Blocks, Cardinality(Whole(s)) <= PerFile,
         b.whole => Cardinality(Whole(s)) < PerFile
  PROVE  Cardinality(Whole(Append(s, b))) <= PerFile
<1>1. IsFiniteSet(Whole(s)) /\ Cardinality(Whole(s)) \in Nat /\ Len(s) + 1 \notin Whole(s)
  BY WholeIsFinite, OneBlockMore DEF Whole
<1>2. CASE b.whole
  <2>1. Whole(Append(s, b)) = Whole(s) \union {Len(s) + 1}
    BY <1>2, OneBlockMore
  <2>2. Cardinality(Whole(Append(s, b))) = Cardinality(Whole(s)) + 1
    BY <1>1, <2>1, FS_AddElement
  <2> QED BY <1>1, <1>2, <2>2, FileNumbers
<1>3. CASE ~b.whole
  <2>1. Whole(Append(s, b)) = Whole(s) \union (IF b.whole THEN {Len(s) + 1} ELSE {})
    BY OneBlockMore
  <2>2. Whole(Append(s, b)) = Whole(s)
    BY <1>3, <2>1
  <2> QED BY <2>2
<1> QED BY <1>2, <1>3

LEMMA AppendFits ==
  ASSUME LogTypeOK, NEW i \in Instances, Rotation(i), op[i].at = "write", Step(i, Resting),
         NEW whole \in BOOLEAN, NEW closed \in BOOLEAN,
         files' = [files EXCEPT ![i][0] = Append(@, Block(i, whole, closed))]
  PROVE  Fits(i)
<1> DEFINE b == Block(i, whole, closed)
           s == files[i][0]
<1>1. /\ s \in Seq(Blocks) /\ b \in Blocks /\ b.line /\ b.whole = whole
      /\ Cardinality(Whole(s)) < PerFile /\ Cardinality(Whole(s)) \in Nat
      /\ \A k \in DOMAIN s : s[k].line
  <2>1. s \in Seq(Blocks) /\ 0 \in Indexes
    BY FileNumbers DEF LogTypeOK
  <2>2. b \in Blocks /\ b.line /\ b.whole = whole
    BY BlockType DEF Appending
  <2>3. Cardinality(Whole(s)) < PerFile /\ \A k \in DOMAIN s : s[k].line
    BY <2>1 DEF Rotation
  <2>4. Cardinality(Whole(s)) \in Nat
    BY <2>1, WholeIsFinite
  <2> QED BY <2>1, <2>2, <2>3, <2>4
<1> HIDE DEF b
<1>2. Append(s, b) \in Seq(Blocks) /\ Cardinality(Whole(Append(s, b))) <= PerFile
  BY <1>1, OneBlockMore, OneMoreFits, FileNumbers
<1>3. \A k \in DOMAIN Append(s, b) : Append(s, b)[k].line
  <2>1. \A k \in DOMAIN Append(s, b) : k \in 1..Len(s) \/ k = Len(s) + 1
    BY <1>1, OneBlockMore
  <2> QED BY <1>1, <2>1, OneBlockMore
<1>4. files' = [files EXCEPT ![i][0] = Append(s, b)]
  BY FileNumbers DEF b, LogTypeOK
<1> HIDE DEF s
<1> QED BY <1>2, <1>3, <1>4, AnotherFile, FileNumbers, OtherOperation DEF Resting

\* The steps of an instance.
StepOf(i) ==
  \/ StartAppend(i) \/ StartClear(i) \/ StartRead(i)
  \/ LookAtSize(i) \/ DropOldest(i) \/ MoveUp(i) \/ Write(i)
  \/ ReadCutoff(i) \/ ReadFile(i) \/ Answer(i)
  \/ SwapDirectory(i) \/ Sweep(i) \/ Stamp(i) \/ RenameMarker(i) \/ Unlink(i)
  \/ StopInstance(i)

LEMMA EmptyFits ==
  PerFile \in Nat /\ Cardinality(Whole(<<>>)) = 0 /\ Cardinality(Whole(<<>>)) <= PerFile /\ 0 < PerFile
BY NoBlocks, FS_EmptySet, FileNumbers

LEMMA ShownAreRecords ==
  ASSUME LogTypeOK
  PROVE  /\ \A j \in Instances, n \in Indexes : FileRecords(j, n) \subseteq Records
         /\ \A j \in Instances : Kept(j) \subseteq Records
         /\ \A cutoff : Stored(cutoff) \subseteq Records
<1>1. \A j \in Instances, n \in Indexes : \A k : k \in Readable(files[j][n]) => files[j][n][k] \in Blocks
  BY DEF LogTypeOK, Readable
<1>2. \A j \in Instances, n \in Indexes : FileRecords(j, n) \subseteq Records
  BY <1>1 DEF FileRecords, Blocks
<1>3. \A j \in Instances : Kept(j) \subseteq Records
  BY <1>2 DEF Kept
<1> QED BY <1>2, <1>3, PodsAreInstances DEF Stored, Shows

LEMMA ReadFileType ==
  ASSUME LogTypeOK, NEW i \in Instances, op[i].at = "scan", NEW j \in Pods, op[i].done[j] < MaxFiles
  PROVE  LET n == op[i].done[j]
             o == [op[i] EXCEPT !.done[j] = n + 1,
                                !.got = @ \union Shows(FileRecords(j, FileToRead(n)), op[i].cutoff)]
         IN  /\ n \in Indexes /\ n \in Nat /\ o \in Scans /\ o.cutoff = op[i].cutoff /\ o.floor = op[i].floor
             /\ o.there = op[i].there /\ o.done[j] = n + 1
             /\ \A k \in Pods \ {j} : o.done[k] = op[i].done[k]
             /\ o.got = op[i].got \union Shows(FileRecords(j, n), op[i].cutoff)
<1>1. op[i] \in Scans /\ j \in Instances
  BY Operation, PodsAreInstances DEF LogTypeOK
<1>2. op[i].done[j] \in 0..MaxFiles /\ op[i].done[j] < MaxFiles
  BY <1>1 DEF Scans
<1>3. op[i].done[j] \in Indexes /\ op[i].done[j] + 1 \in 0..MaxFiles /\ op[i].done[j] \in Nat
  BY <1>2, FileNumbers DEF Indexes
<1>4. Shows(FileRecords(j, op[i].done[j]), op[i].cutoff) \subseteq Records
  BY <1>1, <1>3, ShownAreRecords DEF Shows
<1> QED BY <1>1, <1>3, <1>4 DEF Scans, FileToRead

LEMMA FilesFit ==
  ASSUME LogTypeOK, NEW i \in Instances, Rotation(i), StepOf(i)
  PROVE  Fits(i)
<1>1. op \in [Instances -> Operations] /\ op[i] \in Operations /\ files \in FileTable
  BY DEF LogTypeOK, FileTable
<1>2. CASE StartAppend(i)
  <2>1. Head(waiting[i]) \in Records
    BY <1>2 DEF StartAppend, LogTypeOK
  <2>2. [at |-> "size", record |-> Head(waiting[i])] \in Operations
    BY <2>1, AppendingOperation
  <2> QED BY <1>2, <2>2, SameFiles DEF StartAppend
<1>3. CASE StartClear(i)
  <2> DEFINE o == [at |-> IF shared THEN "stamp" ELSE "swap"]
  <2>1. o \in Operations /\ o.at \in {"stamp", "swap"}
    BY OtherOperation
  <2>2. Step(i, o) /\ files' = files
    BY <1>3 DEF StartClear, Start
  <2> HIDE DEF o
  <2> QED BY <2>1, <2>2, SameFiles
<1>4. CASE StartRead(i)
  <2>1. [at |-> "cutoff", floor |-> floor] \in Operations
    BY OtherOperation DEF LogTypeOK
  <2> QED BY <1>4, <2>1, SameFiles DEF StartRead, Start
<1>5. CASE LookAtSize(i)
  <2>1. op[i].record \in Records
    BY <1>1, <1>5, Operation DEF LookAtSize, Appending
  <2>2. /\ [at |-> "drop oldest", record |-> op[i].record] \in Operations
        /\ [at |-> "write", record |-> op[i].record] \in Operations
    BY <2>1, AppendingOperation
  <2> QED BY <1>5, <2>2, SameFiles DEF LookAtSize
<1>6. CASE DropOldest(i)
  <2>1. [at |-> "move", record |-> op[i].record, moved |-> MaxFiles - 1] \in Operations
    BY <1>1, <1>6, Operation, AppendingOperation, FileNumbers DEF DropOldest, Appending
  <2> QED BY <1>6, <2>1, AnotherFile, NoBlocks, EmptyFits, FileNumbers DEF DropOldest
<1>7. CASE MoveUp(i)
  <2>1. CASE op[i].moved = 0
    <3>1. [at |-> "write", record |-> op[i].record] \in Operations /\ op[i].at = "move"
      BY <1>1, <1>7, Operation, AppendingOperation DEF MoveUp, Appending
    <3>2. Step(i, [at |-> "write", record |-> op[i].record]) /\ files' = files
      BY <1>7, <2>1 DEF MoveUp
    <3>3. files[i][0] = <<>>
      BY <2>1, <3>1 DEF Rotation
    <3> QED BY <3>1, <3>2, <3>3, EmptyFits, SameFiles
  <2>2. CASE op[i].moved # 0
    <3> DEFINE n == op[i].moved - 1
    <3>1. op[i].at = "move"
      BY <1>7 DEF MoveUp
    <3>2. /\ n \in Indexes /\ n + 1 \in Indexes /\ files' \in FileTable
          /\ \A j \in Instances, m \in Indexes : (j # i \/ m \notin {n, n + 1}) => files'[j][m] = files[j][m]
          /\ files[i][n] = <<>> => files' = files
          /\ files[i][n] # <<>> => files'[i][n] = <<>> /\ files'[i][n + 1] = files[i][n]
          /\ op' \in [Instances -> Operations] /\ \A j \in Instances \ {i} : op'[j] = op[j]
          /\ op'[i] \in Moves /\ op'[i].moved = n
      BY <1>7, <2>2, <3>1, MovedUp
    <3> HIDE DEF n
    <3>3. \A j \in Instances \ {i} : files'[j] = files[j]
      BY <1>1, <3>2 DEF FileTable
    <3>4. \A m \in Indexes : \/ files'[i][m] = <<>>
                             \/ \E l \in Indexes : files'[i][m] = files[i][l]
      BY <3>2
    <3>5. \A m \in Indexes : /\ Cardinality(Whole(files'[i][m])) <= PerFile
                             /\ \A k \in DOMAIN files'[i][m] : files'[i][m][k].line
      BY <3>4, EmptyFits, NoBlocks DEF LogTypeOK, Rotation
    <3>6. files'[i][n] = <<>> /\ op'[i].at = "move"
      BY <3>2 DEF Moves
    <3> QED BY <3>2, <3>3, <3>5, <3>6 DEF Fits, Rotation
  <2> QED BY <2>1, <2>2
<1>8. CASE Write(i)
  BY <1>8, AppendFits DEF Write
<1>9. CASE ReadCutoff(i)
  <2> DEFINE o == [at |-> "scan", cutoff |-> marker, floor |-> op[i].floor,
                   done |-> [j \in Pods |-> 0], got |-> {}, there |-> Stored(marker)]
  <2>1. op[i].floor \in 0..MaxTime /\ marker \in 0..MaxTime /\ Stored(marker) \subseteq Records
    BY <1>1, <1>9, Operation, ShownAreRecords DEF ReadCutoff, LogTypeOK
  <2>2. [j \in Pods |-> 0] \in [Pods -> 0..MaxFiles]
    BY FileNumbers
  <2>3. o \in Scans /\ o.at = "scan"
    BY <2>1, <2>2 DEF Scans
  <2>4. Step(i, o) /\ files' = files
    BY <1>9 DEF ReadCutoff
  <2> HIDE DEF o
  <2> QED BY <2>3, <2>4, SameFiles, ScanOperation
<1>10. CASE ReadFile(i)
  <2>1. PICK j \in Pods :
          LET n == op[i].done[j] IN
            /\ DirectoryToRead(i, j)
            /\ Step(i, [op[i] EXCEPT !.done[j] = n + 1,
                                     !.got = @ \union Shows(FileRecords(j, FileToRead(n)), op[i].cutoff)])
    BY <1>10 DEF ReadFile
  <2> DEFINE o == [op[i] EXCEPT !.done[j] = op[i].done[j] + 1,
                     !.got = @ \union Shows(FileRecords(j, FileToRead(op[i].done[j])), op[i].cutoff)]
  <2>2. op[i].done[j] < MaxFiles /\ op[i].at = "scan"
    BY <1>10, <2>1 DEF DirectoryToRead, ReadFile
  <2>3. o \in Scans
    BY <2>2, ReadFileType
  <2>4. o.at = "scan"
    BY <2>3 DEF Scans
  <2>5. Step(i, o) /\ files' = files
    BY <1>10, <2>1 DEF ReadFile
  <2> HIDE DEF o
  <2> QED BY <2>3, <2>4, <2>5, SameFiles, ScanOperation
<1>11. CASE Answer(i) \/ Sweep(i)
  <2>1. Step(i, Resting) /\ files' = files
    BY <1>11 DEF Answer, Sweep
  <2> QED BY <2>1, SameFiles, OtherOperation DEF Resting
<1>12. CASE SwapDirectory(i)
  <2>1. /\ op' \in [Instances -> Operations] /\ op'[i] = [at |-> "sweep"]
        /\ \A j \in Instances \ {i} : op'[j] = op[j]
    BY <1>1, <1>12, OneOperation, OtherOperation DEF SwapDirectory
  <2>2. /\ files' \in FileTable /\ \A n \in Indexes : files'[i][n] = <<>>
        /\ \A j \in Instances \ {i} : files'[j] = files[j]
    BY <1>1, <1>12, NoBlocks DEF SwapDirectory, EmptyFiles, FileTable
  <2>3. Rotation(i)'
    BY <2>1, <2>2 DEF Rotation
  <2> QED BY <2>1, <2>2, <2>3, EmptyFits DEF Fits
<1>13. CASE Stamp(i)
  <2>1. [at |-> "rename marker", cutoff |-> time] \in Operations
    BY OtherOperation DEF LogTypeOK
  <2> QED BY <1>13, <2>1, SameFiles DEF Stamp
<1>14. CASE RenameMarker(i)
  <2>1. [at |-> "unlink", cutoff |-> op[i].cutoff, next |-> 0] \in Operations
    <3>1. op[i].cutoff \in 1..MaxTime
      BY <1>1, <1>14, Operation DEF RenameMarker
    <3>2. 0 \in 0..MaxFiles
      BY FileNumbers
    <3> QED BY <3>1, <3>2, OtherOperation
  <2>2. \A n \in Indexes : ~(n < 0)
    BY FileNumbers
  <2> QED BY <1>14, <2>1, <2>2, SameFiles DEF RenameMarker
<1>15. CASE Unlink(i)
  <2>1. op[i] \in Unlinks /\ op[i].at = "unlink" /\ op[i].next \in 0..MaxFiles
    BY <1>1, <1>15, Operation DEF Unlink, Unlinks
  <2>2. CASE op[i].next < MaxFiles
    <3> DEFINE o == [op[i] EXCEPT !.next = @ + 1]
               f == op[i].next
    <3>1. f \in Indexes /\ f \in Nat /\ f + 1 \in 0..MaxFiles
      BY <2>1, <2>2, FileNumbers DEF Indexes
    <3>2. o \in Unlinks /\ o.next = f + 1 /\ o.at = "unlink"
      BY <2>1, <3>1 DEF Unlinks
    <3>3. o \in Operations
      BY <3>2 DEF Operations, Unlinks
    <3>4. Step(i, o) /\ files' = [files EXCEPT ![i][f] = <<>>]
      BY <1>15, <2>2 DEF Unlink
    <3> HIDE DEF o, f
    <3>5. \A n \in Indexes : n < f + 1 => files'[i][n] = <<>>
      <4>1. \A n \in Indexes : n < f + 1 => n < f \/ n = f
        BY <3>1, FileNumbers
      <4>2. files'[i][f] = <<>> /\ \A n \in Indexes : n # f => files'[i][n] = files[i][n]
        <5> DEFINE none == <<>>
        <5>1. none \in Seq(Blocks) /\ files' = [files EXCEPT ![i][f] = none]
          BY <3>4
        <5> HIDE DEF none
        <5>2. /\ files'[i][f] = none
              /\ \A j \in Instances, m \in Indexes : (j # i \/ m # f) => files'[j][m] = files[j][m]
          BY <1>1, <3>1, <5>1 DEF FileTable
        <5> QED BY <5>2 DEF none
      <4>3. \A n \in Indexes : n < f => files[i][n] = <<>>
        BY <2>1 DEF Rotation, f
      <4> QED BY <4>1, <4>2, <4>3
    <3> QED BY <3>1, <3>2, <3>3, <3>4, <3>5, AnotherFile, NoBlocks, EmptyFits
  <2>3. CASE ~(op[i].next < MaxFiles)
    <3>1. Step(i, Resting) /\ files' = files
      BY <1>15, <2>3 DEF Unlink
    <3> QED BY <3>1, SameFiles, OtherOperation DEF Resting
  <2> QED BY <2>2, <2>3
<1>16. CASE StopInstance(i)
  <2>1. Step(i, Resting)
    BY <1>16 DEF StopInstance
  <2>2. CASE files' = files
    BY <2>1, <2>2, SameFiles, OtherOperation DEF Resting
  <2>3. CASE op[i].at = "write" /\ \E closed \in BOOLEAN :
               files' = [files EXCEPT ![i][0] = Append(@, Block(i, FALSE, closed))]
    BY <2>1, <2>3, AppendFits
  <2> QED BY <1>16, <2>2, <2>3 DEF StopInstance
<1> QED BY <1>2, <1>3, <1>4, <1>5, <1>6, <1>7, <1>8, <1>9, <1>10, <1>11, <1>12, <1>13, <1>14, <1>15, <1>16
      DEF StepOf

LogTyped == LogTypeOK /\ \A i \in Instances : Rotation(i)

LEMMA RotationsKept ==
  ASSUME LogTyped, NEW i \in Instances, Fits(i), shared' = shared
  PROVE  /\ Pods' = Pods /\ Operations' = Operations
         /\ op' \in [Instances -> Operations'] /\ files' \in FileTable
         /\ \A j \in Instances, n \in Indexes : Cardinality(Whole(files'[j][n])) <= PerFile
         /\ \A j \in Instances : Rotation(j)'
<1>1. Pods' = Pods
  BY DEF Pods
<1>2. Operations' = Operations
  BY <1>1 DEF Operations
<1>3. \A j \in Instances, n \in Indexes : Cardinality(Whole(files'[j][n])) <= PerFile
  BY DEF Fits, LogTyped, LogTypeOK
<1>4. \A j \in Instances : Rotation(j)'
  BY DEF Fits, LogTyped, Rotation
<1> QED BY <1>1, <1>2, <1>3, <1>4 DEF Fits

\* The variables other than the operations and the files.
Others ==
  /\ shared \in BOOLEAN /\ time \in 1..MaxTime
  /\ marker \in 0..MaxTime /\ litter \subseteq Instances
  /\ waiting \in [Instances -> Seq(Records)]
  /\ used \in [records : 0..MaxRecords, extras : 0..MaxExtras, stops : 0..1]
  /\ past \in [Instances -> SUBSET Records]
  /\ floor \in 0..MaxTime /\ raced \in BOOLEAN

LEMMA OthersType ==
  ASSUME LogTyped, NEW i \in Instances, StepOf(i)
  PROVE  Others' /\ shared' = shared /\ time' = time
<1>1. op[i] \in Operations /\ Others
  BY DEF LogTyped, LogTypeOK, Others
<1> USE <1>1 DEF Others
<1>2. CASE StartAppend(i)
  <2>1. Tail(waiting[i]) \in Seq(Records)
    BY <1>2 DEF StartAppend
  <2> QED BY <1>2, <2>1 DEF StartAppend
<1>3. CASE StartClear(i) \/ StartRead(i)
  <2>1. used.extras + 1 \in 0..MaxExtras
    BY <1>3, FileNumbers DEF StartClear, StartRead, Start
  <2>2. raced' \in BOOLEAN
    BY <1>3 DEF StartClear, StartRead
  <2> QED BY <1>3, <2>1, <2>2 DEF StartClear, StartRead, Start
<1>4. CASE LookAtSize(i) \/ DropOldest(i) \/ MoveUp(i) \/ ReadCutoff(i) \/ ReadFile(i) \/ Answer(i) \/ Stamp(i)
  BY <1>4 DEF LookAtSize, DropOldest, MoveUp, ReadCutoff, ReadFile, Answer, Stamp
<1>5. CASE Write(i)
  <2>1. op[i].record \in Records
    BY <1>5, Operation DEF Write, Appending
  <2> QED BY <1>5, <2>1 DEF Write
<1>6. CASE SwapDirectory(i) \/ Sweep(i)
  BY <1>6 DEF SwapDirectory, Sweep
<1>7. CASE RenameMarker(i)
  <2>1. op[i].cutoff \in 1..MaxTime
    BY <1>7, Operation DEF RenameMarker
  <2>2. marker' \in 0..MaxTime
    <3>1. \A t \in 1..MaxTime : t \in 0..MaxTime
      BY FileNumbers
    <3>2. marker' = op[i].cutoff
      BY <1>7 DEF RenameMarker
    <3> QED BY <2>1, <3>1, <3>2
  <2>3. past' \in [Instances -> SUBSET Records]
    BY <1>7 DEF RenameMarker
  <2> QED BY <1>7, <2>2, <2>3 DEF RenameMarker
<1>8. CASE Unlink(i)
  <2>1. op[i].cutoff \in 1..MaxTime
    BY <1>8, Operation DEF Unlink, Unlinks
  <2> QED BY <1>8, <2>1 DEF Unlink
<1>9. CASE StopInstance(i)
  <2>1. used.extras + 1 \in 0..MaxExtras
    BY <1>9, FileNumbers DEF StopInstance
  <2>2. waiting' \in [Instances -> Seq(Records)]
    BY <1>9 DEF StopInstance
  <2>3. used' \in [records : 0..MaxRecords, extras : 0..MaxExtras, stops : 0..1]
    <3>1. used' = [[used EXCEPT !.extras = @ + 1] EXCEPT !.stops = 1]
      BY <1>9 DEF StopInstance
    <3>2. [used EXCEPT !.extras = @ + 1] \in [records : 0..MaxRecords, extras : 0..MaxExtras, stops : 0..1]
      BY <2>1
    <3>3. 1 \in 0..1
      OBVIOUS
    <3> QED BY <3>1, <3>2, <3>3
  <2> QED BY <1>9, <2>2, <2>3 DEF StopInstance
<1> QED BY <1>2, <1>3, <1>4, <1>5, <1>6, <1>7, <1>8, <1>9 DEF StepOf

LEMMA TypeParts == LogTypeOK <=> /\ Others /\ op \in [Instances -> Operations] /\ files \in FileTable
                                 /\ \A i \in Instances, n \in Indexes : Cardinality(Whole(files[i][n])) <= PerFile
BY DEF LogTypeOK, Others, FileTable

\* A step is the clock's, a failure's or an instance's.
LEMMA Steps ==
  ASSUME LogNext
  PROVE  LogTick \/ \E i \in Pods : Report(i) \/ StepOf(i)
BY DEF LogNext, StepOf

LEMMA SameRotation ==
  ASSUME UNCHANGED <<files, op>>
  PROVE  \A i \in Instances : Rotation(i) <=> Rotation(i)'
BY DEF Rotation

LEMMA LogTypeStep ==
  ASSUME LogTyped, [LogNext]_logVars
  PROVE  LogTyped'
<1>1. CASE UNCHANGED <<files, op, shared>> /\ Others'
  <2>1. Operations' = Operations
    BY <1>1 DEF Operations, Pods
  <2>2. LogTypeOK'
    BY <1>1, <2>1 DEF LogTyped, LogTypeOK, Others
  <2> QED BY <1>1, <2>2, SameRotation DEF LogTyped
<1>2. CASE UNCHANGED logVars
  <2>1. UNCHANGED <<files, op, shared>> /\ Others'
    BY <1>2 DEF logVars, LogTyped, LogTypeOK, Others
  <2> QED BY <1>1, <2>1
<1>3. CASE LogTick
  <2>1. UNCHANGED <<files, op, shared>> /\ Others'
    BY <1>3, FileNumbers DEF LogTick, LogTyped, LogTypeOK, Others
  <2> QED BY <1>1, <2>1
<1>4. ASSUME NEW i \in Pods, Report(i) PROVE LogTyped'
  <2>1. UNCHANGED <<files, op, shared, time, marker, litter, past, floor, raced>> /\ i \in Instances
    BY <1>4, PodsAreInstances DEF Report
  <2>2. Others
    BY DEF LogTyped, LogTypeOK, Others
  <2>3. used.records + 1 \in 1..MaxRecords /\ used' = [used EXCEPT !.records = @ + 1]
    BY <1>4, <2>2, FileNumbers DEF Report, Others
  <2>4. [id |-> used.records + 1, time |-> time] \in Records
    BY <2>2, <2>3 DEF Records, Others
  <2>5. waiting' = [waiting EXCEPT ![i] = Append(@, [id |-> used.records + 1, time |-> time])]
    BY <1>4 DEF Report
  <2>6. waiting' \in [Instances -> Seq(Records)]
    BY <2>1, <2>2, <2>4, <2>5 DEF Others
  <2>7. used' \in [records : 0..MaxRecords, extras : 0..MaxExtras, stops : 0..1]
    BY <2>2, <2>3 DEF Others
  <2>8. Others'
    BY <2>1, <2>2, <2>6, <2>7 DEF Others
  <2> QED BY <1>1, <2>1, <2>8
<1>5. ASSUME NEW i \in Pods, StepOf(i) PROVE LogTyped'
  <2>1. i \in Instances
    BY PodsAreInstances
  <2>2. Fits(i)
    BY <1>5, <2>1, FilesFit DEF LogTyped
  <2>3. Others' /\ shared' = shared
    BY <1>5, <2>1, OthersType
  <2>4. /\ op' \in [Instances -> Operations'] /\ files' \in FileTable
        /\ \A j \in Instances, n \in Indexes : Cardinality(Whole(files'[j][n])) <= PerFile
        /\ \A j \in Instances : Rotation(j)'
    BY <2>1, <2>2, <2>3, RotationsKept
  <2> QED BY <2>3, <2>4 DEF LogTyped, LogTypeOK, Others, FileTable
<1> QED BY <1>2, <1>3, <1>4, <1>5, Steps

LEMMA LogTypeInit == LogInit => LogTyped
<1> SUFFICES ASSUME LogInit PROVE LogTyped
  OBVIOUS
<1>1. op \in [Instances -> Operations]
  BY OtherOperation DEF LogInit
<1>2. files \in FileTable /\ \A i \in Instances, n \in Indexes : files[i][n] = <<>>
  BY NoBlocks DEF LogInit, FileTable
<1>3. Others
  <2>1. used \in [records : 0..MaxRecords, extras : 0..MaxExtras, stops : 0..1]
    BY FileNumbers DEF LogInit
  <2>2. waiting \in [Instances -> Seq(Records)] /\ past \in [Instances -> SUBSET Records]
    BY DEF LogInit
  <2>3. 1 \in 1..MaxTime /\ 0 \in 0..MaxTime
    BY FileNumbers
  <2>4. shared \in BOOLEAN /\ time = 1 /\ marker = 0 /\ litter = {} /\ floor = 0 /\ raced = FALSE
    BY DEF LogInit
  <2> QED BY <2>1, <2>2, <2>3, <2>4 DEF Others
<1>4. LogTypeOK
  BY <1>1, <1>2, <1>3, EmptyFits DEF LogTypeOK, Others, FileTable
<1>5. \A i \in Instances : op[i].at = "idle"
  BY DEF LogInit, Resting
<1>6. \A i \in Instances : Rotation(i)
  BY <1>2, <1>5, NoBlocks DEF Rotation
<1> QED BY <1>4, <1>6 DEF LogTyped


-----------------------------------------------------------------------------
(* What the files hold. *)

\* The records of an instance that are not written yet, and those it wrote.
Coming(i) == {r \in Records : \/ \E k \in DOMAIN waiting[i] : waiting[i][k] = r
                              \/ op[i].at \in Appending /\ op[i].record = r}
Written(i) == Kept(i) \union past[i]

\* Records wait in the order in which they were made.
WaitInOrder(i) ==
  /\ \A k, l \in DOMAIN waiting[i] : k < l => waiting[i][k].id < waiting[i][l].id
  /\ op[i].at \in Appending => \A k \in DOMAIN waiting[i] : op[i].record.id < waiting[i][k].id

\* Those that are written are older than those that are not, and none is missing between
\* two that are kept.
Ordered(i) ==
  /\ InOrder(i) /\ WaitInOrder(i)
  /\ \A r \in Written(i), p \in Coming(i) : r.id < p.id
  /\ \A s \in Kept(i), r \in past[i] : r.id > s.id => r \in Kept(i)
  /\ \A r \in Written(i) \union Coming(i) : r.id <= used.records /\ r.time <= time
  /\ op[i].at = "unlink" => past[i] = {}

\* What an instance does not remember having written is hidden.
Cleared(i) ==
  /\ \A r \in Kept(i) \ past[i] : Hidden(r, marker)
  /\ Clearing(i) => shared
  /\ op[i].at = "rename marker" =>
       /\ marker <= op[i].cutoff /\ op[i].cutoff <= time
       /\ \A r \in Written(i) : r.time <= op[i].cutoff
  /\ op[i].at = "unlink" => op[i].cutoff <= marker
  /\ op[i].at = "cutoff" => op[i].floor <= floor
  /\ op[i].at = "scan" => op[i].floor <= op[i].cutoff

ClearsAlone ==
  /\ \A i, j \in Instances : Clearing(i) /\ Clearing(j) => i = j
  /\ \A i \in Instances : Cleared(i)
  /\ marker <= time /\ floor <= marker

\* A list shows what is not hidden.
ReadsShown(i) == op[i].at = "scan" => \A r \in op[i].got : ~Hidden(r, op[i].cutoff)

\* While no instance stopped, the files are full up to the one that is written, or that
\* is empty while the others move.
Full(i, n) == Len(files[i][n]) >= PerFile
Short(i, n) == IF op[i].at = "move" THEN n = op[i].moved ELSE op[i].at # "drop oldest" /\ n = 0

Packed(i) ==
  /\ \A n \in Indexes : \A k \in DOMAIN files[i][n] : files[i][n][k].whole
  /\ op[i].at # "unlink" => \A n, m \in Indexes :
       files[i][n] # <<>> /\ m < n => Full(i, m) \/ Short(i, m)
  /\ op[i].at = "drop oldest" => Full(i, 0)
  /\ past[i] \subseteq Kept(i) \/ \A n \in Indexes : Full(i, n) \/ Short(i, n)

\* No record is of two instances, and none that is read waits to be written.
Distinct ==
  /\ \A i, j \in Instances : i # j => \A r \in Coming(i), s \in Written(j) \union Coming(j) : r.id # s.id
  /\ \A i, j \in Instances : op[i].at = "scan" => \A r \in Coming(j), s \in op[i].there : r.id # s.id
  /\ \A i \in Instances : op[i].at = "scan" => \A s \in op[i].there : s.id <= used.records

\* What a read has still to find lies in the files that it did not read.
StillToRead(i) ==
  op[i].at = "scan" => \A j \in Pods, n \in Indexes : \A r \in FileRecords(j, n) :
    r \in op[i].there /\ ~Hidden(r, op[i].cutoff) => r \in op[i].got \/ op[i].done[j] <= n

LogInv ==
  /\ LogTyped
  /\ \A i \in Instances : Ordered(i) /\ ReadsShown(i) /\ StillToRead(i)
  /\ Distinct
  /\ ~raced => ClearsAlone
  /\ used.stops = 0 => \A i \in Instances : Packed(i)


-----------------------------------------------------------------------------
(* What a step does to the files. *)

FewerFiles(i) == \A n \in Indexes : files'[i][n] = files[i][n] \/ files'[i][n] = <<>>

MovesFile(i) == MoveUp(i) /\ op[i].moved # 0

TearsBlock(i) == /\ StopInstance(i) /\ op[i].at = "write"
                 /\ \E closed \in BOOLEAN : files' = [files EXCEPT ![i][0] = Append(@, Block(i, FALSE, closed))]

LEMMA FilesChange ==
  ASSUME LogTyped, NEW i \in Instances, StepOf(i)
  PROVE  /\ FewerFiles(i) \/ MovesFile(i) \/ Write(i) \/ TearsBlock(i)
         /\ \/ files' = files \/ MovesFile(i) \/ Write(i) \/ TearsBlock(i)
            \/ DropOldest(i) \/ SwapDirectory(i) \/ Unlink(i)
<1>1. files \in FileTable /\ op[i] \in Operations
  BY DEF LogTyped, LogTypeOK, FileTable
<1>2. files' = files => FewerFiles(i)
  BY DEF FewerFiles
<1>3. CASE StartAppend(i) \/ StartClear(i) \/ StartRead(i) \/ LookAtSize(i) \/ ReadCutoff(i) \/ ReadFile(i)
           \/ Answer(i) \/ Sweep(i) \/ Stamp(i) \/ RenameMarker(i)
  <2>1. files' = files
    BY <1>3 DEF StartAppend, StartClear, StartRead, Start, LookAtSize, ReadCutoff, ReadFile, Answer, Sweep, Stamp,
                RenameMarker
  <2> QED BY <1>2, <2>1
<1>4. CASE DropOldest(i)
  <2>1. files' = [files EXCEPT ![i][MaxFiles - 1] = <<>>]
    BY <1>4 DEF DropOldest
  <2> QED BY <1>1, <1>4, <2>1, FileNumbers DEF FewerFiles, FileTable
<1>5. CASE MoveUp(i)
  BY <1>2, <1>5 DEF MoveUp, MovesFile
<1>6. CASE SwapDirectory(i)
  BY <1>1, <1>6 DEF SwapDirectory, EmptyFiles, FewerFiles, FileTable
<1>7. CASE Unlink(i)
  <2>1. CASE op[i].next < MaxFiles
    <3>1. files' = [files EXCEPT ![i][op[i].next] = <<>>]
      BY <1>7, <2>1 DEF Unlink
    <3> QED BY <1>1, <1>7, <3>1 DEF FewerFiles, FileTable
  <2>2. CASE ~(op[i].next < MaxFiles)
    BY <1>2, <1>7, <2>2 DEF Unlink
  <2> QED BY <2>1, <2>2
<1>8. CASE StopInstance(i)
  BY <1>2, <1>8 DEF StopInstance, TearsBlock
<1> QED BY <1>3, <1>4, <1>5, <1>6, <1>7, <1>8 DEF StepOf

\* A block, and the record in it.
LEMMA RecordOfBlock ==
  ASSUME NEW i \in Instances, NEW n \in Indexes
  PROVE  /\ \A k \in Readable(files[i][n]) : files[i][n][k].record \in FileRecords(i, n)
         /\ \A r \in FileRecords(i, n) : \E k \in Readable(files[i][n]) : r = files[i][n][k].record
         /\ FileRecords(i, n) \subseteq Kept(i)
         /\ files[i][n] = <<>> => FileRecords(i, n) = {}
BY NoBlocks DEF FileRecords, Kept

\* In order: of two records the one in the higher file is the older one.
LEMMA HigherIsOlder ==
  ASSUME NEW i \in Instances, InOrder(i), NEW n \in Indexes, NEW m \in Indexes, n > m,
         NEW r \in FileRecords(i, n), NEW s \in FileRecords(i, m)
  PROVE  r.id < s.id
<1>1. PICK k \in Readable(files[i][n]) : r = files[i][n][k].record
  BY DEF FileRecords
<1>2. PICK l \in Readable(files[i][m]) : s = files[i][m][l].record
  BY DEF FileRecords
<1> QED BY <1>1, <1>2 DEF InOrder

LEMMA FewerContents ==
  ASSUME NEW i \in Instances, FewerFiles(i), InOrder(i)
  PROVE  /\ InOrder(i)' /\ Kept(i)' \subseteq Kept(i)
         /\ \A n \in Indexes : FileRecords(i, n)' \subseteq FileRecords(i, n)
<1>1. \A n \in Indexes : Readable(files'[i][n]) = {} \/ files'[i][n] = files[i][n]
  BY NoBlocks DEF FewerFiles
<1>2. \A n \in Indexes : FileRecords(i, n)' \subseteq FileRecords(i, n)
  BY <1>1 DEF FileRecords
<1>3. InOrder(i)'
  BY <1>1 DEF InOrder
<1> QED BY <1>2, <1>3 DEF Kept

LEMMA MovedContents ==
  ASSUME LogTyped, NEW i \in Instances, MovesFile(i), InOrder(i)
  PROVE  /\ InOrder(i)' /\ Kept(i)' = Kept(i)
         /\ \A n \in Indexes : \A r \in FileRecords(i, n)' : \E m \in Indexes : m <= n /\ r \in FileRecords(i, m)
<1>1. op[i].at = "move" /\ op[i].moved # 0 /\ MoveUp(i) /\ LogTypeOK /\ Rotation(i)
  BY DEF MovesFile, MoveUp, LogTyped
<1>2. PICK h \in Indexes, n \in Indexes :
      /\ h \in Nat \ {0} /\ n \in Nat /\ n + 1 = h /\ n <= h /\ h = op[i].moved
      /\ \A m \in Indexes : m \notin {n, h} => files'[i][m] = files[i][m]
      /\ files[i][n] = <<>> => files' = files
      /\ files[i][n] # <<>> => files'[i][n] = <<>> /\ files'[i][h] = files[i][n]
  BY <1>1, MovedOne
<1>3. files[i][h] = <<>>
  BY <1>1, <1>2 DEF Rotation
<1>4. \A m \in Indexes : m \in Nat
  BY FileNumbers
<1>5. CASE files[i][n] = <<>>
  <2>1. files' = files
    BY <1>2, <1>5
  <2>2. Kept(i)' = Kept(i) /\ \A m \in Indexes : FileRecords(i, m)' = FileRecords(i, m)
    BY <2>1 DEF Kept, FileRecords
  <2>3. InOrder(i)'
    BY <2>1 DEF InOrder
  <2> QED BY <1>4, <2>2, <2>3
<1>6. CASE files[i][n] # <<>>
  <2>1. /\ FileRecords(i, n)' = {} /\ FileRecords(i, h) = {} /\ FileRecords(i, h)' = FileRecords(i, n)
        /\ \A m \in Indexes : m \notin {n, h} => FileRecords(i, m)' = FileRecords(i, m)
    <3>1. Readable(<<>>) = {} /\ files'[i][n] = <<>> /\ files'[i][h] = files[i][n]
      BY <1>2, <1>6, NoBlocks
    <3>2. FileRecords(i, n)' = {} /\ FileRecords(i, h) = {}
      BY <1>3, <3>1 DEF FileRecords
    <3>3. FileRecords(i, h)' = FileRecords(i, n)
      BY <3>1 DEF FileRecords
    <3>4. \A m \in Indexes : m \notin {n, h} => FileRecords(i, m)' = FileRecords(i, m)
      BY <1>2 DEF FileRecords
    <3> QED BY <3>2, <3>3, <3>4
  <2>2. Kept(i)' = Kept(i)
    BY <1>2, <2>1 DEF Kept
  <2>3. \A m \in Indexes : \A r \in FileRecords(i, m)' : \E l \in Indexes : l <= m /\ r \in FileRecords(i, l)
    <3> SUFFICES ASSUME NEW m \in Indexes, NEW r \in FileRecords(i, m)'
                 PROVE  \E l \in Indexes : l <= m /\ r \in FileRecords(i, l)
      OBVIOUS
    <3>1. CASE m = h
      <4>1. r \in FileRecords(i, n)
        BY <2>1, <3>1
      <4> QED BY <1>2, <3>1, <4>1
    <3>2. CASE m # h
      BY <1>4, <2>1, <3>2
    <3> QED BY <3>1, <3>2
  <2>4. InOrder(i)'
    <3> SUFFICES ASSUME NEW a \in Indexes, NEW b \in Indexes,
                        NEW k \in Readable(files'[i][a]), NEW l \in Readable(files'[i][b]),
                        a > b \/ (a = b /\ k < l)
                 PROVE  files'[i][a][k].record.id < files'[i][b][l].record.id
      BY DEF InOrder
    <3>1. a # n /\ b # n
      BY <1>2, <1>6, NoBlocks
    <3> DEFINE From(x) == IF x = h THEN n ELSE x
    <3>2. /\ files'[i][a] = files[i][From(a)] /\ files'[i][b] = files[i][From(b)]
          /\ From(a) \in Indexes /\ From(b) \in Indexes
      BY <1>2, <1>6, <3>1
    <3>3. From(a) > From(b) \/ (From(a) = From(b) /\ k < l)
      BY <1>2, <1>4, <3>1
    <3> QED BY <3>2, <3>3 DEF InOrder
  <2> QED BY <2>2, <2>3, <2>4
<1> QED BY <1>5, <1>6

LEMMA AppendedContents ==
  ASSUME LogTyped, NEW i \in Instances, op[i].at = "write", NEW whole \in BOOLEAN, NEW closed \in BOOLEAN,
         files' = [files EXCEPT ![i][0] = Append(@, Block(i, whole, closed))],
         InOrder(i), whole => \A r \in Kept(i) : r.id < op[i].record.id
  PROVE  /\ InOrder(i)'
         /\ Kept(i)' = Kept(i) \union (IF whole THEN {op[i].record} ELSE {})
         /\ FileRecords(i, 0)' = FileRecords(i, 0) \union (IF whole THEN {op[i].record} ELSE {})
         /\ \A n \in Indexes : n # 0 => FileRecords(i, n)' = FileRecords(i, n)
<1> DEFINE b == Block(i, whole, closed)
           s == files[i][0]
           added == IF whole THEN {op[i].record} ELSE {}
<1>1. /\ s \in Seq(Blocks) /\ b \in Blocks /\ b.line /\ b.whole = whole /\ b.record = op[i].record /\ 0 \in Indexes
  <2>1. s \in Seq(Blocks) /\ 0 \in Indexes
    BY FileNumbers DEF LogTyped, LogTypeOK
  <2>2. b \in Blocks /\ b.line /\ b.whole = whole /\ b.record = op[i].record
    BY BlockType DEF LogTyped, Appending
  <2> QED BY <2>1, <2>2
<1> HIDE DEF b
<1>2. files'[i][0] = Append(s, b) /\ \A n \in Indexes : n # 0 => files'[i][n] = files[i][n]
  BY <1>1 DEF b, LogTyped, LogTypeOK
<1> HIDE DEF s
<1>3. /\ Len(s) \in Nat /\ Readable(s) \subseteq 1..Len(s)
      /\ Readable(Append(s, b)) = Readable(s) \union (IF whole THEN {Len(s) + 1} ELSE {})
      /\ \A k \in Readable(s) : Append(s, b)[k] = s[k]
      /\ Append(s, b)[Len(s) + 1] = b
  BY <1>1, OneBlockMore DEF Readable
<1>4. FileRecords(i, 0)' = FileRecords(i, 0) \union added
  <2>1. FileRecords(i, 0)' = {Append(s, b)[k].record : k \in Readable(Append(s, b))}
    BY <1>2 DEF FileRecords
  <2>2. FileRecords(i, 0) = {s[k].record : k \in Readable(s)}
    BY DEF FileRecords, s
  <2>3. CASE whole
    BY <1>1, <1>3, <2>1, <2>2, <2>3
  <2>4. CASE ~whole
    <3>1. Readable(Append(s, b)) = Readable(s)
      BY <1>3, <2>4
    <3> QED BY <1>3, <2>1, <2>2, <2>4, <3>1
  <2> QED BY <2>3, <2>4
<1>5. \A n \in Indexes : n # 0 => FileRecords(i, n)' = FileRecords(i, n)
  BY <1>2 DEF FileRecords
<1>6. Kept(i)' = Kept(i) \union added
  BY <1>1, <1>4, <1>5 DEF Kept
<1>7. InOrder(i)'
  <2> SUFFICES ASSUME NEW n \in Indexes, NEW m \in Indexes,
                      NEW k \in Readable(files'[i][n]), NEW l \in Readable(files'[i][m]),
                      n > m \/ (n = m /\ k < l)
               PROVE  files'[i][n][k].record.id < files'[i][m][l].record.id
    BY DEF InOrder
  <2>1. \A x \in Indexes : x \in Nat
    BY FileNumbers
  <2>2. ~(n = 0 /\ k = Len(s) + 1)
    <3> SUFFICES ASSUME n = 0, k = Len(s) + 1 PROVE FALSE
      OBVIOUS
    <3>1. m = 0 /\ k < l
      BY <2>1
    <3>2. l \in Readable(Append(s, b))
      BY <1>2, <3>1
    <3>3. l \in 1..Len(s) \/ l = Len(s) + 1
      BY <1>3, <3>2
    <3> QED BY <1>3, <3>1, <3>3
  <2>3. k \in Readable(files[i][n]) /\ files'[i][n][k] = files[i][n][k]
    <3>1. CASE n = 0
      <4>1. k \in Readable(s) /\ files'[i][n] = Append(s, b) /\ files[i][n] = s
        BY <1>2, <1>3, <2>2, <3>1 DEF s
      <4> QED BY <1>3, <4>1
    <3>2. CASE n # 0
      BY <1>2, <3>2
    <3> QED BY <3>1, <3>2
  <2>4. CASE m = 0 /\ l = Len(s) + 1 /\ whole
    <3>1. files[i][n][k].record \in Kept(i)
      BY <2>3, RecordOfBlock
    <3>2. files'[i][m][l] = b
      BY <1>2, <1>3, <2>4
    <3> QED BY <1>1, <2>3, <2>4, <3>1, <3>2
  <2>5. CASE ~(m = 0 /\ l = Len(s) + 1 /\ whole)
    <3>1. l \in Readable(files[i][m]) /\ files'[i][m][l] = files[i][m][l]
      <4>1. CASE m = 0
        <5>1. l \in Readable(s) /\ files'[i][m] = Append(s, b) /\ files[i][m] = s
          BY <1>2, <1>3, <2>5, <4>1 DEF s
        <5> QED BY <1>3, <5>1
      <4>2. CASE m # 0
        BY <1>2, <4>2
      <4> QED BY <4>1, <4>2
    <3> QED BY <2>3, <3>1 DEF InOrder
  <2> QED BY <2>4, <2>5
<1> QED BY <1>4, <1>5, <1>6, <1>7


-----------------------------------------------------------------------------
(* What waits to be written. *)

\* Where an operation goes from where it is.
LEMMA WhereNext ==
  ASSUME LogTyped, NEW i \in Instances
  PROVE  /\ StartAppend(i) => op[i].at = "idle" /\ op'[i].at = "size" /\ op'[i].record = Head(waiting[i])
         /\ StartClear(i) => op[i].at = "idle" /\ op'[i].at = IF shared THEN "stamp" ELSE "swap"
         /\ StartRead(i) => op[i].at = "idle" /\ op'[i].at = "cutoff" /\ op'[i].floor = floor
         /\ LookAtSize(i) => op[i].at = "size" /\ op'[i].at \in {"drop oldest", "write"} /\ op'[i].record = op[i].record
         /\ DropOldest(i) => op[i].at = "drop oldest" /\ op'[i].at = "move" /\ op'[i].record = op[i].record
                             /\ op'[i].moved = MaxFiles - 1
         /\ MoveUp(i) => op[i].at = "move" /\ op'[i].record = op[i].record
                         /\ op'[i].at = IF op[i].moved = 0 THEN "write" ELSE "move"
         /\ Write(i) \/ Answer(i) \/ Sweep(i) \/ StopInstance(i) => op'[i].at = "idle"
         /\ Write(i) => op[i].at = "write"
         /\ StopInstance(i) => op[i].at # "idle"
         /\ Answer(i) => op[i].at = "scan"
         /\ Sweep(i) => op[i].at = "sweep"
         /\ ReadCutoff(i) => op[i].at = "cutoff" /\ op'[i].at = "scan" /\ op'[i].cutoff = marker
                             /\ op'[i].floor = op[i].floor /\ op'[i].done = [j \in Pods |-> 0]
                             /\ op'[i].got = {} /\ op'[i].there = Stored(marker)
         /\ ReadFile(i) => op[i].at = "scan" /\ op'[i].at = "scan"
         /\ SwapDirectory(i) => op[i].at = "swap" /\ op'[i].at = "sweep"
         /\ Stamp(i) => op[i].at = "stamp" /\ op'[i].at = "rename marker" /\ op'[i].cutoff = time
         /\ RenameMarker(i) => op[i].at = "rename marker" /\ op'[i].at = "unlink" /\ op'[i].cutoff = op[i].cutoff
         /\ Unlink(i) => op[i].at = "unlink" /\ op'[i].at \in {"unlink", "idle"}
                         /\ (op'[i].at = "unlink" => op[i].next < MaxFiles /\ op'[i].cutoff = op[i].cutoff)
                         /\ (op'[i].at = "idle" => op[i].next >= MaxFiles)
<1>1. op \in [Instances -> Operations] /\ op[i] \in Operations
  BY DEF LogTyped, LogTypeOK
<1>2. ASSUME NEW o, Step(i, o) PROVE op'[i] = o
  BY <1>1, <1>2 DEF Step
<1>3. StartAppend(i) => op[i].at = "idle" /\ op'[i].at = "size" /\ op'[i].record = Head(waiting[i])
  <2>1. StartAppend(i) => op'[i] = [at |-> "size", record |-> Head(waiting[i])]
    BY <1>2 DEF StartAppend
  <2> QED BY <2>1 DEF StartAppend, Busy
<1>4. StartClear(i) => op[i].at = "idle" /\ op'[i].at = IF shared THEN "stamp" ELSE "swap"
  <2>1. StartClear(i) => op'[i] = [at |-> IF shared THEN "stamp" ELSE "swap"]
    BY <1>2 DEF StartClear, Start
  <2> QED BY <2>1 DEF StartClear, Start, Busy
<1>5. StartRead(i) => op[i].at = "idle" /\ op'[i].at = "cutoff" /\ op'[i].floor = floor
  <2>1. StartRead(i) => op'[i] = [at |-> "cutoff", floor |-> floor]
    BY <1>2 DEF StartRead, Start
  <2> QED BY <2>1 DEF StartRead, Start, Busy
<1>6. LookAtSize(i) => op[i].at = "size" /\ op'[i].at \in {"drop oldest", "write"} /\ op'[i].record = op[i].record
  <2>1. LookAtSize(i) => \/ op'[i] = [at |-> "drop oldest", record |-> op[i].record]
                         \/ op'[i] = [at |-> "write", record |-> op[i].record]
    BY <1>2 DEF LookAtSize
  <2>2. LookAtSize(i) => op[i].at = "size"
    BY DEF LookAtSize
  <2>3. ASSUME NEW at, op'[i] = [at |-> at, record |-> op[i].record]
        PROVE  op'[i].at = at /\ op'[i].record = op[i].record
    <3>1. op'[i].at = at
      BY <2>3
    <3>2. op'[i].record = op[i].record
      BY <2>3
    <3> QED BY <3>1, <3>2
  <2> QED BY <2>1, <2>2, <2>3, Zenon
<1>7. DropOldest(i) => op[i].at = "drop oldest" /\ op'[i].at = "move" /\ op'[i].record = op[i].record
                       /\ op'[i].moved = MaxFiles - 1
  <2>1. DropOldest(i) => op'[i] = [at |-> "move", record |-> op[i].record, moved |-> MaxFiles - 1]
    BY <1>2 DEF DropOldest
  <2>2. DropOldest(i) => op[i].at = "drop oldest"
    BY DEF DropOldest
  <2>3. DropOldest(i) => op'[i].at = "move"
    BY <2>1
  <2>4. DropOldest(i) => op'[i].record = op[i].record
    BY <2>1
  <2>5. DropOldest(i) => op'[i].moved = MaxFiles - 1
    BY <2>1
  <2> QED BY <2>2, <2>3, <2>4, <2>5
<1>8. MoveUp(i) => op[i].at = "move" /\ op'[i].record = op[i].record
                   /\ op'[i].at = IF op[i].moved = 0 THEN "write" ELSE "move"
  <2> SUFFICES ASSUME MoveUp(i)
               PROVE  op[i].at = "move" /\ op'[i].record = op[i].record
                      /\ op'[i].at = IF op[i].moved = 0 THEN "write" ELSE "move"
    OBVIOUS
  <2>1. op[i].at = "move" /\ op[i] \in Moves
    BY <1>1, Operation DEF MoveUp
  <2>2. CASE op[i].moved = 0
    <3>1. op'[i] = [at |-> "write", record |-> op[i].record]
      BY <1>2, <2>2 DEF MoveUp
    <3> QED BY <2>1, <2>2, <3>1
  <2>3. CASE op[i].moved # 0
    <3>1. op'[i] = [op[i] EXCEPT !.moved = NextToMove(op[i].moved)]
      BY <1>2, <2>3 DEF MoveUp
    <3> QED BY <2>1, <2>3, <3>1 DEF Moves
  <2> QED BY <2>2, <2>3
<1>9. Write(i) \/ Answer(i) \/ Sweep(i) \/ StopInstance(i) => op'[i].at = "idle"
  <2>1. Write(i) \/ Answer(i) \/ Sweep(i) \/ StopInstance(i) => op'[i] = Resting
    BY <1>2 DEF Write, Answer, Sweep, StopInstance
  <2> QED BY <2>1 DEF Resting
<1>10. /\ Write(i) => op[i].at = "write"
       /\ StopInstance(i) => op[i].at # "idle"
       /\ Answer(i) => op[i].at = "scan"
       /\ Sweep(i) => op[i].at = "sweep"
  BY DEF Write, StopInstance, Answer, Answering, Sweep, Busy
<1>11. ReadCutoff(i) => op[i].at = "cutoff" /\ op'[i].at = "scan" /\ op'[i].cutoff = marker
                        /\ op'[i].floor = op[i].floor /\ op'[i].done = [j \in Pods |-> 0]
                        /\ op'[i].got = {} /\ op'[i].there = Stored(marker)
  <2>1. ReadCutoff(i) => op'[i] = [at |-> "scan", cutoff |-> marker, floor |-> op[i].floor,
              done |-> [j \in Pods |-> 0], got |-> {}, there |-> Stored(marker)]
    BY <1>2 DEF ReadCutoff
  <2>2. ReadCutoff(i) => op[i].at = "cutoff"
    BY DEF ReadCutoff
  <2> QED BY <2>1, <2>2
<1>12. ReadFile(i) => op[i].at = "scan" /\ op'[i].at = "scan"
  <2> SUFFICES ASSUME ReadFile(i) PROVE op[i].at = "scan" /\ op'[i].at = "scan"
    OBVIOUS
  <2>1. op[i].at = "scan" /\ op[i] \in Scans
    BY <1>1, Operation DEF ReadFile
  <2>2. PICK j \in Pods :
          op'[i] = [op[i] EXCEPT !.done[j] = op[i].done[j] + 1,
                       !.got = @ \union Shows(FileRecords(j, FileToRead(op[i].done[j])), op[i].cutoff)]
    BY <1>2 DEF ReadFile
  <2> QED BY <2>1, <2>2 DEF Scans
<1>13. SwapDirectory(i) => op[i].at = "swap" /\ op'[i].at = "sweep"
  <2>1. SwapDirectory(i) => op'[i] = [at |-> "sweep"] /\ op[i].at = "swap"
    BY <1>2 DEF SwapDirectory
  <2> QED BY <2>1
<1>14. Stamp(i) => op[i].at = "stamp" /\ op'[i].at = "rename marker" /\ op'[i].cutoff = time
  <2>1. Stamp(i) => op'[i] = [at |-> "rename marker", cutoff |-> time] /\ op[i].at = "stamp"
    BY <1>2 DEF Stamp
  <2>2. \A c : LET o == [at |-> "rename marker", cutoff |-> c] IN o.at = "rename marker" /\ o.cutoff = c
    OBVIOUS
  <2> QED BY <2>1, <2>2, Zenon
<1>15. RenameMarker(i) => op[i].at = "rename marker" /\ op'[i].at = "unlink" /\ op'[i].cutoff = op[i].cutoff
  <2>1. RenameMarker(i) => op'[i] = [at |-> "unlink", cutoff |-> op[i].cutoff, next |-> 0] /\ op[i].at = "rename marker"
    BY <1>2 DEF RenameMarker
  <2>2. \A c : LET o == [at |-> "unlink", cutoff |-> c, next |-> 0] IN o.at = "unlink" /\ o.cutoff = c
    OBVIOUS
  <2> QED BY <2>1, <2>2, Zenon
<1>16. Unlink(i) => op[i].at = "unlink" /\ op'[i].at \in {"unlink", "idle"}
                    /\ (op'[i].at = "unlink" => op[i].next < MaxFiles /\ op'[i].cutoff = op[i].cutoff)
                    /\ (op'[i].at = "idle" => op[i].next >= MaxFiles)
  <2> SUFFICES ASSUME Unlink(i)
               PROVE  op[i].at = "unlink" /\ op'[i].at \in {"unlink", "idle"}
                      /\ (op'[i].at = "unlink" => op[i].next < MaxFiles /\ op'[i].cutoff = op[i].cutoff)
                      /\ (op'[i].at = "idle" => op[i].next >= MaxFiles)
    OBVIOUS
  <2>1. op[i].at = "unlink" /\ op[i] \in Unlinks
    BY <1>1, Operation DEF Unlink
  <2>2. CASE op[i].next < MaxFiles
    <3>1. op'[i] = [op[i] EXCEPT !.next = @ + 1]
      BY <1>2, <2>2 DEF Unlink
    <3>2. op'[i].at = "unlink" /\ op'[i].cutoff = op[i].cutoff
      BY <2>1, <3>1 DEF Unlinks
    <3> QED BY <2>1, <2>2, <3>2
  <2>3. CASE ~(op[i].next < MaxFiles)
    <3>1. op'[i] = Resting
      BY <1>2, <2>3 DEF Unlink
    <3>2. op[i].next >= MaxFiles
      BY <2>1, <2>3, FileNumbers DEF Unlinks
    <3> QED BY <2>1, <3>1, <3>2 DEF Resting
  <2> QED BY <2>2, <2>3
<1> QED BY <1>3, <1>4, <1>5, <1>6, <1>7, <1>8, <1>9, <1>10, <1>11, <1>12, <1>13, <1>14, <1>15, <1>16

TakesNext(i) == waiting[i] # <<>> /\ waiting'[i] = Tail(waiting[i]) /\ op'[i].at = "size"
                /\ op'[i].record = Head(waiting[i])
GoesOn(i) == /\ waiting'[i] = waiting[i] /\ op[i].at \in Appending /\ op'[i].at \in Appending
             /\ op'[i].record = op[i].record
Forgets(i) == waiting'[i] = <<>> /\ op'[i].at = "idle"
Lets(i) == waiting'[i] = waiting[i] /\ op'[i].at \notin Appending

LEMMA WaitingChange ==
  ASSUME LogTyped, NEW i \in Instances, StepOf(i)
  PROVE  /\ TakesNext(i) \/ GoesOn(i) \/ Forgets(i) \/ Lets(i)
         /\ Write(i) => Lets(i) /\ op[i].at \in Appending
         /\ \A j \in Instances \ {i} : waiting'[j] = waiting[j] /\ past'[j] = past[j]
                                       /\ op'[j] = op[j] /\ files'[j] = files[j]
<1>1. /\ waiting \in [Instances -> Seq(Records)] /\ past \in [Instances -> SUBSET Records]
  BY DEF LogTyped, LogTypeOK
<1>2. \A j \in Instances \ {i} : op'[j] = op[j] /\ files'[j] = files[j]
  BY FilesFit DEF LogTyped, Fits
<1>3. CASE StartAppend(i)
  <2>1. op'[i].at = "size" /\ op'[i].record = Head(waiting[i]) /\ op[i].at = "idle"
    BY <1>3, WhereNext
  <2>2. waiting' = [waiting EXCEPT ![i] = Tail(@)] /\ past' = past /\ waiting[i] # <<>>
    BY <1>3 DEF StartAppend
  <2>3. TakesNext(i) /\ \A j \in Instances \ {i} : waiting'[j] = waiting[j] /\ past'[j] = past[j]
    BY <1>1, <2>1, <2>2 DEF TakesNext
  <2>4. ~Write(i)
    BY <2>1 DEF Write
  <2> QED BY <1>2, <2>3, <2>4
<1>4. CASE StartClear(i) \/ StartRead(i) \/ ReadCutoff(i) \/ ReadFile(i) \/ Answer(i) \/ Sweep(i) \/ Stamp(i)
           \/ Unlink(i)
  <2>1. waiting' = waiting /\ past' = past
    BY <1>4 DEF StartClear, StartRead, Start, ReadCutoff, ReadFile, Answer, Sweep, Stamp, Unlink
  <2>2. op'[i].at \notin Appending /\ op[i].at # "write"
    BY <1>4, WhereNext DEF Appending
  <2>3. ~Write(i)
    BY <2>2 DEF Write
  <2> QED BY <1>2, <2>1, <2>2, <2>3 DEF Lets
<1>5. CASE LookAtSize(i) \/ DropOldest(i) \/ MoveUp(i)
  <2>1. waiting' = waiting /\ past' = past
    BY <1>5 DEF LookAtSize, DropOldest, MoveUp
  <2>2. op[i].at \in Appending /\ op'[i].at \in Appending /\ op'[i].record = op[i].record /\ op[i].at # "write"
    BY <1>5, WhereNext DEF Appending
  <2>3. ~Write(i)
    BY <2>2 DEF Write
  <2> QED BY <1>2, <2>1, <2>2, <2>3 DEF GoesOn
<1>6. CASE Write(i)
  <2>1. waiting' = waiting /\ past' = [past EXCEPT ![i] = @ \union {op[i].record}]
    BY <1>6 DEF Write
  <2>2. op'[i].at \notin Appending /\ op[i].at \in Appending
    BY <1>6, WhereNext DEF Appending
  <2> QED BY <1>1, <1>2, <2>1, <2>2 DEF Lets
<1>7. CASE SwapDirectory(i) \/ RenameMarker(i)
  <2>1. waiting' = waiting /\ past' = [past EXCEPT ![i] = {}]
    BY <1>7 DEF SwapDirectory, RenameMarker
  <2>2. op'[i].at \notin Appending /\ op[i].at # "write"
    BY <1>7, WhereNext DEF Appending
  <2>3. ~Write(i)
    BY <2>2 DEF Write
  <2> QED BY <1>1, <1>2, <2>1, <2>2, <2>3 DEF Lets
<1>8. CASE StopInstance(i)
  <2>1. waiting' = [waiting EXCEPT ![i] = <<>>] /\ past' = past /\ used' # used
    <3>1. used'.extras = used.extras + 1 /\ used.extras \in Nat
      BY <1>8 DEF StopInstance, LogTyped, LogTypeOK
    <3>2. used' # used
      BY <3>1
    <3> QED BY <1>8, <3>2 DEF StopInstance
  <2>2. op'[i].at = "idle"
    BY <1>8, WhereNext
  <2>3. ~Write(i)
    BY <2>1 DEF Write
  <2> QED BY <1>1, <1>2, <2>1, <2>2, <2>3 DEF Forgets
<1> QED BY <1>3, <1>4, <1>5, <1>6, <1>7, <1>8 DEF StepOf

LEMMA ComingChange ==
  ASSUME LogTyped, NEW i \in Instances, StepOf(i), WaitInOrder(i)
  PROVE  /\ Coming(i)' \subseteq Coming(i) /\ WaitInOrder(i)'
         /\ Write(i) => op[i].record \in Coming(i) /\ \A p \in Coming(i)' : op[i].record.id < p.id
         /\ \A j \in Instances \ {i} : Coming(j)' = Coming(j) /\ (WaitInOrder(j) <=> WaitInOrder(j)')
                                       /\ Kept(j)' = Kept(j) /\ Written(j)' = Written(j)
                                       /\ (InOrder(j) <=> InOrder(j)')
                                       /\ \A n \in Indexes : FileRecords(j, n)' = FileRecords(j, n)
<1>1. waiting[i] \in Seq(Records) /\ op[i] \in Operations
  BY DEF LogTyped, LogTypeOK
<1>2. /\ TakesNext(i) \/ GoesOn(i) \/ Forgets(i) \/ Lets(i)
      /\ Write(i) => Lets(i) /\ op[i].at \in Appending
      /\ \A j \in Instances \ {i} : waiting'[j] = waiting[j] /\ past'[j] = past[j]
                                    /\ op'[j] = op[j] /\ files'[j] = files[j]
  BY WaitingChange
<1>3. \A j \in Instances \ {i} : Coming(j)' = Coming(j) /\ (WaitInOrder(j) <=> WaitInOrder(j)')
                                 /\ Kept(j)' = Kept(j) /\ Written(j)' = Written(j)
                                 /\ (InOrder(j) <=> InOrder(j)')
                                 /\ \A n \in Indexes : FileRecords(j, n)' = FileRecords(j, n)
  <2> SUFFICES ASSUME NEW j \in Instances \ {i}
               PROVE  /\ Coming(j)' = Coming(j) /\ (WaitInOrder(j) <=> WaitInOrder(j)')
                      /\ Kept(j)' = Kept(j) /\ Written(j)' = Written(j)
                      /\ (InOrder(j) <=> InOrder(j)')
                      /\ \A n \in Indexes : FileRecords(j, n)' = FileRecords(j, n)
    OBVIOUS
  <2>1. waiting'[j] = waiting[j] /\ past'[j] = past[j] /\ op'[j] = op[j] /\ files'[j] = files[j]
    BY <1>2
  <2>2. Coming(j)' = Coming(j) /\ (WaitInOrder(j) <=> WaitInOrder(j)')
    BY <2>1 DEF Coming, WaitInOrder
  <2>3. \A n \in Indexes : FileRecords(j, n)' = FileRecords(j, n)
    BY <2>1 DEF FileRecords
  <2>4. InOrder(j) <=> InOrder(j)'
    BY <2>1 DEF InOrder
  <2> QED BY <2>1, <2>2, <2>3, <2>4 DEF Kept, Written
<1>4. CASE TakesNext(i)
  <2> DEFINE w == waiting[i]
  <2>1. /\ waiting'[i] = Tail(w) /\ op'[i].record = Head(w) /\ op'[i].at = "size" /\ w # <<>>
    BY <1>4 DEF TakesNext
  <2>2. /\ Len(w) \in Nat \ {0} /\ DOMAIN w = 1..Len(w) /\ Head(w) = w[1]
        /\ DOMAIN Tail(w) = 1..(Len(w) - 1) /\ \A k \in 1..(Len(w) - 1) : Tail(w)[k] = w[k + 1]
    BY <1>1, <2>1
  <2>3. \A k, l \in DOMAIN w : k < l => w[k].id < w[l].id
    BY DEF WaitInOrder
  <2> HIDE DEF w
  <2>4. \A k \in DOMAIN Tail(w) : k + 1 \in DOMAIN w /\ 1 < k + 1 /\ Tail(w)[k] = w[k + 1] /\ 1 \in DOMAIN w
    BY <2>2
  <2>5. 1 \in DOMAIN w
    BY <2>2
  <2>6. Coming(i)' \subseteq Coming(i)
    <3>1. \A r : (\E k \in DOMAIN Tail(w) : Tail(w)[k] = r) \/ Head(w) = r => \E k \in DOMAIN w : w[k] = r
      BY <2>2, <2>4, <2>5
    <3>2. \A r \in Coming(i)' : r \in Records /\ ((\E k \in DOMAIN Tail(w) : Tail(w)[k] = r) \/ Head(w) = r)
      BY <2>1 DEF Coming
    <3> QED BY <3>1, <3>2 DEF Coming, w
  <2>7. WaitInOrder(i)'
    <3>1. \A k, l \in DOMAIN Tail(w) : k < l => Tail(w)[k].id < Tail(w)[l].id
      BY <2>2, <2>3, <2>4
    <3>2. \A k \in DOMAIN Tail(w) : Head(w).id < Tail(w)[k].id
      BY <2>2, <2>3, <2>4, <2>5
    <3> QED BY <2>1, <3>1, <3>2 DEF WaitInOrder
  <2>8. ~Write(i)
    BY <1>2, <2>1 DEF Lets, Appending
  <2> QED BY <1>3, <2>6, <2>7, <2>8
<1>5. CASE GoesOn(i)
  <2>1. ~Write(i)
    BY <1>2, <1>5 DEF Lets, GoesOn
  <2> QED BY <1>3, <1>5, <2>1 DEF GoesOn, Coming, WaitInOrder
<1>6. CASE Forgets(i)
  <2>1. op'[i].at \notin Appending /\ waiting'[i] = <<>>
    BY <1>6 DEF Forgets, Appending
  <2>2. Coming(i)' = {} /\ WaitInOrder(i)'
    BY <2>1 DEF Coming, WaitInOrder
  <2>3. Write(i) => op[i].record \in Coming(i)
    BY <1>1, <1>2, Operation DEF Coming
  <2> QED BY <1>3, <2>2, <2>3
<1>7. CASE Lets(i)
  <2>1. waiting'[i] = waiting[i] /\ op'[i].at \notin Appending
    BY <1>7 DEF Lets
  <2>2. Coming(i)' \subseteq Coming(i) /\ WaitInOrder(i)'
    BY <2>1 DEF Coming, WaitInOrder
  <2>3. Write(i) => op[i].record \in Coming(i)
    BY <1>1, <1>2, Operation DEF Coming
  <2>4. Write(i) => \A p \in Coming(i)' : op[i].record.id < p.id
    BY <1>2, <2>1 DEF Coming, WaitInOrder
  <2> QED BY <1>3, <2>2, <2>3, <2>4
<1> QED BY <1>2, <1>4, <1>5, <1>6, <1>7


-----------------------------------------------------------------------------
(* The files hold the records in order, without a gap. *)

\* The record that a step writes.
Wrote(i) == IF Write(i) THEN {op[i].record} ELSE {}

LEMMA ContentsChange ==
  ASSUME LogTyped, NEW i \in Instances, StepOf(i), Ordered(i)
  PROVE  /\ InOrder(i)'
         /\ Kept(i)' \subseteq Kept(i) \union Wrote(i)
         /\ past'[i] \subseteq past[i] \union Wrote(i)
         /\ \A n \in Indexes : \A r \in FileRecords(i, n)' :
              (\E m \in Indexes : m <= n /\ r \in FileRecords(i, m)) \/ r \in Wrote(i)
         /\ files' = files \/ MovesFile(i) \/ TearsBlock(i) => Kept(i)' = Kept(i)
         /\ Write(i) => Kept(i)' = Kept(i) \union Wrote(i) /\ past'[i] = past[i] \union Wrote(i)
<1>1. InOrder(i) /\ WaitInOrder(i) /\ \A r \in Written(i), p \in Coming(i) : r.id < p.id
  BY DEF Ordered
<1>2. \A n \in Indexes : n \in Nat
  BY FileNumbers
<1>3. past'[i] \subseteq past[i] \union Wrote(i)
  <2>1. CASE Write(i)
    BY <2>1 DEF Write, Wrote, LogTyped, LogTypeOK
  <2>2. CASE ~Write(i)
    <3>1. past' = past \/ past' = [past EXCEPT ![i] = {}]
      BY <2>2 DEF StepOf, StartAppend, StartClear, StartRead, Start, LookAtSize, DropOldest, MoveUp, ReadCutoff, ReadFile,
                  Answer, SwapDirectory, Sweep, Stamp, RenameMarker, Unlink, StopInstance
    <3> QED BY <3>1 DEF LogTyped, LogTypeOK
  <2> QED BY <2>1, <2>2
<1>4. files' = files => Kept(i)' = Kept(i)
  BY DEF Kept, FileRecords
<1>5. MovesFile(i) => Kept(i)' = Kept(i)
  BY <1>1, MovedContents
<1>6. ASSUME Write(i)
      PROVE  /\ InOrder(i)' /\ Kept(i)' = Kept(i) \union {op[i].record}
             /\ FileRecords(i, 0)' = FileRecords(i, 0) \union {op[i].record}
             /\ \A n \in Indexes : n # 0 => FileRecords(i, n)' = FileRecords(i, n)
             /\ past'[i] = past[i] \union {op[i].record}
  <2>1. op[i].at = "write" /\ files' = [files EXCEPT ![i][0] = Append(@, Block(i, TRUE, TRUE))]
    BY <1>6 DEF Write
  <2>2. \A r \in Kept(i) : r.id < op[i].record.id
    <3>1. op[i].record \in Coming(i)
      BY <1>1, <1>6, ComingChange
    <3> QED BY <1>1, <3>1 DEF Written
  <2>3. past'[i] = past[i] \union {op[i].record}
    BY <1>6 DEF Write, LogTyped, LogTypeOK
  <2> QED BY <1>1, <2>1, <2>2, <2>3, AppendedContents
<1>7. ASSUME TearsBlock(i)
      PROVE  /\ InOrder(i)' /\ Kept(i)' = Kept(i)
             /\ \A n \in Indexes : FileRecords(i, n)' = FileRecords(i, n)
  <2>1. PICK closed \in BOOLEAN : files' = [files EXCEPT ![i][0] = Append(@, Block(i, FALSE, closed))]
    BY <1>7 DEF TearsBlock
  <2>2. op[i].at = "write"
    BY <1>7 DEF TearsBlock
  <2>3. /\ InOrder(i)' /\ Kept(i)' = Kept(i) \union {} /\ FileRecords(i, 0)' = FileRecords(i, 0) \union {}
        /\ \A n \in Indexes : n # 0 => FileRecords(i, n)' = FileRecords(i, n)
    BY <1>1, <2>1, <2>2, AppendedContents
  <2>4. Kept(i)' = Kept(i) /\ FileRecords(i, 0)' = FileRecords(i, 0)
    BY <2>3
  <2> QED BY <2>3, <2>4
<1>8. CASE FewerFiles(i)
  <2>1. InOrder(i)' /\ Kept(i)' \subseteq Kept(i) /\ \A n \in Indexes : FileRecords(i, n)' \subseteq FileRecords(i, n)
    BY <1>1, <1>8, FewerContents
  <2>2. \A n \in Indexes : n <= n
    BY <1>2
  <2> QED BY <1>3, <1>4, <1>5, <1>6, <1>7, <2>1, <2>2 DEF Wrote
<1>9. CASE MovesFile(i)
  <2>1. ~Write(i)
    BY <1>9 DEF MovesFile, MoveUp, Write
  <2> QED BY <1>1, <1>3, <1>4, <1>5, <1>7, <1>9, <2>1, MovedContents
<1>10. CASE Write(i)
  <2>1. \A n \in Indexes : \A r \in FileRecords(i, n)' : r \in FileRecords(i, n) \/ r = op[i].record
    <3> SUFFICES ASSUME NEW n \in Indexes, NEW r \in FileRecords(i, n)' PROVE r \in FileRecords(i, n) \/ r = op[i].record
      OBVIOUS
    <3>1. CASE n = 0
      BY <1>6, <1>10, <3>1
    <3>2. CASE n # 0
      BY <1>6, <1>10, <3>2
    <3> QED BY <3>1, <3>2
  <2>2. \A n \in Indexes : n <= n
    BY <1>2
  <2>3. ~MovesFile(i) /\ ~TearsBlock(i)
    <3>1. op'[i].at = "idle" /\ op[i].at = "write" /\ used' = used
      BY <1>10, WhereNext DEF Write
    <3>2. used'.extras # used.extras + 1
      BY <3>1 DEF LogTyped, LogTypeOK
    <3>3. StopInstance(i) => used'.extras = used.extras + 1
      BY DEF StopInstance, LogTyped, LogTypeOK
    <3> QED BY <3>1, <3>2, <3>3 DEF MovesFile, MoveUp, TearsBlock
  <2> QED BY <1>3, <1>4, <1>6, <1>10, <2>1, <2>2, <2>3 DEF Wrote
<1>11. CASE TearsBlock(i)
  <2>1. \A n \in Indexes : n <= n
    BY <1>2
  <2> QED BY <1>3, <1>4, <1>5, <1>6, <1>7, <1>11, <2>1 DEF Wrote
<1> QED BY <1>8, <1>9, <1>10, <1>11, FilesChange

LEMMA OldestDropped ==
  ASSUME LogTyped, NEW i \in Instances, DropOldest(i), InOrder(i)
  PROVE  /\ FileRecords(i, MaxFiles - 1)' = {}
         /\ \A n \in Indexes : n # MaxFiles - 1 => FileRecords(i, n)' = FileRecords(i, n)
         /\ \A r \in Kept(i) : r \in Kept(i)' \/ \A s \in Kept(i)' : r.id < s.id
<1>1. files' = [files EXCEPT ![i][MaxFiles - 1] = <<>>] /\ files \in FileTable /\ MaxFiles - 1 \in Indexes
  BY FileNumbers DEF DropOldest, LogTyped, LogTypeOK, FileTable
<1>2. files'[i][MaxFiles - 1] = <<>> /\ \A n \in Indexes : n # MaxFiles - 1 => files'[i][n] = files[i][n]
  BY <1>1 DEF FileTable
<1>3. FileRecords(i, MaxFiles - 1)' = {}
  BY <1>2, NoBlocks DEF FileRecords
<1>4. \A n \in Indexes : n # MaxFiles - 1 => FileRecords(i, n)' = FileRecords(i, n)
  BY <1>2 DEF FileRecords
<1>5. \A n \in Indexes : n # MaxFiles - 1 => MaxFiles - 1 > n
  BY FileNumbers DEF Indexes
<1>6. ASSUME NEW r \in Kept(i), r \notin Kept(i)', NEW s \in Kept(i)' PROVE r.id < s.id
  <2>1. r \in FileRecords(i, MaxFiles - 1)
    BY <1>4, <1>6 DEF Kept
  <2>2. PICK m \in Indexes : s \in FileRecords(i, m)'
    BY DEF Kept
  <2>3. m # MaxFiles - 1
    BY <1>3, <2>2
  <2>4. s \in FileRecords(i, m) /\ MaxFiles - 1 > m
    BY <1>4, <1>5, <2>2, <2>3
  <2> QED BY <1>1, <2>1, <2>4, HigherIsOlder
<1> QED BY <1>3, <1>4, <1>6

\* What a step leaves of the counters.
LEMMA SameCounters ==
  ASSUME NEW i \in Instances, StepOf(i), LogTyped
  PROVE  used'.records = used.records /\ (used'.stops = 0 => used.stops = 0 /\ ~StopInstance(i))
         /\ (raced => raced')
<1>1. CASE StopInstance(i)
  BY <1>1 DEF StopInstance, LogTyped, LogTypeOK
<1>2. CASE StartClear(i) \/ StartRead(i)
  BY <1>2 DEF StartClear, StartRead, Start, StopInstance, Busy, LogTyped, LogTypeOK
<1>3. CASE ~StopInstance(i) /\ ~StartClear(i) /\ ~StartRead(i)
  <2>1. used' = used /\ raced' = raced
    BY <1>3 DEF StepOf, StartAppend, LookAtSize, DropOldest, MoveUp, Write, ReadCutoff, ReadFile,
                Answer, SwapDirectory, Sweep, Stamp, RenameMarker, Unlink
  <2> QED BY <1>3, <2>1
<1> QED BY <1>1, <1>2, <1>3

LEMMA OrderedStep ==
  ASSUME LogTyped, NEW i \in Instances, StepOf(i), \A j \in Instances : Ordered(j)
  PROVE  \A j \in Instances : Ordered(j)'
<1>1. /\ used'.records = used.records /\ time' = time
      /\ \A r \in Records : r.id \in Nat
  BY SameCounters, OthersType DEF Records
<1>2. Ordered(i) /\ InOrder(i) /\ WaitInOrder(i)
  BY DEF Ordered
<1>3. ASSUME NEW j \in Instances \ {i} PROVE Ordered(j)'
  <2>1. /\ Coming(j)' = Coming(j) /\ WaitInOrder(j)' /\ Kept(j)' = Kept(j) /\ Written(j)' = Written(j) /\ InOrder(j)'
        /\ op'[j] = op[j] /\ past'[j] = past[j]
    BY <1>2, ComingChange, WaitingChange DEF Ordered
  <2> QED BY <1>1, <2>1 DEF Ordered
<1>4. Ordered(i)'
  <2>1. /\ InOrder(i)' /\ Kept(i)' \subseteq Kept(i) \union Wrote(i) /\ past'[i] \subseteq past[i] \union Wrote(i)
        /\ files' = files \/ MovesFile(i) \/ TearsBlock(i) => Kept(i)' = Kept(i)
        /\ Write(i) => Kept(i)' = Kept(i) \union Wrote(i) /\ past'[i] = past[i] \union Wrote(i)
    BY <1>2, ContentsChange
  <2>2. /\ WaitInOrder(i)' /\ Coming(i)' \subseteq Coming(i)
        /\ \A w \in Wrote(i) : w \in Coming(i) /\ \A p \in Coming(i)' : w.id < p.id
    BY <1>2, ComingChange DEF Wrote
  <2>3. /\ \A r \in Written(i), p \in Coming(i) : r.id < p.id
        /\ \A s \in Kept(i), r \in past[i] : r.id > s.id => r \in Kept(i)
        /\ \A r \in Written(i) \union Coming(i) : r.id <= used.records /\ r.time <= time
        /\ op[i].at = "unlink" => past[i] = {}
    BY DEF Ordered
  <2>4. Written(i)' \subseteq Written(i) \union Wrote(i)
    BY <2>1 DEF Written
  <2>5. \A r \in Written(i)', p \in Coming(i)' : r.id < p.id
    BY <2>2, <2>3, <2>4
  <2>6. \A r \in (Written(i) \union Coming(i))' : r.id <= used'.records /\ r.time <= time'
    BY <1>1, <2>2, <2>3, <2>4
  <2>7. op'[i].at = "unlink" => past'[i] = {}
    <3>1. RenameMarker(i) => past'[i] = {}
      BY DEF RenameMarker, LogTyped, LogTypeOK
    <3>2. Unlink(i) => past' = past /\ op[i].at = "unlink"
      BY DEF Unlink
    <3>3. op'[i].at = "unlink" => RenameMarker(i) \/ Unlink(i)
      BY WhereNext DEF StepOf
    <3> QED BY <2>3, <3>1, <3>2, <3>3
  <2>8. \A s \in Kept(i)', r \in past'[i] : r.id > s.id => r \in Kept(i)'
    <3>1. CASE ~Write(i) /\ (files' = files \/ MovesFile(i) \/ TearsBlock(i))
      BY <2>1, <2>3, <3>1 DEF Wrote
    <3>2. CASE Write(i)
      <4>1. \A r \in past[i] \union Kept(i) : r \in Written(i)
        BY DEF Written
      <4>2. Wrote(i) = {op[i].record} /\ op[i].record \in Coming(i)
        BY <2>2, <3>2 DEF Wrote
      <4>3. op[i].record \in Records /\ Written(i) \subseteq Records
        BY <4>2, ShownAreRecords DEF Coming, Written, LogTyped, LogTypeOK
      <4> QED BY <1>1, <2>1, <2>3, <3>2, <4>1, <4>2, <4>3
    <3>3. CASE DropOldest(i)
      <4>1. past' = past
        BY <3>3 DEF DropOldest
      <4>2. \A r \in Kept(i) : r \in Kept(i)' \/ \A s \in Kept(i)' : r.id < s.id
        BY <1>2, <3>3, OldestDropped
      <4>3. ~Write(i)
        BY <3>3 DEF DropOldest, Write
      <4>4. Kept(i)' \subseteq Kept(i) /\ Kept(i) \subseteq Records
        BY <2>1, <4>3, ShownAreRecords DEF Wrote, LogTyped
      <4> QED BY <1>1, <2>3, <4>1, <4>2, <4>4
    <3>4. CASE SwapDirectory(i)
      <4>1. past'[i] = {}
        BY <3>4 DEF SwapDirectory, LogTyped, LogTypeOK
      <4> QED BY <4>1
    <3>5. CASE Unlink(i)
      <4>1. past'[i] = {}
        BY <2>3, <3>5 DEF Unlink
      <4> QED BY <4>1
    <3> QED BY <3>1, <3>2, <3>3, <3>4, <3>5, FilesChange
  <2> QED BY <2>1, <2>2, <2>5, <2>6, <2>7, <2>8 DEF Ordered
<1> QED BY <1>3, <1>4


-----------------------------------------------------------------------------
(* What a read finds. *)

\* What a read knows, after a step of its own.
LEMMA ScanStep ==
  ASSUME LogTyped, NEW i \in Instances, StepOf(i), op'[i].at = "scan"
  PROVE  \/ ReadCutoff(i)
         \/ /\ op[i].at = "scan" /\ op[i] \in Scans
            /\ op'[i].cutoff = op[i].cutoff /\ op'[i].floor = op[i].floor /\ op'[i].there = op[i].there
            /\ \E j \in Pods : LET n == op[i].done[j] IN
                 /\ n \in Indexes /\ n \in Nat /\ op'[i].done[j] = n + 1
                 /\ \A k \in Pods \ {j} : op'[i].done[k] = op[i].done[k]
                 /\ op'[i].got = op[i].got \union Shows(FileRecords(j, n), op[i].cutoff)
<1>1. ReadCutoff(i) \/ ReadFile(i)
  BY WhereNext DEF StepOf
<1>2. CASE ReadFile(i)
  <2>1. op[i].at = "scan" /\ op[i] \in Scans /\ op \in [Instances -> Operations]
    BY <1>2, Operation DEF ReadFile, LogTyped, LogTypeOK
  <2>2. PICK j \in Pods :
        LET n == op[i].done[j] IN
          /\ DirectoryToRead(i, j)
          /\ Step(i, [op[i] EXCEPT !.done[j] = n + 1,
                                   !.got = @ \union Shows(FileRecords(j, FileToRead(n)), op[i].cutoff)])
    BY <1>2 DEF ReadFile
  <2> DEFINE o == [op[i] EXCEPT !.done[j] = op[i].done[j] + 1,
                     !.got = @ \union Shows(FileRecords(j, FileToRead(op[i].done[j])), op[i].cutoff)]
  <2>3. op'[i] = o
    BY <2>1, <2>2 DEF Step
  <2>4. LET n == op[i].done[j] IN
          /\ n \in Indexes /\ n \in Nat /\ o.cutoff = op[i].cutoff /\ o.floor = op[i].floor
          /\ o.there = op[i].there /\ o.done[j] = n + 1
          /\ \A k \in Pods \ {j} : o.done[k] = op[i].done[k]
          /\ o.got = op[i].got \union Shows(FileRecords(j, n), op[i].cutoff)
    BY <2>1, <2>2, ReadFileType DEF DirectoryToRead, LogTyped
  <2> HIDE DEF o
  <2> QED BY <2>1, <2>3, <2>4
<1> QED BY <1>1, <1>2

LEMMA ReadsShownStep ==
  ASSUME LogTyped, NEW i \in Instances, StepOf(i), \A j \in Instances : ReadsShown(j)
  PROVE  \A j \in Instances : ReadsShown(j)'
<1>1. shared' = shared
  BY OthersType
<1>2. \A r, c : Hidden(r, c)' <=> Hidden(r, c)
  BY <1>1 DEF Hidden
<1>3. ASSUME NEW j \in Instances \ {i} PROVE ReadsShown(j)'
  <2>1. op'[j] = op[j]
    BY WaitingChange
  <2> QED BY <1>1, <2>1 DEF ReadsShown, Hidden
<1>4. ReadsShown(i)'
  <2> SUFFICES ASSUME op'[i].at = "scan", NEW r \in op'[i].got PROVE ~Hidden(r, op'[i].cutoff)
    BY <1>1 DEF ReadsShown, Hidden
  <2>1. CASE ReadCutoff(i)
    BY <2>1, WhereNext
  <2>2. CASE ~ReadCutoff(i)
    <3>1. op'[i].cutoff = op[i].cutoff /\ op[i].at = "scan"
      BY <2>2, ScanStep
    <3>2. r \in op[i].got \/ \E j \in Pods : r \in Shows(FileRecords(j, op[i].done[j]), op[i].cutoff)
      BY <2>2, ScanStep
    <3> QED BY <3>1, <3>2 DEF ReadsShown, Shows
  <2> QED BY <2>1, <2>2
<1> QED BY <1>3, <1>4

LEMMA StillToReadStep ==
  ASSUME LogTyped, NEW i \in Instances, StepOf(i), \A j \in Instances : Ordered(j) /\ StillToRead(j), Distinct
  PROVE  \A j \in Instances : StillToRead(j)'
<1>1. /\ shared' = shared /\ Pods' = Pods /\ Pods \subseteq Instances
      /\ \A n \in Indexes : n \in Nat
  BY OthersType, PodsAreInstances, FileNumbers DEF Pods
<1>2. /\ \A n \in Indexes : \A r \in FileRecords(i, n)' :
           (\E m \in Indexes : m <= n /\ r \in FileRecords(i, m)) \/ r \in Wrote(i)
      /\ \A k \in Instances \ {i} : op'[k] = op[k] /\ \A n \in Indexes : FileRecords(k, n)' = FileRecords(k, n)
      /\ \A w \in Wrote(i) : w \in Coming(i)
  BY ContentsChange, ComingChange, WaitingChange DEF Ordered, Wrote
<1>3. ASSUME NEW k \in Instances, NEW n \in Indexes, NEW r \in FileRecords(k, n)'
      PROVE  (\E m \in Indexes : m <= n /\ r \in FileRecords(k, m)) \/ r \in Coming(i)
  <2>1. n <= n
    BY <1>1
  <2> QED BY <1>2, <1>3, <2>1
\* What was there does not wait to be written.
<1>4. ASSUME NEW j \in Instances, op[j].at = "scan", NEW k \in Pods, NEW n \in Indexes, NEW r \in FileRecords(k, n)',
             r \in op[j].there, ~Hidden(r, op[j].cutoff)
      PROVE  r \in op[j].got \/ op[j].done[k] <= n
  <2>1. r \notin Coming(i)
    <3>1. \A p \in Coming(i), s \in op[j].there : p.id # s.id
      BY <1>4 DEF Distinct
    <3> QED BY <1>4, <3>1
  <2>2. PICK m \in Indexes : m <= n /\ r \in FileRecords(k, m)
    BY <1>1, <1>3, <2>1
  <2>3. r \in op[j].got \/ op[j].done[k] <= m
    BY <1>4, <2>2 DEF StillToRead
  <2>4. op[j].done[k] \in Nat
    <3>1. op[j] \in Scans
      BY <1>4, Operation DEF LogTyped, LogTypeOK
    <3> QED BY <3>1, FileNumbers DEF Scans
  <2> QED BY <1>1, <2>2, <2>3, <2>4
<1>5. ASSUME NEW j \in Instances \ {i} PROVE StillToRead(j)'
  <2>1. op'[j] = op[j]
    BY <1>2
  <2>2. SUFFICES ASSUME op[j].at = "scan", NEW k \in Pods, NEW n \in Indexes, NEW r \in FileRecords(k, n)',
                        r \in op[j].there, ~Hidden(r, op[j].cutoff)
                 PROVE  r \in op[j].got \/ op[j].done[k] <= n
    BY <1>1, <2>1 DEF StillToRead, Hidden
  <2> QED BY <1>4, <2>2
<1>6. StillToRead(i)'
  <2> SUFFICES ASSUME op'[i].at = "scan", NEW k \in Pods, NEW n \in Indexes, NEW r \in FileRecords(k, n)',
                      r \in op'[i].there, ~Hidden(r, op'[i].cutoff)
               PROVE  r \in op'[i].got \/ op'[i].done[k] <= n
    BY <1>1 DEF StillToRead, Hidden
  <2>1. CASE ReadCutoff(i)
    <3>1. op'[i].done = [j \in Pods |-> 0]
      BY <2>1, WhereNext
    <3>2. op'[i].done[k] = 0
      BY <3>1
    <3>3. 0 <= n
      BY <1>1
    <3> QED BY <3>2, <3>3
  <2>2. CASE ~ReadCutoff(i)
    <3>1. PICK j \in Pods : LET m == op[i].done[j] IN
                 /\ m \in Indexes /\ m \in Nat /\ op'[i].done[j] = m + 1
                 /\ \A l \in Pods \ {j} : op'[i].done[l] = op[i].done[l]
                 /\ op'[i].got = op[i].got \union Shows(FileRecords(j, m), op[i].cutoff)
      BY <2>2, ScanStep
    <3>2. op'[i].cutoff = op[i].cutoff /\ op'[i].there = op[i].there /\ op[i].at = "scan"
      BY <2>2, ScanStep
    <3>3. r \in op[i].got \/ op[i].done[k] <= n
      BY <1>4, <3>2
    <3>4. files' = files
      <4>1. ReadFile(i)
        BY <2>2, WhereNext DEF StepOf
      <4> QED BY <4>1 DEF ReadFile
    <3>5. r \in FileRecords(k, n)
      BY <3>4 DEF FileRecords
    <3>6. CASE k = j /\ op[i].done[j] = n
      <4>1. r \in Shows(FileRecords(j, op[i].done[j]), op[i].cutoff)
        BY <3>2, <3>5, <3>6 DEF Shows
      <4> QED BY <3>1, <4>1
    <3>7. CASE k = j /\ op[i].done[j] # n
      BY <1>1, <3>1, <3>3, <3>7
    <3>8. CASE k # j
      BY <3>1, <3>3, <3>8
    <3> QED BY <3>6, <3>7, <3>8
  <2> QED BY <2>1, <2>2
<1> QED BY <1>5, <1>6

LEMMA DistinctStep ==
  ASSUME LogTyped, NEW i \in Instances, StepOf(i), \A j \in Instances : Ordered(j), Distinct
  PROVE  Distinct'
<1>1. used'.records = used.records /\ Pods \subseteq Instances
  BY SameCounters, PodsAreInstances
<1>2. /\ \A k \in Instances \ {i} : op'[k] = op[k] /\ Coming(k)' = Coming(k) /\ Written(k)' = Written(k)
      /\ Coming(i)' \subseteq Coming(i)
      /\ Written(i)' \subseteq Written(i) \union Coming(i)
  <2>1. Kept(i)' \subseteq Kept(i) \union Wrote(i) /\ past'[i] \subseteq past[i] \union Wrote(i)
    BY ContentsChange
  <2>2. Wrote(i) \subseteq Coming(i) /\ Coming(i)' \subseteq Coming(i)
    BY ComingChange DEF Ordered, Wrote
  <2>3. Written(i)' \subseteq Written(i) \union Coming(i)
    BY <2>1, <2>2 DEF Written
  <2> QED BY <2>2, <2>3, ComingChange, WaitingChange DEF Ordered
<1>3. \A k \in Instances : Coming(k)' \subseteq Coming(k) /\ (Written(k) \union Coming(k))' \subseteq Written(k) \union Coming(k)
  BY <1>2
<1>4. \A j, k \in Instances : j # k => \A r \in Coming(j)', s \in (Written(k) \union Coming(k))' : r.id # s.id
  BY <1>3 DEF Distinct
<1>5. ASSUME NEW j \in Instances, op'[j].at = "scan"
      PROVE  (op[j].at = "scan" /\ op'[j].there = op[j].there)
             \/ (op'[j].there = Stored(marker) /\ \A k \in Instances : Coming(k)' = Coming(k))
  <2>1. CASE j # i
    BY <1>2, <1>5, <2>1
  <2>2. CASE j = i /\ ~ReadCutoff(i)
    BY <1>5, <2>2, ScanStep
  <2>3. CASE j = i /\ ReadCutoff(i)
    <3>1. op'[i].there = Stored(marker) /\ op[i].at = "cutoff" /\ op'[i].at = "scan"
      BY <2>3, WhereNext
    <3>2. waiting' = waiting
      BY <2>3 DEF ReadCutoff
    <3>3. Coming(i)' = Coming(i)
      BY <3>1, <3>2 DEF Coming, Appending
    <3> QED BY <1>2, <2>3, <3>1, <3>3
  <2> QED BY <2>1, <2>2, <2>3
\* What is stored is written: what still waits is another record.
<1>6. ASSUME NEW s \in Stored(marker)
      PROVE  s.id <= used.records /\ \A k \in Instances : \A r \in Coming(k) : r.id # s.id
  <2>1. PICK j \in Pods : s \in Kept(j)
    BY DEF Stored, Shows
  <2>2. j \in Instances /\ s \in Written(j) /\ s \in Records
    BY <1>1, <2>1, ShownAreRecords DEF Written, LogTyped
  <2>3. s.id <= used.records /\ s.id \in Nat
    BY <2>2 DEF Ordered, Records
  <2>4. ASSUME NEW k \in Instances, NEW r \in Coming(k) PROVE r.id # s.id
    <3>1. CASE k = j
      <4>1. s.id < r.id
        BY <2>2, <2>4, <3>1 DEF Ordered
      <4> QED BY <2>3, <4>1
    <3>2. CASE k # j
      BY <2>2, <2>4, <3>2 DEF Distinct
    <3> QED BY <3>1, <3>2
  <2> QED BY <2>3, <2>4
<1>7. \A j, k \in Instances : op'[j].at = "scan" => \A r \in Coming(k)', s \in op'[j].there : r.id # s.id
  <2> SUFFICES ASSUME NEW j \in Instances, NEW k \in Instances, op'[j].at = "scan",
                      NEW r \in Coming(k)', NEW s \in op'[j].there
               PROVE  r.id # s.id
    OBVIOUS
  <2>1. r \in Coming(k)
    BY <1>3
  <2>2. CASE op[j].at = "scan" /\ op'[j].there = op[j].there
    BY <2>1, <2>2 DEF Distinct
  <2>3. CASE op'[j].there = Stored(marker)
    BY <1>6, <2>1, <2>3
  <2> QED BY <1>5, <2>2, <2>3
<1>8. \A j \in Instances : op'[j].at = "scan" => \A s \in op'[j].there : s.id <= used'.records
  BY <1>1, <1>5, <1>6 DEF Distinct
<1> QED BY <1>4, <1>7, <1>8 DEF Distinct


-----------------------------------------------------------------------------
(* What a clear hides, while clears do not overlap. *)

LEMMA NotAfterItself == \A x \in Nat : x <= x
OBVIOUS

LEMMA Times == /\ \A t \in 1..MaxTime : t \in Nat
               /\ \A x, y \in Nat : x <= y => x <= y + 1
BY FileNumbers

LEMMA ClearsAloneStep ==
  ASSUME LogTyped, NEW i \in Instances, StepOf(i), \A j \in Instances : Ordered(j), raced \/ ClearsAlone, ~raced'
  PROVE  ClearsAlone'
<1>1. /\ ~raced /\ shared' = shared /\ time' = time
      /\ \A j \in Instances : Cleared(j)
      /\ marker <= time /\ floor <= marker
      /\ \A j, k \in Instances : Clearing(j) /\ Clearing(k) => j = k
  BY SameCounters, OthersType DEF ClearsAlone
<1>2. /\ time \in Nat /\ marker \in Nat /\ floor \in Nat
      /\ \A r \in Records : r.time \in Nat
      /\ op[i] \in Operations
      /\ \A j \in Instances : Written(j) \subseteq Records
  <2>1. MaxTime \in Nat
    BY FileNumbers
  <2>2. time \in 1..MaxTime /\ marker \in 0..MaxTime /\ floor \in 0..MaxTime /\ op[i] \in Operations
    BY DEF LogTyped, LogTypeOK
  <2>3. \A r \in Records : r.time \in Nat
    BY <2>1 DEF Records
  <2>4. \A j \in Instances : Written(j) \subseteq Records
    BY ShownAreRecords DEF LogTyped, LogTypeOK, Written
  <2> QED BY <2>1, <2>2, <2>3, <2>4
<1>3. \A j \in Instances \ {i} : op'[j] = op[j] /\ past'[j] = past[j] /\ Kept(j)' = Kept(j) /\ Written(j)' = Written(j)
  BY ComingChange, WaitingChange DEF Ordered
<1>4. /\ Kept(i)' \subseteq Kept(i) \union Wrote(i)
      /\ Write(i) => past'[i] = past[i] \union Wrote(i)
      /\ Written(i)' \subseteq Written(i) \union Wrote(i)
  BY ContentsChange DEF Written
<1>5. /\ Clearing(i)' => Clearing(i) \/ (StartClear(i) /\ shared)
      /\ \A j \in Instances \ {i} : Clearing(j)' <=> Clearing(j)
  <2>1. Clearing(i)' => Clearing(i) \/ (StartClear(i) /\ shared)
    BY WhereNext DEF StepOf, Clearing
  <2> QED BY <1>3, <2>1 DEF Clearing
<1>6. StartClear(i) => \A j \in Instances : ~Clearing(j)
  BY DEF StartClear
<1>7. \A j, k \in Instances : (Clearing(j) /\ Clearing(k))' => j = k
  BY <1>1, <1>5, <1>6
\* The marker and the floor only grow.
<1>8. RenameMarker(i) => /\ marker' = op[i].cutoff /\ op[i].cutoff \in 1..MaxTime /\ marker <= op[i].cutoff
                         /\ op[i].cutoff <= time /\ shared /\ past'[i] = {}
                         /\ \A r \in Written(i) : r.time <= op[i].cutoff
                         /\ \A j \in Instances \ {i} : ~Clearing(j)
  <2> SUFFICES ASSUME RenameMarker(i)
               PROVE  /\ marker' = op[i].cutoff /\ op[i].cutoff \in 1..MaxTime /\ marker <= op[i].cutoff
                      /\ op[i].cutoff <= time /\ shared /\ past'[i] = {}
                      /\ \A r \in Written(i) : r.time <= op[i].cutoff
                      /\ \A j \in Instances \ {i} : ~Clearing(j)
    OBVIOUS
  <2>1. op[i].at = "rename marker" /\ marker' = op[i].cutoff /\ past' = [past EXCEPT ![i] = {}]
    BY DEF RenameMarker
  <2>2. op[i].cutoff \in 1..MaxTime
    BY <1>2, <2>1, Operation
  <2>3. Clearing(i)
    BY <2>1 DEF Clearing
  <2>4. past'[i] = {}
    BY <2>1 DEF LogTyped, LogTypeOK
  <2> QED BY <1>1, <2>1, <2>2, <2>3, <2>4 DEF Cleared
<1>9. ~RenameMarker(i) => marker' = marker
  BY DEF StepOf, StartAppend, StartClear, StartRead, Start, LookAtSize, DropOldest, MoveUp, Write, ReadCutoff, ReadFile,
         Answer, SwapDirectory, Sweep, Stamp, Unlink, StopInstance
<1>10. marker <= marker' /\ marker' <= time /\ marker' \in Nat
  <2>1. CASE RenameMarker(i)
    BY <1>1, <1>2, <1>8, <2>1, FileNumbers
  <2>2. CASE ~RenameMarker(i)
    BY <1>1, <1>2, <1>9, <2>2
  <2> QED BY <2>1, <2>2
<1>11. Unlink(i) => op[i].cutoff <= marker /\ op[i].cutoff \in Nat
  <2> SUFFICES ASSUME Unlink(i) PROVE op[i].cutoff <= marker /\ op[i].cutoff \in Nat
    OBVIOUS
  <2>1. op[i].at = "unlink"
    BY DEF Unlink
  <2>2. op[i].cutoff \in 1..MaxTime
    BY <1>2, <2>1, Operation DEF Unlinks
  <2>3. op[i].cutoff \in Nat
    BY <2>2, FileNumbers
  <2> QED BY <1>1, <2>1, <2>3 DEF Cleared
<1>12. floor <= floor' /\ floor' <= marker' /\ floor' \in Nat
  <2>1. CASE Unlink(i)
    <3>1. marker' = marker
      BY <2>1 DEF Unlink
    <3>2. floor' = floor \/ (floor' = op[i].cutoff /\ op[i].cutoff > floor)
      BY <2>1 DEF Unlink
    <3> QED BY <1>1, <1>2, <1>11, <2>1, <3>1, <3>2
  <2>2. CASE ~Unlink(i)
    <3>1. floor' = floor
      BY <2>2 DEF StepOf, StartAppend, StartClear, StartRead, Start, LookAtSize, DropOldest, MoveUp, Write, ReadCutoff, ReadFile,
         Answer, SwapDirectory, Sweep, Stamp, RenameMarker, StopInstance
    <3> QED BY <1>1, <1>2, <1>10, <3>1
  <2> QED BY <2>1, <2>2
<1>13. ASSUME NEW r \in Records, Hidden(r, marker) PROVE Hidden(r, marker')
  BY <1>2, <1>10, <1>13 DEF Hidden
<1>14. ASSUME NEW j \in Instances \ {i} PROVE Cleared(j)'
  <2>1. op'[j] = op[j] /\ past'[j] = past[j] /\ Kept(j)' = Kept(j) /\ Written(j)' = Written(j) /\ Cleared(j)
    BY <1>1, <1>3
  <2>2. \A r \in Kept(j)' \ past'[j] : Hidden(r, marker)'
    <3>1. Kept(j) \subseteq Records
      BY <1>2 DEF Written
    <3> QED BY <1>1, <1>13, <2>1, <3>1 DEF Cleared, Hidden
  <2>3. op[j].at = "rename marker" => marker' = marker
    <3>1. op[j].at = "rename marker" => Clearing(j)
      BY DEF Clearing
    <3> QED BY <1>8, <1>9, <3>1
  <2>4. op[j].at = "rename marker" =>
          marker' <= op[j].cutoff /\ op[j].cutoff <= time' /\ \A r \in Written(j)' : r.time <= op[j].cutoff
    BY <1>1, <2>1, <2>3 DEF Cleared
  <2>5. op[j] \in Operations
    BY DEF LogTyped, LogTypeOK
  <2>6. op[j].at = "unlink" => op[j].cutoff <= marker'
    <3> SUFFICES ASSUME op[j].at = "unlink" PROVE op[j].cutoff <= marker'
      OBVIOUS
    <3>1. op[j].cutoff \in Nat
      <4>1. op[j].cutoff \in 1..MaxTime
        BY <2>5, Operation DEF Unlinks
      <4> QED BY <4>1, FileNumbers
    <3>2. op[j].cutoff <= marker
      BY <2>1 DEF Cleared
    <3> QED BY <1>2, <1>10, <3>1, <3>2
  <2>7. op[j].at = "cutoff" => op[j].floor <= floor'
    <3> SUFFICES ASSUME op[j].at = "cutoff" PROVE op[j].floor <= floor'
      OBVIOUS
    <3>1. op[j].floor \in 0..MaxTime /\ op[j].floor <= floor
      BY <2>1, <2>5, Operation DEF Cleared
    <3> QED BY <1>2, <1>12, <3>1, FileNumbers
  <2>8. Clearing(j)' => shared'
    BY <1>1, <1>5, <2>1 DEF Cleared
  <2>9. op'[j].at = "scan" => op'[j].floor <= op'[j].cutoff
    BY <2>1 DEF Cleared
  <2> QED BY <2>1, <2>2, <2>4, <2>6, <2>7, <2>8, <2>9 DEF Cleared
<1>15. Cleared(i)'
  <2>1. \A r \in Kept(i)' \ past'[i] : Hidden(r, marker')
    <3> SUFFICES ASSUME NEW r \in Kept(i)', r \notin past'[i] PROVE Hidden(r, marker')
      OBVIOUS
    <3>1. CASE RenameMarker(i)
      <4>1. r \in Kept(i) /\ r \in Written(i) /\ r \in Records
        <5>1. ~Write(i)
          BY <3>1 DEF RenameMarker, Write
        <5> QED BY <1>2, <1>4, <5>1 DEF Wrote, Written
      <4>2. r.time <= op[i].cutoff /\ marker' = op[i].cutoff /\ op[i].cutoff > 0 /\ shared
        BY <1>8, <3>1, <4>1, FileNumbers
      <4> QED BY <4>2 DEF Hidden
    <3>2. CASE SwapDirectory(i)
      <4>1. files'[i] = EmptyFiles
        BY <3>2 DEF SwapDirectory, LogTyped, LogTypeOK
      <4>2. \A n \in Indexes : FileRecords(i, n)' = {}
        BY <4>1, NoBlocks DEF EmptyFiles, FileRecords
      <4> QED BY <4>2 DEF Kept
    <3>3. CASE ~RenameMarker(i) /\ ~SwapDirectory(i)
      <4>1. past[i] \subseteq past'[i]
        <5>1. CASE Write(i)
          BY <1>4, <5>1
        <5>2. CASE ~Write(i)
          <6>1. past' = past
            BY <3>3, <5>2 DEF StepOf, StartAppend, StartClear, StartRead, Start, LookAtSize, DropOldest, MoveUp, ReadCutoff,
                     ReadFile, Answer, Sweep, Stamp, Unlink, StopInstance
          <6> QED BY <6>1
        <5> QED BY <5>1, <5>2
      <4>2. Wrote(i) \subseteq past'[i]
        BY <1>4 DEF Wrote
      <4>3. r \in Kept(i) /\ r \notin past[i]
        BY <1>4, <4>1, <4>2
      <4>4. Hidden(r, marker) /\ r \in Records
        BY <1>1, <1>2, <4>3 DEF Cleared, Written
      <4> QED BY <1>13, <4>4
    <3> QED BY <3>1, <3>2, <3>3
  <2>2. Clearing(i)' => shared'
    BY <1>1, <1>5 DEF Cleared
  <2>3. op'[i].at = "rename marker" =>
          /\ marker' <= op'[i].cutoff /\ op'[i].cutoff <= time'
          /\ \A r \in Written(i)' : r.time <= op'[i].cutoff
    <3> SUFFICES ASSUME op'[i].at = "rename marker"
                 PROVE  /\ marker' <= op'[i].cutoff /\ op'[i].cutoff <= time'
                        /\ \A r \in Written(i)' : r.time <= op'[i].cutoff
      OBVIOUS
    <3>1. Stamp(i)
      BY WhereNext DEF StepOf
    <3>2. op'[i].cutoff = time /\ ~Write(i)
      BY <3>1, WhereNext DEF Stamp, Write
    <3>3. Written(i)' \subseteq Written(i)
      BY <1>4, <3>2 DEF Wrote
    <3>4. \A r \in Written(i) : r.time <= time
      BY DEF Ordered
    <3>5. marker' <= time
      BY <1>10
    <3>6. time <= time
      <4>1. time \in Nat
        BY <1>2
      <4> QED BY <4>1, NotAfterItself
    <3> QED BY <1>1, <3>2, <3>3, <3>4, <3>5, <3>6
  <2>4. op'[i].at = "unlink" => op'[i].cutoff <= marker'
    <3> SUFFICES ASSUME op'[i].at = "unlink" PROVE op'[i].cutoff <= marker'
      OBVIOUS
    <3>1. RenameMarker(i) \/ Unlink(i)
      BY WhereNext DEF StepOf
    <3>2. op'[i].cutoff = op[i].cutoff
      BY <3>1, WhereNext
    <3>3. CASE RenameMarker(i)
      BY <1>8, <1>10, <3>2, <3>3
    <3>4. CASE Unlink(i)
      BY <1>2, <1>10, <1>11, <3>2, <3>4
    <3> QED BY <3>1, <3>3, <3>4
  <2>5. op'[i].at = "cutoff" => op'[i].floor <= floor'
    <3>1. op'[i].at = "cutoff" => StartRead(i)
      BY WhereNext DEF StepOf
    <3>2. StartRead(i) => op'[i].floor = floor
      BY WhereNext
    <3> QED BY <1>12, <3>1, <3>2
  <2>6. op'[i].at = "scan" => op'[i].floor <= op'[i].cutoff
    <3> SUFFICES ASSUME op'[i].at = "scan" PROVE op'[i].floor <= op'[i].cutoff
      OBVIOUS
    <3>1. CASE ReadCutoff(i)
      <4>1. op[i].at = "cutoff" /\ op'[i].cutoff = marker /\ op'[i].floor = op[i].floor
        BY <3>1, WhereNext
      <4>2. op[i].floor <= floor /\ op[i].floor \in 0..MaxTime
        BY <1>1, <1>2, <4>1, Operation DEF Cleared
      <4> QED BY <1>1, <1>2, <4>1, <4>2, FileNumbers
    <3>2. CASE ~ReadCutoff(i)
      <4>1. op'[i].cutoff = op[i].cutoff /\ op'[i].floor = op[i].floor /\ op[i].at = "scan"
        BY <3>2, ScanStep
      <4> QED BY <1>1, <4>1 DEF Cleared
    <3> QED BY <3>1, <3>2
  <2>7. \A r \in (Kept(i) \ past[i])' : Hidden(r, marker)'
    BY <1>1, <2>1 DEF Hidden
  <2> QED BY <2>2, <2>3, <2>4, <2>5, <2>6, <2>7 DEF Cleared
<1> QED BY <1>1, <1>7, <1>10, <1>12, <1>14, <1>15 DEF ClearsAlone


-----------------------------------------------------------------------------
(* While nothing stopped, the files are full up to the one that is written. *)

\* The blocks of a file that holds none torn, and how many there are.
LEMMA AllWhole ==
  ASSUME LogTyped, NEW i \in Instances, NEW n \in Indexes, \A k \in DOMAIN files[i][n] : files[i][n][k].whole
  PROVE  /\ files[i][n] \in Seq(Blocks) /\ Len(files[i][n]) \in Nat /\ DOMAIN files[i][n] = 1..Len(files[i][n])
         /\ Whole(files[i][n]) = 1..Len(files[i][n]) /\ Readable(files[i][n]) = 1..Len(files[i][n])
         /\ Cardinality(Whole(files[i][n])) = Len(files[i][n]) /\ Len(files[i][n]) <= PerFile
<1>1. files[i][n] \in Seq(Blocks) /\ Cardinality(Whole(files[i][n])) <= PerFile /\ Rotation(i)
  BY DEF LogTyped, LogTypeOK
<1>2. Len(files[i][n]) \in Nat /\ DOMAIN files[i][n] = 1..Len(files[i][n])
  BY <1>1
<1>3. Whole(files[i][n]) = 1..Len(files[i][n])
  BY <1>2 DEF Whole
<1>4. Readable(files[i][n]) = 1..Len(files[i][n])
  BY <1>1, <1>2 DEF Readable, Rotation
<1>5. Cardinality(1..Len(files[i][n])) = Len(files[i][n])
  <2>1. 1 \in Int /\ Len(files[i][n]) \in Int
    BY <1>2
  <2>2. Cardinality(1..Len(files[i][n])) = IF 1 > Len(files[i][n]) THEN 0 ELSE Len(files[i][n]) - 1 + 1
    BY <2>1, FS_Interval
  <2> QED BY <1>2, <2>2
<1> QED BY <1>1, <1>2, <1>3, <1>4, <1>5

\* A full file that stays is full, and one that is moved.
LEMMA FullFile ==
  /\ \A i \in Instances, n \in Indexes : Full(i, n) => files[i][n] # <<>>
  /\ \A i \in Instances, n, m \in Indexes : files'[i][n] = files[i][m] => (Full(i, n)' <=> Full(i, m))
<1>1. Len(<<>>) = 0 /\ ~(0 >= PerFile)
  BY NoBlocks, FileNumbers
<1> QED BY <1>1 DEF Full

\* A step that leaves the files and what is short among them.
LEMMA PackedStays ==
  ASSUME NEW i \in Instances, Packed(i), files'[i] = files[i], op[i].at # "unlink" \/ op'[i].at = "unlink",
         \A n \in Indexes : Short(i, n) => Short(i, n)' \/ Full(i, n),
         op'[i].at = "drop oldest" => Full(i, 0),
         past'[i] = past[i] \/ past'[i] = {}
  PROVE  Packed(i)'
<1>1. \A n \in Indexes : Full(i, n)' <=> Full(i, n)
  BY DEF Full
<1>2. Kept(i)' = Kept(i)
  <2>1. \A n \in Indexes : FileRecords(i, n)' = FileRecords(i, n)
    BY DEF FileRecords
  <2> QED BY <2>1 DEF Kept
<1>3. 0 \in Indexes
  BY FileNumbers
<1>4. op'[i].at # "unlink" => \A n, m \in Indexes :
        files'[i][n] # <<>> /\ m < n => Full(i, m)' \/ Short(i, m)'
  BY <1>1 DEF Packed
<1>5. past'[i] \subseteq Kept(i)' \/ \A n \in Indexes : Full(i, n)' \/ Short(i, n)'
  BY <1>1, <1>2 DEF Packed
<1>6. \A n \in Indexes : \A k \in DOMAIN files'[i][n] : files'[i][n][k].whole
  BY DEF Packed
<1> QED BY <1>1, <1>3, <1>4, <1>5, <1>6 DEF Packed

LEMMA EmptyIsPacked ==
  ASSUME NEW i \in Instances, \A n \in Indexes : files'[i][n] = <<>>, past'[i] = {}, op'[i].at # "drop oldest"
  PROVE  Packed(i)'
BY NoBlocks DEF Packed

LEMMA PackedOther ==
  ASSUME NEW j \in Instances, op'[j] = op[j], files'[j] = files[j], past'[j] = past[j], Packed(j)
  PROVE  Packed(j)'
<1>1. Kept(j)' = Kept(j)
  BY DEF Kept, FileRecords
<1> QED BY <1>1 DEF Packed, Full, Short

LEMMA PackedMove ==
  ASSUME LogTyped, NEW i \in Instances, MovesFile(i), Packed(i), InOrder(i)
  PROVE  Packed(i)'
<1>1. op[i].at = "move" /\ op[i].moved # 0 /\ MoveUp(i) /\ LogTypeOK /\ Rotation(i) /\ past' = past
  BY DEF MovesFile, MoveUp, LogTyped
<1>2. PICK h \in Indexes, n \in Indexes :
      /\ h \in Nat \ {0} /\ n \in Nat /\ n + 1 = h /\ h = op[i].moved /\ op'[i].moved = n /\ op'[i].at = "move"
      /\ \A m \in Indexes : m \notin {n, h} => files'[i][m] = files[i][m]
      /\ files[i][n] = <<>> => files' = files
      /\ files[i][n] # <<>> => files'[i][n] = <<>> /\ files'[i][h] = files[i][n]
  <2>1. op'[i].at = "move"
    BY <1>1, WhereNext
  <2> QED BY <1>1, <2>1, MovedOne
<1>3. /\ files[i][h] = <<>>
      /\ \A m \in Indexes : (Short(i, m) <=> m = h) /\ (Short(i, m)' <=> m = n)
  BY <1>1, <1>2 DEF Rotation, Short
<1>4. /\ \A a, b \in Indexes : files[i][a] # <<>> /\ b < a => Full(i, b) \/ b = h
      /\ past[i] \subseteq Kept(i) \/ \A b \in Indexes : Full(i, b) \/ b = h
      /\ \A a \in Indexes : \A k \in DOMAIN files[i][a] : files[i][a][k].whole
  BY <1>1, <1>3 DEF Packed
<1>5. Kept(i)' = Kept(i)
  BY MovedContents
<1>6. \A a \in Indexes : a \in Nat
  BY FileNumbers
<1>9. /\ n # h /\ n < h
      /\ \A a \in Indexes : h < a => n < a /\ a # n
      /\ \A b \in Indexes : b < h /\ b # n => b < n
  <2>1. n \in Nat /\ h = n + 1
    BY <1>2, <1>6
  <2> QED BY <1>6, <2>1
<1>7. CASE files[i][n] = <<>>
  <2>1. \A a \in Indexes : files'[i][a] = files[i][a] /\ (Full(i, a)' <=> Full(i, a))
    BY <1>2, <1>7, FullFile
  <2>2. ~Full(i, n)
    BY <1>7, FullFile
  <2>3. \A a, b \in Indexes : files'[i][a] # <<>> /\ b < a => Full(i, b)' \/ b = n
    <3> SUFFICES ASSUME NEW a \in Indexes, NEW b \in Indexes, files[i][a] # <<>>, b < a PROVE Full(i, b) \/ b = n
      BY <2>1
    <3>1. CASE b = h
      <4>1. n < a
        BY <1>9, <3>1
      <4> QED BY <1>4, <1>9, <2>2, <4>1
    <3> QED BY <1>4, <3>1
  <2>4. past[i] \subseteq Kept(i)
    BY <1>4, <1>9, <2>2
  <2>5. \A a \in Indexes : \A k \in DOMAIN files'[i][a] : files'[i][a][k].whole
    BY <1>4, <2>1
  <2> QED BY <1>1, <1>2, <1>3, <1>5, <2>3, <2>4, <2>5 DEF Packed
<1>8. CASE files[i][n] # <<>>
  <2>1. /\ files'[i][n] = <<>> /\ (Full(i, h)' <=> Full(i, n))
        /\ \A a \in Indexes : a \notin {n, h} => files'[i][a] = files[i][a] /\ (Full(i, a)' <=> Full(i, a))
    BY <1>2, <1>8, FullFile
  <2>2. \A a, b \in Indexes : files'[i][a] # <<>> /\ b < a => Full(i, b)' \/ b = n
    <3> SUFFICES ASSUME NEW a \in Indexes, NEW b \in Indexes, files'[i][a] # <<>>, b < a, b # n PROVE Full(i, b)'
      OBVIOUS
    <3>1. CASE b = h
      <4>1. a \notin {n, h} /\ files[i][a] # <<>> /\ n < a
        <5>1. n < a /\ a # n /\ a # h
          BY <1>6, <1>9, <3>1
        <5> QED BY <2>1, <5>1
      <4>2. Full(i, n)
        BY <1>4, <1>9, <4>1
      <4> QED BY <2>1, <3>1, <4>2
    <3>2. CASE b # h /\ a = h
      <4>1. b < n
        BY <1>9, <3>2
      <4>2. Full(i, b)
        BY <1>4, <1>8, <3>2, <4>1
      <4> QED BY <2>1, <3>2, <4>2
    <3>3. CASE b # h /\ a # h
      <4>1. files[i][a] # <<>>
        BY <2>1, <3>3
      <4> QED BY <1>4, <2>1, <3>3, <4>1
    <3> QED BY <3>1, <3>2, <3>3
  <2>3. past[i] \subseteq Kept(i) \/ \A b \in Indexes : Full(i, b)' \/ b = n
    <3> SUFFICES ASSUME \A b \in Indexes : Full(i, b) \/ b = h, NEW b \in Indexes, b # n PROVE Full(i, b)'
      BY <1>4
    <3>1. CASE b = h
      <4>1. n # h
        BY <1>2, <1>6
      <4>2. Full(i, n)
        BY <4>1
      <4> QED BY <2>1, <3>1, <4>2
    <3>2. CASE b # h
      BY <2>1, <3>2
    <3> QED BY <3>1, <3>2
  <2>4. \A a \in Indexes : \A k \in DOMAIN files'[i][a] : files'[i][a][k].whole
    <3>1. \A a \in Indexes : files'[i][a] = <<>> \/ \E b \in Indexes : files'[i][a] = files[i][b]
      BY <1>2, <1>8
    <3> QED BY <1>4, <3>1, NoBlocks
  <2> QED BY <1>1, <1>2, <1>3, <1>5, <2>2, <2>3, <2>4 DEF Packed
<1> QED BY <1>7, <1>8


LEMMA PackedDrop ==
  ASSUME LogTyped, NEW i \in Instances, DropOldest(i), Packed(i), InOrder(i)
  PROVE  Packed(i)'
<1>1. /\ files' = [files EXCEPT ![i][MaxFiles - 1] = <<>>] /\ files \in FileTable /\ MaxFiles - 1 \in Indexes
      /\ past' = past /\ op[i].at = "drop oldest"
      /\ \A n \in Indexes : n # MaxFiles - 1 => MaxFiles - 1 > n
  <2>1. files' = [files EXCEPT ![i][MaxFiles - 1] = <<>>] /\ past' = past /\ op[i].at = "drop oldest"
    BY DEF DropOldest
  <2>2. \A n \in Indexes : n # MaxFiles - 1 => MaxFiles - 1 > n
    BY FileNumbers DEF Indexes
  <2> QED BY <2>1, <2>2, FileNumbers DEF LogTyped, LogTypeOK, FileTable
<1>2. op'[i].at = "move" /\ op'[i].moved = MaxFiles - 1
  BY WhereNext
<1>3. /\ files'[i][MaxFiles - 1] = <<>>
      /\ \A n \in Indexes : n # MaxFiles - 1 => files'[i][n] = files[i][n] /\ (Full(i, n)' <=> Full(i, n))
  BY <1>1, FullFile DEF FileTable
<1>4. \A n \in Indexes : Short(i, n)' <=> n = MaxFiles - 1
  BY <1>2 DEF Short
<1>5. \A a, b \in Indexes : files'[i][a] # <<>> /\ b < a => Full(i, b)' \/ b = MaxFiles - 1
  <2> SUFFICES ASSUME NEW a \in Indexes, NEW b \in Indexes, files'[i][a] # <<>>, b < a, b # MaxFiles - 1
               PROVE  Full(i, b)'
    OBVIOUS
  <2>1. files[i][a] # <<>>
    BY <1>3
  <2>2. Full(i, b) \/ Short(i, b)
    BY <1>1, <2>1 DEF Packed
  <2>3. Full(i, b)
    BY <1>1, <2>2 DEF Short
  <2> QED BY <1>3, <2>3
\* Nothing is dropped unless all files are full.
<1>6. past[i] \subseteq Kept(i)' \/ \A n \in Indexes : Full(i, n)' \/ n = MaxFiles - 1
  <2>1. CASE files[i][MaxFiles - 1] = <<>>
    <3>1. \A n \in Indexes : files'[i][n] = files[i][n]
      BY <1>3, <2>1
    <3>2. \A n \in Indexes : FileRecords(i, n)' = FileRecords(i, n)
      BY <3>1 DEF FileRecords
    <3>3. Kept(i)' = Kept(i)
      BY <3>2 DEF Kept
    <3>4. past[i] \subseteq Kept(i) \/ \A n \in Indexes : Full(i, n)
      BY <1>1 DEF Packed, Short
    <3> QED BY <1>3, <3>3, <3>4
  <2>2. CASE files[i][MaxFiles - 1] # <<>>
    <3>1. \A n \in Indexes : n # MaxFiles - 1 => Full(i, n)
      BY <1>1, <2>2 DEF Packed, Short
    <3> QED BY <1>3, <3>1
  <2> QED BY <2>1, <2>2
<1>7. \A n \in Indexes : \A k \in DOMAIN files'[i][n] : files'[i][n][k].whole
  BY <1>3, NoBlocks DEF Packed
<1> QED BY <1>1, <1>2, <1>4, <1>5, <1>6, <1>7 DEF Packed

LEMMA PackedWrite ==
  ASSUME LogTyped, NEW i \in Instances, Write(i), Packed(i), Ordered(i)
  PROVE  Packed(i)'
<1> DEFINE b == Block(i, TRUE, TRUE)
<1>1. /\ op[i].at = "write" /\ op'[i].at = "idle" /\ 0 \in Indexes
      /\ files' = [files EXCEPT ![i][0] = Append(@, b)] /\ files \in FileTable
  BY WhereNext, FileNumbers DEF Write, LogTyped, LogTypeOK, FileTable
<1>2. files[i][0] \in Seq(Blocks) /\ b \in Blocks /\ b.whole
  BY <1>1, BlockType DEF LogTyped, Appending, FileTable
<1> HIDE DEF b
<1>3. /\ files'[i][0] = Append(files[i][0], b)
      /\ \A n \in Indexes : n # 0 => files'[i][n] = files[i][n] /\ (Full(i, n)' <=> Full(i, n))
  BY <1>1, FullFile DEF FileTable
<1>4. \A n \in Indexes : (Short(i, n) <=> n = 0) /\ (Short(i, n)' <=> n = 0)
  BY <1>1 DEF Short
<1>5. Kept(i)' = Kept(i) \union Wrote(i) /\ past'[i] = past[i] \union Wrote(i)
  BY ContentsChange DEF StepOf
<1>6. \A n \in Indexes : \A k \in DOMAIN files'[i][n] : files'[i][n][k].whole
  <2>1. \A k \in DOMAIN files'[i][0] : files'[i][0][k].whole
    <3>1. \A k \in DOMAIN Append(files[i][0], b) : k \in DOMAIN files[i][0] \/ k = Len(files[i][0]) + 1
      BY <1>2, OneBlockMore
    <3>2. \A k \in DOMAIN files[i][0] : Append(files[i][0], b)[k] = files[i][0][k] /\ files[i][0][k].whole
      BY <1>1, <1>2, OneBlockMore DEF Packed
    <3> QED BY <1>2, <1>3, <3>1, <3>2, OneBlockMore
  <2> QED BY <1>3, <2>1 DEF Packed
<1>7. \A n, m \in Indexes : files'[i][n] # <<>> /\ m < n => Full(i, m)' \/ m = 0
  <2> SUFFICES ASSUME NEW n \in Indexes, NEW m \in Indexes, files'[i][n] # <<>>, m < n, m # 0 PROVE Full(i, m)'
    OBVIOUS
  <2>1. n # 0
    <3>1. n \in Nat /\ m \in Nat
      BY FileNumbers
    <3> QED BY <3>1
  <2>2. files[i][n] # <<>>
    BY <1>3, <2>1
  <2>3. Full(i, m)
    BY <1>1, <1>4, <2>2 DEF Packed
  <2> QED BY <1>3, <2>3
<1>8. past'[i] \subseteq Kept(i)' \/ \A n \in Indexes : Full(i, n)' \/ n = 0
  BY <1>3, <1>4, <1>5 DEF Packed
<1> QED BY <1>1, <1>4, <1>6, <1>7, <1>8 DEF Packed

LEMMA PackedUnlink ==
  ASSUME LogTyped, NEW i \in Instances, Unlink(i), Packed(i), Ordered(i)
  PROVE  Packed(i)'
<1>1. /\ op[i].at = "unlink" /\ op[i].next \in 0..MaxFiles /\ past' = past /\ past[i] = {}
      /\ op \in [Instances -> Operations] /\ files \in FileTable
      /\ \A n \in Indexes : n < op[i].next => files[i][n] = <<>>
  <2>1. op[i].at = "unlink" /\ past' = past
    BY DEF Unlink
  <2>2. op \in [Instances -> Operations] /\ files \in FileTable
    BY DEF LogTyped, LogTypeOK, FileTable
  <2>3. op[i].next \in 0..MaxFiles
    <3>1. op[i] \in Operations
      BY <2>2
    <3>2. op[i] \in Unlinks
      BY <2>1, <3>1, Operation
    <3> QED BY <3>2 DEF Unlinks
  <2>4. past[i] = {}
    BY <2>1 DEF Ordered
  <2>5. \A n \in Indexes : n < op[i].next => files[i][n] = <<>>
    BY <2>1 DEF LogTyped, Rotation
  <2> QED BY <2>1, <2>2, <2>3, <2>4, <2>5
<1>2. CASE op[i].next < MaxFiles
  <2>1. files' = [files EXCEPT ![i][op[i].next] = <<>>] /\ Step(i, [op[i] EXCEPT !.next = @ + 1])
    BY <1>2 DEF Unlink
  <2>2. op'[i].at = "unlink"
    <3>1. op[i] \in Unlinks
      BY <1>1, Operation
    <3> QED BY <1>1, <2>1, <3>1 DEF Step, Unlinks
  <2>3. \A n \in Indexes : files'[i][n] = files[i][n] \/ files'[i][n] = <<>>
    BY <1>1, <2>1 DEF FileTable
  <2>4. \A n \in Indexes : \A k \in DOMAIN files'[i][n] : files'[i][n][k].whole
    BY <2>3, NoBlocks DEF Packed
  <2> QED BY <1>1, <2>2, <2>4 DEF Packed
<1>3. CASE ~(op[i].next < MaxFiles)
  <2>1. files' = files /\ Step(i, Resting)
    BY <1>3 DEF Unlink
  <2>2. \A n \in Indexes : files'[i][n] = <<>>
    BY <1>1, <1>3, <2>1, FileNumbers DEF Indexes
  <2>3. op'[i].at = "idle"
    BY <1>1, <2>1 DEF Step, Resting
  <2> QED BY <1>1, <2>2, <2>3, EmptyIsPacked
<1> QED BY <1>2, <1>3

LEMMA PackedStep ==
  ASSUME LogTyped, NEW i \in Instances, StepOf(i), ~StopInstance(i), \A j \in Instances : Ordered(j) /\ Packed(j)
  PROVE  \A j \in Instances : Packed(j)'
<1>1. \A j \in Instances \ {i} : Packed(j)'
  <2>1. \A j \in Instances \ {i} : op'[j] = op[j] /\ files'[j] = files[j] /\ past'[j] = past[j]
    BY WaitingChange
  <2> QED BY <2>1, PackedOther
<1>2. CASE StartAppend(i) \/ StartClear(i) \/ StartRead(i) \/ ReadCutoff(i) \/ ReadFile(i) \/ Answer(i) \/ Sweep(i) \/ Stamp(i)
  <2>1. files' = files /\ past' = past
    BY <1>2 DEF StartAppend, StartClear, StartRead, Start, ReadCutoff, ReadFile, Answer, Sweep, Stamp
  <2>2. op[i].at \notin {"unlink", "move", "drop oldest"} /\ op'[i].at \notin {"unlink", "move", "drop oldest"}
    BY <1>2, WhereNext
  <2>3. \A n \in Indexes : Short(i, n) => Short(i, n)'
    BY <2>2 DEF Short
  <2> QED BY <1>1, <2>1, <2>2, <2>3, PackedStays
<1>3. CASE LookAtSize(i)
  <2>1. files' = files /\ past' = past /\ op[i].at = "size"
    BY <1>3 DEF LookAtSize
  <2>2. op'[i].at \in {"drop oldest", "write"} /\ (op'[i].at = "drop oldest" => Full(i, 0))
    <3>1. op \in [Instances -> Operations]
      BY DEF LogTyped, LogTypeOK
    <3>2. CASE Len(files[i][0]) >= PerFile
      BY <1>3, <3>2, WhereNext DEF Full
    <3>3. CASE ~(Len(files[i][0]) >= PerFile)
      <4>1. Step(i, [at |-> "write", record |-> op[i].record])
        BY <1>3, <3>3 DEF LookAtSize
      <4>2. op'[i].at = "write"
        BY <3>1, <4>1 DEF Step
      <4> QED BY <4>2
    <3> QED BY <3>2, <3>3
  <2>3. \A n \in Indexes : Short(i, n) => Short(i, n)' \/ Full(i, n)
    BY <2>1, <2>2 DEF Short
  <2> QED BY <1>1, <2>1, <2>2, <2>3, PackedStays
<1>4. CASE DropOldest(i)
  BY <1>1, <1>4, PackedDrop DEF Ordered
<1>5. CASE MoveUp(i)
  <2>1. CASE op[i].moved = 0
    <3>1. files' = files /\ past' = past /\ op[i].at = "move" /\ op'[i].at = "write"
      BY <1>5, <2>1, WhereNext DEF MoveUp
    <3>2. \A n \in Indexes : Short(i, n) => Short(i, n)'
      BY <2>1, <3>1 DEF Short
    <3> QED BY <1>1, <3>1, <3>2, PackedStays
  <2>2. CASE op[i].moved # 0
    BY <1>1, <1>5, <2>2, PackedMove DEF MovesFile, Ordered
  <2> QED BY <2>1, <2>2
<1>6. CASE Write(i)
  BY <1>1, <1>6, PackedWrite
<1>7. CASE SwapDirectory(i)
  <2>1. files'[i] = EmptyFiles /\ past'[i] = {}
    BY <1>7 DEF SwapDirectory, LogTyped, LogTypeOK
  <2>2. op'[i].at = "sweep"
    BY <1>7, WhereNext
  <2> QED BY <1>1, <2>1, <2>2, EmptyIsPacked DEF EmptyFiles
<1>8. CASE RenameMarker(i)
  <2>1. files' = files /\ past'[i] = {} /\ op'[i].at = "unlink" /\ op[i].at = "rename marker"
    BY <1>8, WhereNext DEF RenameMarker, LogTyped, LogTypeOK
  <2>2. \A n \in Indexes : Short(i, n) => Short(i, n)'
    BY <2>1 DEF Short
  <2> QED BY <1>1, <2>1, <2>2, PackedStays
<1>9. CASE Unlink(i)
  BY <1>1, <1>9, PackedUnlink
<1> QED BY <1>2, <1>3, <1>4, <1>5, <1>6, <1>7, <1>8, <1>9 DEF StepOf


LEMMA RecordsAreFinite == IsFiniteSet(Records)
<1> DEFINE S == (1..MaxRecords) \X (1..MaxTime)
           f == [p \in S |-> [id |-> p[1], time |-> p[2]]]
<1>1. IsFiniteSet(1..MaxRecords) /\ IsFiniteSet(1..MaxTime)
  <2>1. 1 \in Int /\ MaxRecords \in Int /\ MaxTime \in Int
    BY FileNumbers
  <2> QED BY <2>1, FS_Interval
<1>2. IsFiniteSet(S)
  BY <1>1, FS_Product
<1>3. f \in [S -> Records]
  BY DEF Records
<1>4. ASSUME NEW r \in Records PROVE \E p \in S : f[p] = r
  <2>1. <<r.id, r.time>> \in S
    BY DEF Records
  <2>2. f[<<r.id, r.time>>] = [id |-> r.id, time |-> r.time]
    BY <2>1
  <2>3. [id |-> r.id, time |-> r.time] = r
    BY DEF Records
  <2> QED BY <2>1, <2>2, <2>3
<1> HIDE DEF f, S
<1>5. f \in Surjection(S, Records)
  BY <1>3, <1>4 DEF Surjection
<1> QED BY <1>2, <1>5, FS_Surjection

\* All files but one that are full hold as many records as fit.
LEMMA ManyKept ==
  ASSUME LogTyped, NEW i \in Instances, InOrder(i), NEW h \in Indexes,
         \A n \in Indexes : \A k \in DOMAIN files[i][n] : files[i][n][k].whole,
         \A n \in Indexes : n # h => Full(i, n)
  PROVE  Cardinality(Kept(i)) >= (MaxFiles - 1) * PerFile
<1> DEFINE T == Indexes \ {h}
           P == T \X (1..PerFile)
           f == [p \in P |-> files[i][p[1]][p[2]].record]
<1>1. \A n \in T : Readable(files[i][n]) = 1..PerFile
  <2> SUFFICES ASSUME NEW n \in T PROVE Readable(files[i][n]) = 1..PerFile
    OBVIOUS
  <2>1. /\ Len(files[i][n]) \in Nat /\ Readable(files[i][n]) = 1..Len(files[i][n]) /\ Len(files[i][n]) <= PerFile
    BY AllWhole
  <2>2. Len(files[i][n]) >= PerFile
    BY DEF Full
  <2>3. Len(files[i][n]) = PerFile
    BY <2>1, <2>2, FileNumbers
  <2> QED BY <2>1, <2>3
<1>2. f \in [P -> Kept(i)]
  <2>1. ASSUME NEW p \in P PROVE files[i][p[1]][p[2]].record \in Kept(i)
    <3>1. p[1] \in T /\ p[2] \in 1..PerFile
      OBVIOUS
    <3>2. p[1] \in Indexes /\ p[2] \in Readable(files[i][p[1]])
      BY <1>1, <3>1
    <3> QED BY <3>2, RecordOfBlock
  <2> QED BY <2>1
<1>3. ASSUME NEW p \in P, NEW q \in P, f[p] = f[q] PROVE p = q
  <2>1. PICK n \in T, k \in 1..PerFile : p = <<n, k>>
    OBVIOUS
  <2>2. PICK m \in T, l \in 1..PerFile : q = <<m, l>>
    OBVIOUS
  <2>3. files[i][n][k].record = files[i][m][l].record
    BY <1>3, <2>1, <2>2
  <2>4. k \in Readable(files[i][n]) /\ l \in Readable(files[i][m]) /\ n \in Indexes /\ m \in Indexes
    BY <1>1
  <2>5. files[i][n][k].record \in Records
    <3>1. Kept(i) \subseteq Records
      BY ShownAreRecords DEF LogTyped
    <3> QED BY <2>4, <3>1, RecordOfBlock
  <2>6. n \in Nat /\ m \in Nat /\ k \in Nat /\ l \in Nat
    BY FileNumbers
  <2>7. ~(n > m \/ (n = m /\ k < l))
    <3> SUFFICES ASSUME n > m \/ (n = m /\ k < l) PROVE FALSE
      OBVIOUS
    <3>1. files[i][n][k].record.id < files[i][m][l].record.id
      BY <2>4 DEF InOrder
    <3>2. files[i][n][k].record.id \in Nat
      BY <2>5 DEF Records
    <3> QED BY <2>3, <3>1, <3>2
  <2>8. ~(m > n \/ (n = m /\ l < k))
    <3> SUFFICES ASSUME m > n \/ (m = n /\ l < k) PROVE FALSE
      OBVIOUS
    <3>1. files[i][m][l].record.id < files[i][n][k].record.id
      BY <2>4 DEF InOrder
    <3>2. files[i][n][k].record.id \in Nat
      BY <2>5 DEF Records
    <3> QED BY <2>3, <3>1, <3>2
  <2>9. n = m /\ k = l
    BY <2>6, <2>7, <2>8
  <2> QED BY <2>1, <2>2, <2>9
<1>4. IsFiniteSet(Kept(i))
  BY RecordsAreFinite, ShownAreRecords, FS_Subset DEF LogTyped
<1>5. IsFiniteSet(T) /\ Cardinality(T) = MaxFiles - 1
  <2>1. 0 \in Int /\ MaxFiles - 1 \in Int /\ MaxFiles - 1 >= 0
    BY FileNumbers
  <2>2. Indexes = 0..(MaxFiles - 1)
    BY DEF Indexes
  <2>3. IsFiniteSet(Indexes) /\ Cardinality(Indexes) = MaxFiles
    <3>1. IsFiniteSet(0..(MaxFiles - 1)) /\ Cardinality(0..(MaxFiles - 1)) = IF 0 > MaxFiles - 1 THEN 0 ELSE MaxFiles - 1 - 0 + 1
      BY <2>1, FS_Interval
    <3>2. MaxFiles - 1 - 0 + 1 = MaxFiles /\ ~(0 > MaxFiles - 1)
      BY FileNumbers
    <3> QED BY <2>2, <3>1, <3>2
  <2> QED BY <2>3, FS_RemoveElement
<1>6. IsFiniteSet(1..PerFile) /\ Cardinality(1..PerFile) = PerFile
  <2>1. 1 \in Int /\ PerFile \in Int /\ PerFile >= 1
    BY FileNumbers
  <2>2. IsFiniteSet(1..PerFile) /\ Cardinality(1..PerFile) = IF 1 > PerFile THEN 0 ELSE PerFile - 1 + 1
    BY <2>1, FS_Interval
  <2>3. PerFile - 1 + 1 = PerFile /\ ~(1 > PerFile)
    BY <2>1
  <2> QED BY <2>2, <2>3
<1> HIDE DEF T
<1>7. IsFiniteSet(P) /\ Cardinality(P) = (MaxFiles - 1) * PerFile
  <2> DEFINE places == 1..PerFile
  <2>1. IsFiniteSet(places) /\ Cardinality(places) = PerFile
    BY <1>6
  <2> HIDE DEF places
  <2>2. IsFiniteSet(T \X places) /\ Cardinality(T \X places) = Cardinality(T) * Cardinality(places)
    BY <1>5, <2>1, FS_Product
  <2> QED BY <1>5, <2>1, <2>2 DEF places
<1> HIDE DEF f, P
<1>8. f \in Injection(P, Kept(i))
  BY <1>2, <1>3 DEF Injection, IsInjective
<1>9. Cardinality(P) <= Cardinality(Kept(i))
  BY <1>4, <1>8, FS_Injection
<1>10. Cardinality(P) \in Nat /\ Cardinality(Kept(i)) \in Nat
  BY <1>4, <1>7, FS_CardinalityType
<1> QED BY <1>7, <1>9, <1>10


-----------------------------------------------------------------------------
(* The invariant of the error log. *)

\* Nothing but the clock, the counters and what waits changes.
LEMMA FilesUntouched ==
  ASSUME UNCHANGED <<files, op, past, shared, marker, floor>>
  PROVE  \A i \in Instances : /\ InOrder(i)' <=> InOrder(i)
                              /\ Kept(i)' = Kept(i) /\ Written(i)' = Written(i)
                              /\ ReadsShown(i)' <=> ReadsShown(i)
                              /\ StillToRead(i)' <=> StillToRead(i)
                              /\ Packed(i)' <=> Packed(i)
                              /\ Clearing(i)' <=> Clearing(i)
<1>1. \A i \in Instances, n \in Indexes : FileRecords(i, n)' = FileRecords(i, n)
  BY DEF FileRecords
<1>2. \A i \in Instances : Kept(i)' = Kept(i) /\ Written(i)' = Written(i)
  BY <1>1 DEF Kept, Written
<1>3. \A i \in Instances : (InOrder(i)' <=> InOrder(i)) /\ (Clearing(i)' <=> Clearing(i))
  BY DEF InOrder, Clearing
<1>4. \A i \in Instances : ReadsShown(i)' <=> ReadsShown(i)
  BY DEF ReadsShown, Hidden
<1>5. Pods' = Pods /\ Pods \subseteq Instances
  BY PodsAreInstances DEF Pods
<1>6. \A j \in Pods, n \in Indexes : FileRecords(j, n)' = FileRecords(j, n)
  BY <1>1, <1>5
<1>7. \A i \in Instances : StillToRead(i)' <=> StillToRead(i)
  BY <1>5, <1>6 DEF StillToRead, Hidden
<1>8. \A i \in Instances : Packed(i)' <=> Packed(i)
  <2>1. \A i, n : (Full(i, n)' <=> Full(i, n)) /\ (Short(i, n)' <=> Short(i, n))
    BY DEF Full, Short
  <2> QED BY <1>2, <2>1 DEF Packed
<1> QED BY <1>2, <1>3, <1>4, <1>7, <1>8

LEMMA LogTickInv ==
  ASSUME LogInv, LogTick
  PROVE  LogInv'
<1>1. UNCHANGED <<files, op, past, shared, marker, floor, waiting, used, raced>> /\ time' = time + 1
  BY DEF LogTick
<1>2. LogTyped /\ LogTyped'
  <2>1. [LogNext]_logVars /\ LogTyped
    BY DEF LogInv, LogNext
  <2> QED BY <2>1, LogTypeStep
<1>3. /\ time \in Nat /\ marker \in Nat /\ MaxTime \in Nat
      /\ \A r \in Records : r.time \in Nat
  BY <1>2, FileNumbers DEF LogTyped, LogTypeOK, Records
<1>4. \A i \in Instances : Coming(i)' = Coming(i) /\ (WaitInOrder(i)' <=> WaitInOrder(i))
  BY <1>1 DEF Coming, WaitInOrder
<1>5. \A i \in Instances : Written(i) \union Coming(i) \subseteq Records
  BY <1>2, ShownAreRecords DEF Written, Coming, LogTyped, LogTypeOK
<1>6. ASSUME NEW i \in Instances PROVE (Ordered(i) /\ ReadsShown(i) /\ StillToRead(i))'
  <2>1. \A r \in Written(i) \union Coming(i) : r.time <= time + 1
    BY <1>3, <1>5 DEF LogInv, Ordered
  <2>2. Ordered(i)'
    BY <1>1, <1>4, <2>1, FilesUntouched DEF LogInv, Ordered
  <2> QED BY <1>1, <2>2, FilesUntouched DEF LogInv
<1>7. Distinct'
  BY <1>1, <1>4, FilesUntouched DEF LogInv, Distinct
<1>8. ASSUME ~raced PROVE ClearsAlone'
  <2>1. ClearsAlone
    BY <1>8 DEF LogInv
  <2>2. \A i \in Instances : op[i] \in Operations
    BY <1>2 DEF LogTyped, LogTypeOK
  <2>3. \A i \in Instances : op[i].at = "rename marker" => op[i].cutoff <= time + 1
    <3> SUFFICES ASSUME NEW i \in Instances, op[i].at = "rename marker" PROVE op[i].cutoff <= time + 1
      OBVIOUS
    <3>1. op[i].cutoff \in Nat /\ op[i].cutoff <= time
      <4>1. op[i].cutoff \in 1..MaxTime
        BY <2>2, Operation
      <4>2. op[i].cutoff \in Nat
        BY <4>1, Times
      <4> QED BY <2>1, <4>2 DEF ClearsAlone, Cleared
    <3> QED BY <1>3, <3>1, Times
  <2>4. \A i \in Instances : Cleared(i)'
    BY <1>1, <2>1, <2>3, FilesUntouched DEF ClearsAlone, Cleared, Hidden
  <2>5. marker' <= time' /\ floor' <= marker'
    BY <1>1, <1>3, <2>1 DEF ClearsAlone
  <2> QED BY <1>1, <2>1, <2>4, <2>5, FilesUntouched DEF ClearsAlone
<1>9. used.stops = 0 => \A i \in Instances : Packed(i)'
  BY <1>1, FilesUntouched DEF LogInv
<1> QED BY <1>1, <1>2, <1>6, <1>7, <1>8, <1>9 DEF LogInv

LEMMA ReportInv ==
  ASSUME LogInv, NEW i \in Instances, Report(i)
  PROVE  LogInv'
<1> DEFINE new == [id |-> used.records + 1, time |-> time]
<1>1. UNCHANGED <<files, op, past, shared, marker, floor, time, raced>>
  BY DEF Report
<1>2. LogTyped /\ used.records \in Nat /\ used \in [records : 0..MaxRecords, extras : 0..MaxExtras, stops : 0..1]
      /\ waiting \in [Instances -> Seq(Records)] /\ time \in 1..MaxTime
  BY FileNumbers DEF LogInv, LogTyped, LogTypeOK
<1>3. used'.records = used.records + 1 /\ used'.stops = used.stops
  BY <1>2 DEF Report
<1>4. /\ waiting'[i] = Append(waiting[i], new)
      /\ \A j \in Instances \ {i} : waiting'[j] = waiting[j]
  BY <1>2 DEF Report
<1>5. new \in Records /\ new.id = used.records + 1 /\ new.time = time
  BY <1>2, FileNumbers DEF Records, Report
<1>6. LogTyped'
  <2>1. [LogNext]_logVars \/ ~(\E j \in Pods : Report(j))
    BY DEF LogNext
  <2>2. UNCHANGED <<files, op, shared, litter>> /\ Others'
    <3>1. waiting' = [waiting EXCEPT ![i] = Append(@, new)] /\ litter' = litter
      BY DEF Report
    <3>2. waiting' \in [Instances -> Seq(Records)]
      BY <1>2, <1>5, <3>1
    <3>3. used' = [used EXCEPT !.records = @ + 1] /\ used.records + 1 \in 0..MaxRecords
      BY <1>2, FileNumbers DEF Report
    <3>4. used' \in [records : 0..MaxRecords, extras : 0..MaxExtras, stops : 0..1]
      BY <1>2, <3>3
    <3> QED BY <1>1, <3>1, <3>2, <3>4 DEF Others, LogInv, LogTyped, LogTypeOK
  <2>3. Operations' = Operations
    BY <2>2 DEF Operations, Pods
  <2>4. LogTypeOK'
    BY <1>2, <2>2, <2>3 DEF LogTyped, LogTypeOK, Others
  <2> QED BY <1>2, <2>2, <2>4, SameRotation DEF LogTyped
<1> HIDE DEF new
<1>7. /\ Coming(i)' \subseteq Coming(i) \union {new}
      /\ \A j \in Instances \ {i} : Coming(j)' = Coming(j) /\ (WaitInOrder(j)' <=> WaitInOrder(j))
      /\ \A k \in DOMAIN waiting'[i] : \/ k \in DOMAIN waiting[i] /\ waiting'[i][k] = waiting[i][k]
                                       \/ k = Len(waiting[i]) + 1 /\ waiting'[i][k] = new
  <2>1. \A k \in DOMAIN waiting'[i] : \/ k \in DOMAIN waiting[i] /\ waiting'[i][k] = waiting[i][k]
                                      \/ k = Len(waiting[i]) + 1 /\ waiting'[i][k] = new
    <3>1. waiting[i] \in Seq(Records)
      BY <1>2
    <3> QED BY <1>4, <1>5, <3>1
  <2>2. Coming(i)' \subseteq Coming(i) \union {new}
    BY <1>1, <2>1 DEF Coming
  <2>3. \A j \in Instances \ {i} : Coming(j)' = Coming(j) /\ (WaitInOrder(j)' <=> WaitInOrder(j))
    BY <1>1, <1>4 DEF Coming, WaitInOrder
  <2> QED BY <2>1, <2>2, <2>3
<1>8. /\ \A j \in Instances : Written(j) \union Coming(j) \subseteq Records
      /\ \A j \in Instances : \A r \in Written(j) \union Coming(j) : r.id <= used.records /\ r.time <= time
      /\ \A r \in Records : r.id \in Nat
  <2>1. \A j \in Instances : Written(j) \union Coming(j) \subseteq Records
    BY <1>2, ShownAreRecords DEF Written, Coming, LogTyped, LogTypeOK
  <2>2. \A j \in Instances : \A r \in Written(j) \union Coming(j) : r.id <= used.records /\ r.time <= time
    BY DEF LogInv, Ordered
  <2>3. \A r \in Records : r.id \in Nat
    BY DEF Records
  <2> QED BY <2>1, <2>2, <2>3
<1>9. WaitInOrder(i)'
  <2>1. WaitInOrder(i) /\ \A k \in DOMAIN waiting[i] : waiting[i][k] \in Coming(i)
    BY <1>2 DEF LogInv, Ordered, Coming
  <2>2. \A k, l \in DOMAIN waiting'[i] : k < l => waiting'[i][k].id < waiting'[i][l].id
    <3> SUFFICES ASSUME NEW k \in DOMAIN waiting'[i], NEW l \in DOMAIN waiting'[i], k < l
                 PROVE  waiting'[i][k].id < waiting'[i][l].id
      OBVIOUS
    <3>1. waiting[i] \in Seq(Records) /\ DOMAIN waiting[i] = 1..Len(waiting[i]) /\ Len(waiting[i]) \in Nat
      BY <1>2
    <3>2. k \in DOMAIN waiting[i] /\ waiting'[i][k] = waiting[i][k]
      BY <1>7, <3>1
    <3>3. CASE l \in DOMAIN waiting[i] /\ waiting'[i][l] = waiting[i][l]
      BY <2>1, <3>2, <3>3 DEF WaitInOrder
    <3>4. CASE waiting'[i][l] = new
      <4>1. waiting[i][k].id <= used.records /\ waiting[i][k].id \in Nat
        BY <1>8, <2>1, <3>2
      <4> QED BY <1>2, <1>5, <3>2, <3>4, <4>1
    <3> QED BY <1>7, <3>3, <3>4
  <2>3. op[i].at \in Appending => \A k \in DOMAIN waiting'[i] : op[i].record.id < waiting'[i][k].id
    <3> SUFFICES ASSUME op[i].at \in Appending, NEW k \in DOMAIN waiting'[i]
                 PROVE  op[i].record.id < waiting'[i][k].id
      OBVIOUS
    <3>1. op[i].record \in Coming(i)
      <4>1. op[i] \in Operations
        BY <1>2 DEF LogTyped, LogTypeOK
      <4> QED BY <4>1, Operation DEF Coming
    <3>2. op[i].record.id <= used.records /\ op[i].record.id \in Nat
      BY <1>8, <3>1
    <3>3. CASE waiting'[i][k] = new
      BY <1>2, <1>5, <3>2, <3>3
    <3>4. CASE k \in DOMAIN waiting[i] /\ waiting'[i][k] = waiting[i][k]
      BY <2>1, <3>4 DEF WaitInOrder
    <3> QED BY <1>7, <3>3, <3>4
  <2> QED BY <1>1, <2>2, <2>3 DEF WaitInOrder
<1>10. ASSUME NEW j \in Instances PROVE Ordered(j)'
  <2>1. Ordered(j) /\ WaitInOrder(j)' /\ Written(j)' = Written(j) /\ Kept(j)' = Kept(j) /\ InOrder(j)'
        /\ Coming(j)' \subseteq Coming(j) \union {new}
    BY <1>1, <1>7, <1>9, FilesUntouched DEF LogInv, Ordered
  <2>2. \A r \in Written(j)', p \in Coming(j)' : r.id < p.id
    <3> SUFFICES ASSUME NEW r \in Written(j), NEW p \in Coming(j) \union {new} PROVE r.id < p.id
      BY <2>1
    <3>1. CASE p = new
      <4>1. r.id <= used.records /\ r.id \in Nat
        BY <1>8
      <4> QED BY <1>2, <1>5, <3>1, <4>1
    <3>2. CASE p \in Coming(j)
      BY <2>1, <3>2 DEF Ordered
    <3> QED BY <3>1, <3>2
  <2>3. \A r \in (Written(j) \union Coming(j))' : r.id <= used'.records /\ r.time <= time'
    <3> SUFFICES ASSUME NEW r \in Written(j) \union Coming(j) \union {new} PROVE r.id <= used.records + 1 /\ r.time <= time
      BY <1>1, <1>3, <2>1
    <3>1. CASE r = new
      <4>1. time \in Nat
        BY <1>2, FileNumbers
      <4>2. used.records + 1 \in Nat
        BY <1>2
      <4> QED BY <1>5, <3>1, <4>1, <4>2, NotAfterItself
    <3>2. CASE r # new
      <4>1. r.id <= used.records /\ r.time <= time /\ r.id \in Nat
        BY <1>8, <3>2
      <4> QED BY <1>2, <4>1
    <3> QED BY <3>1, <3>2
  <2> QED BY <1>1, <2>1, <2>2, <2>3 DEF Ordered
<1>11. Distinct'
  <2>1. ASSUME NEW j \in Instances, NEW k \in Instances, j # k, NEW r \in Coming(j)', NEW s \in (Written(k) \union Coming(k))'
        PROVE  r.id # s.id
    <3>1. /\ r \in Coming(j) \/ (r = new /\ j = i)
          /\ s \in Written(k) \union Coming(k) \/ (s = new /\ k = i)
      BY <1>1, <1>7, FilesUntouched
    <3>2. CASE r \in Coming(j) /\ s \in Written(k) \union Coming(k)
      BY <2>1, <3>2 DEF LogInv, Distinct
    <3>3. CASE r = new /\ j = i
      <4>1. s.id <= used.records /\ s.id \in Nat
        BY <1>8, <2>1, <3>1, <3>3
      <4> QED BY <1>2, <1>5, <3>3, <4>1
    <3>4. CASE s = new /\ k = i
      <4>1. r.id <= used.records /\ r.id \in Nat
        BY <1>8, <2>1, <3>1, <3>4
      <4> QED BY <1>2, <1>5, <3>4, <4>1
    <3> QED BY <3>1, <3>2, <3>3, <3>4
  <2>2. ASSUME NEW j \in Instances, NEW k \in Instances, op[j].at = "scan", NEW r \in Coming(k)', NEW s \in op[j].there
        PROVE  r.id # s.id
    <3>1. r \in Coming(k) \/ r = new
      BY <1>7
    <3>2. CASE r \in Coming(k)
      BY <2>2, <3>2 DEF LogInv, Distinct
    <3>3. CASE r = new
      <4>1. s.id <= used.records
        BY <2>2 DEF LogInv, Distinct
      <4>2. s \in Records
        <5>1. op[j] \in Scans
          BY <1>2, <2>2, Operation DEF LogTyped, LogTypeOK
        <5> QED BY <5>1 DEF Scans
      <4> QED BY <1>2, <1>5, <1>8, <3>3, <4>1, <4>2
    <3> QED BY <3>1, <3>2, <3>3
  <2>3. ASSUME NEW j \in Instances, op[j].at = "scan", NEW s \in op[j].there PROVE s.id <= used.records + 1
    <3>1. s.id <= used.records
      BY <2>3 DEF LogInv, Distinct
    <3>2. s \in Records
      <4>1. op[j] \in Scans
        BY <1>2, <2>3, Operation DEF LogTyped, LogTypeOK
      <4> QED BY <4>1 DEF Scans
    <3>3. s.id \in Nat
      BY <1>8, <3>2
    <3> QED BY <1>2, <3>1, <3>3
  <2> QED BY <1>1, <1>3, <2>1, <2>2, <2>3 DEF Distinct
<1>12. ~raced => ClearsAlone'
  <2> SUFFICES ASSUME ~raced PROVE ClearsAlone'
    OBVIOUS
  <2>1. ClearsAlone
    BY DEF LogInv
  <2>2. \A j \in Instances : Cleared(j)'
    BY <1>1, <2>1, FilesUntouched DEF ClearsAlone, Cleared, Hidden
  <2> QED BY <1>1, <2>1, <2>2, FilesUntouched DEF ClearsAlone
<1>13. \A j \in Instances : ReadsShown(j)' /\ StillToRead(j)'
  BY <1>1, FilesUntouched DEF LogInv
<1>14. used.stops = 0 => \A j \in Instances : Packed(j)'
  BY <1>1, FilesUntouched DEF LogInv
<1> QED BY <1>1, <1>3, <1>6, <1>10, <1>11, <1>12, <1>13, <1>14 DEF LogInv

LEMMA LogStepInv ==
  ASSUME LogInv, NEW i \in Instances, StepOf(i), [LogNext]_logVars
  PROVE  LogInv'
<1>1. LogTyped /\ LogTyped' /\ Distinct /\ \A j \in Instances : Ordered(j) /\ ReadsShown(j) /\ StillToRead(j)
  BY LogTypeStep DEF LogInv
<1>2. \A j \in Instances : Ordered(j)'
  BY <1>1, OrderedStep
<1>3. \A j \in Instances : ReadsShown(j)'
  BY <1>1, ReadsShownStep
<1>4. \A j \in Instances : StillToRead(j)'
  BY <1>1, StillToReadStep
<1>5. Distinct'
  BY <1>1, DistinctStep
<1>6. ~raced' => ClearsAlone'
  <2>1. raced \/ ClearsAlone
    BY DEF LogInv
  <2> QED BY <1>1, <2>1, ClearsAloneStep
<1>7. used'.stops = 0 => \A j \in Instances : Packed(j)'
  <2> SUFFICES ASSUME used'.stops = 0 PROVE \A j \in Instances : Packed(j)'
    OBVIOUS
  <2>1. used.stops = 0 /\ ~StopInstance(i)
    BY <1>1, SameCounters
  <2> QED BY <1>1, <2>1, PackedStep DEF LogInv
<1> QED BY <1>1, <1>2, <1>3, <1>4, <1>5, <1>6, <1>7 DEF LogInv

LEMMA LogInvStep ==
  ASSUME LogInv, [LogNext]_logVars
  PROVE  LogInv'
<1>1. CASE UNCHANGED logVars
  <2>1. LogTyped'
    BY LogTypeStep DEF LogInv
  <2>2. UNCHANGED <<files, op, past, shared, marker, floor, time, raced, used, waiting>>
    BY <1>1 DEF logVars
  <2>3. \A i \in Instances : Coming(i)' = Coming(i) /\ (WaitInOrder(i)' <=> WaitInOrder(i))
    BY <2>2 DEF Coming, WaitInOrder
  <2>4. \A i \in Instances : Ordered(i)' /\ ReadsShown(i)' /\ StillToRead(i)' /\ (Packed(i)' <=> Packed(i))
    BY <2>2, <2>3, FilesUntouched DEF LogInv, Ordered
  <2>5. Distinct'
    BY <2>2, <2>3, FilesUntouched DEF LogInv, Distinct
  <2>6. ~raced => ClearsAlone'
    BY <2>2, FilesUntouched DEF LogInv, ClearsAlone, Cleared, Hidden
  <2> QED BY <2>1, <2>2, <2>4, <2>5, <2>6 DEF LogInv
<1>2. CASE LogTick
  BY <1>2, LogTickInv
<1>3. ASSUME NEW i \in Pods, Report(i) PROVE LogInv'
  BY <1>3, ReportInv, PodsAreInstances
<1>4. ASSUME NEW i \in Pods, StepOf(i) PROVE LogInv'
  BY <1>4, LogStepInv, PodsAreInstances
<1> QED BY <1>1, <1>2, <1>3, <1>4, Steps

LEMMA LogInvInit == LogInit => LogInv
<1> SUFFICES ASSUME LogInit PROVE LogInv
  OBVIOUS
<1>1. LogTyped
  BY LogTypeInit
<1>2. /\ time = 1 /\ marker = 0 /\ floor = 0 /\ raced = FALSE
      /\ \A i \in Instances : past[i] = {} /\ waiting[i] = <<>> /\ op[i].at = "idle"
      /\ \A i \in Instances, n \in Indexes : files[i][n] = <<>>
  BY DEF LogInit, Resting
<1>3. \A i \in Instances, n \in Indexes : FileRecords(i, n) = {} /\ Readable(files[i][n]) = {}
  BY <1>2, NoBlocks DEF FileRecords
<1>4. \A i \in Instances : Kept(i) = {} /\ Written(i) = {}
  BY <1>2, <1>3 DEF Kept, Written
<1>5. \A i \in Instances : Coming(i) = {} /\ WaitInOrder(i)
  <2>1. "idle" \notin Appending /\ DOMAIN <<>> = {}
    BY DEF Appending
  <2> QED BY <1>2, <2>1 DEF Coming, WaitInOrder
<1>6. \A i \in Instances : InOrder(i) /\ WaitInOrder(i)
  BY <1>3, <1>5 DEF InOrder
<1>7. \A i \in Instances : Ordered(i) /\ ReadsShown(i) /\ StillToRead(i)
  BY <1>2, <1>4, <1>5, <1>6 DEF Ordered, ReadsShown, StillToRead
<1>8. Distinct
  BY <1>2, <1>5 DEF Distinct
<1>9. ClearsAlone
  <2>1. \A i \in Instances : ~Clearing(i)
    BY <1>2 DEF Clearing
  <2>2. \A i \in Instances : Cleared(i)
    BY <1>2, <1>4, <2>1 DEF Cleared
  <2>3. 0 <= 1 /\ 0 <= 0
    OBVIOUS
  <2> QED BY <1>2, <2>1, <2>2, <2>3 DEF ClearsAlone
<1>10. \A i \in Instances : Packed(i)
  BY <1>2, <1>4, NoBlocks DEF Packed
<1> QED BY <1>1, <1>7, <1>8, <1>9, <1>10 DEF LogInv


\* Of each instance, its files are in order and have no gap; what a read has still to
\* find lies where it did not read yet; without overlapping clears nothing is shown that
\* its instance cleared; and without a stop the files are full.
THEOREM LogInvariance == LogSpec => []LogInv
<1>1. LogInit => LogInv
  BY LogInvInit
<1>2. LogInv /\ [LogNext]_logVars => LogInv'
  BY LogInvStep
<1> QED BY <1>1, <1>2, PTL DEF LogSpec

LEMMA NewestKept ==
  ASSUME LogInv
  PROVE  KeepsNewest
<1> SUFFICES ASSUME NEW i \in Instances
             PROVE  /\ InOrder(i)
                    /\ ~raced =>
                         LET shown == Shows(Kept(i), marker) IN
                           /\ shown \subseteq past[i]
                           /\ \A r \in Shows(past[i], marker), s \in shown : r.id > s.id => r \in shown
                    /\ used.stops = 0 => \/ past[i] \subseteq Kept(i)
                                         \/ Cardinality(Kept(i)) >= (MaxFiles - 1) * PerFile
  BY DEF KeepsNewest
<1>1. LogTyped /\ Ordered(i) /\ InOrder(i)
  BY DEF LogInv, Ordered
<1>2. ASSUME ~raced
      PROVE  /\ Shows(Kept(i), marker) \subseteq past[i]
             /\ \A r \in Shows(past[i], marker), s \in Shows(Kept(i), marker) :
                  r.id > s.id => r \in Shows(Kept(i), marker)
  <2>1. \A r \in Kept(i) \ past[i] : Hidden(r, marker)
    BY <1>2 DEF LogInv, ClearsAlone, Cleared
  <2>2. \A s \in Kept(i), r \in past[i] : r.id > s.id => r \in Kept(i)
    BY <1>1 DEF Ordered
  <2> QED BY <2>1, <2>2 DEF Shows
<1>3. ASSUME used.stops = 0, ~(past[i] \subseteq Kept(i))
      PROVE  Cardinality(Kept(i)) >= (MaxFiles - 1) * PerFile
  <2>1. Packed(i)
    BY <1>3 DEF LogInv
  <2>2. PICK h \in Indexes : \A n \in Indexes : Short(i, n) => n = h
    <3>1. CASE op[i].at = "move"
      <4>1. op[i] \in Operations
        BY <1>1 DEF LogTyped, LogTypeOK
      <4>2. op[i].moved \in Indexes
        BY <3>1, <4>1, Operation DEF Moves
      <4> QED BY <3>1, <4>2 DEF Short
    <3>2. CASE op[i].at # "move"
      BY <3>2, FileNumbers DEF Short
    <3> QED BY <3>1, <3>2
  <2>3. \A n \in Indexes : n # h => Full(i, n)
    BY <1>3, <2>1, <2>2 DEF Packed
  <2>4. \A n \in Indexes : \A k \in DOMAIN files[i][n] : files[i][n][k].whole
    BY <2>1 DEF Packed
  <2> QED BY <1>1, <2>3, <2>4, ManyKept
<1> QED BY <1>1, <1>2, <1>3

LEMMA AllFound ==
  ASSUME LogInv
  PROVE  NothingMissed
<1> SUFFICES ASSUME NEW i \in Instances, Answering(i), NEW r \in op[i].there, r \in Stored(op[i].cutoff)
             PROVE  r \in op[i].got
  BY DEF NothingMissed
<1>1. op[i].at = "scan" /\ \A j \in Pods : op[i].done[j] = MaxFiles
  BY DEF Answering
<1>2. PICK j \in Pods : r \in Kept(j) /\ ~Hidden(r, op[i].cutoff)
  BY DEF Stored, Shows
<1>3. PICK n \in Indexes : r \in FileRecords(j, n)
  BY <1>2 DEF Kept
<1>4. r \in op[i].got \/ op[i].done[j] <= n
  BY <1>1, <1>2, <1>3 DEF LogInv, StillToRead
<1>5. ~(MaxFiles <= n)
  BY FileNumbers DEF Indexes
<1> QED BY <1>1, <1>4, <1>5

LEMMA ClearedHidden ==
  ASSUME LogInv
  PROVE  ClearedStaysCleared
<1> SUFFICES ASSUME shared, ~raced, NEW i \in Instances, Answering(i), NEW r \in op[i].got
             PROVE  r.time > op[i].floor
  BY DEF ClearedStaysCleared
<1>1. op[i].at = "scan" /\ LogTyped
  BY DEF Answering, LogInv
<1>2. op[i] \in Scans
  BY <1>1, Operation DEF LogTyped, LogTypeOK
<1>3. r.time \in Nat \ {0} /\ op[i].floor \in Nat /\ op[i].cutoff \in Nat
  <2>1. MaxTime \in Nat
    BY FileNumbers
  <2> QED BY <1>2, <2>1 DEF Scans, Records
<1>4. ~Hidden(r, op[i].cutoff)
  BY <1>1 DEF LogInv, ReadsShown
<1>5. op[i].floor <= op[i].cutoff
  BY <1>1 DEF LogInv, ClearsAlone, Cleared
<1> QED BY <1>3, <1>4, <1>5 DEF Hidden

\* The error log is of its type: the number of every file, the size of each, and what
\* every operation under way carries.
THEOREM LogTypeCorrect == LogSpec => []LogTypeOK
<1>1. LogInv => LogTypeOK
  BY DEF LogInv, LogTyped
<1> QED BY <1>1, LogInvariance, PTL

\* Each instance keeps the newest of the records it wrote, in order and without a gap,
\* whatever stops half-way; without a stop as many as all files but one hold.
THEOREM NewestIsKept == LogSpec => []KeepsNewest
<1>1. LogInv => KeepsNewest
  BY NewestKept
<1> QED BY <1>1, LogInvariance, PTL

\* A read misses nothing that is stored from its look at the marker to its answer.
THEOREM NothingIsMissed == LogSpec => []NothingMissed
<1>1. LogInv => NothingMissed
  BY AllFound
<1> QED BY <1>1, LogInvariance, PTL

\* What an answered clear has hidden is in no answer to a read that starts after it.
THEOREM ClearsLast == LogSpec => []ClearedStaysCleared
<1>1. LogInv => ClearedStaysCleared
  BY ClearedHidden
<1> QED BY <1>1, LogInvariance, PTL

=============================================================================
