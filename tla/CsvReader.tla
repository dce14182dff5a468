------------------------------ MODULE CsvReader ------------------------------
(***************************************************************************)
(* yasl::io::CsvReader (io/rw/csv_reader.cc) over an InputStream           *)
(* (io/stream): a reader by rows, which remembers where rows start so that *)
(* it can seek, or by columns, which it first splits into mapped files;    *)
(* and the readers spawned from it, each used by a thread of its own.      *)
(*                                                                         *)
(* A position of the stream is a number of lines.  The header is line 1,   *)
(* row i (rows count from 0) starts at position i + 1.                     *)
(***************************************************************************)
EXTENDS Integers, FiniteSets, Sequences, FiniteSetsExt

CONSTANTS
  Reader,     \* the reader and those that may be spawned from it
  Root,       \* the one that is constructed
  Files,      \* the files: [header : HeaderKind, rows : Seq(RowKind),
              \*             newline : BOOLEAN]
  Selections, \* the feature_types of file_schema: sequences of FeatureKind
  BatchSize,  \* options_.batch_size
  Sizes       \* the sizes Next is called with

\* Whether ParseHeader and the search for the selected features succeed; "none"
\* is the empty file.
HeaderKind == {"ok", "bad", "none"}

\* A row of another width than the header is "uneven"; a row of the header's
\* width in which a selected number does not convert is "text".
RowKind == {"good", "text", "uneven"}

FeatureKind == {"STRING", "FLOAT", "DOUBLE"}

\* By row; by row with row_reader_count_lines; column_reader.
Mode == {"row", "count", "col"}

\* kUnknowTotalRow
Unknown == -1

\* A batch size of 0 is not refused by the code, but reads nothing (and divides
\* by zero in CountLines).
ASSUME CsvAssumption ==
  /\ Root \in Reader
  /\ Files \subseteq [header : HeaderKind, rows : Seq(RowKind), newline : BOOLEAN]
  /\ \A f \in Files : f.header = "none" => f.rows = <<>>
  /\ Selections \subseteq Seq(FeatureKind)
  /\ BatchSize \in Nat \ {0}
  /\ Sizes \subseteq Nat \ {0}

VARIABLES
  file,      \* the input
  mode,      \* options_.column_reader, options_.row_reader_count_lines
  selected,  \* the types in selected_features_
  life,      \* "none", "made", "inited", "failed" (Init threw) or "gone"
  in,        \* in_: position and state bits of the stream of each reader
  index,     \* current_index_
  total,     \* total_rows_
  rowsMap,   \* rows_map_
  cols,      \* the number of values in each file of mmap_dir_
  dir,       \* whether mmap_dir_ exists
  out        \* the outcome of the last call (history)

csvVars == <<file, mode, selected, life, in, index, total, rowsMap, cols, dir, out>>

options == <<file, mode, selected>>

Rows == Len(file.rows)

\* How many lines the file has.
Lines == IF file.header = "none" THEN 0 ELSE Rows + 1

Feature == 1..Len(selected)

(***************************************************************************)
(* The stream.                                                             *)
(***************************************************************************)
\* Seekg: clears the state bits.
Seekg(pos) == [pos |-> pos, eof |-> FALSE]

\* The stream after n lines were read from position pos.  The last line sets
\* eofbit if no delimiter ends it.
AfterLines(pos, n) ==
  [pos |-> pos + n, eof |-> n > 0 /\ pos + n = Lines /\ ~file.newline]

\* The stream after a GetLine that found no line: eofbit and failbit are set.
\* Only Eof() and a failed GetLine are ever asked for, so failbit is left out.
AtEof == [pos |-> Lines, eof |-> TRUE]

\* The stream after a loop that asks for n lines from position pos.
ReadLines(pos, n) ==
  IF pos + n <= Lines THEN AfterLines(pos, n) ELSE AtEof

\* InputStream::Spawn: a stream at the same position.  The position is sought,
\* so the state bits are not copied.
SpawnStream(s) == Seekg(s.pos)

(***************************************************************************)
(* Row n of the file, for the selected features.                           *)
(***************************************************************************)
\* fields.size() != headers_.size()
Uneven(row) == file.rows[row + 1] = "uneven"

\* !FloatFromString(field, &value) for a selected number
Text(row) ==
  /\ file.rows[row + 1] = "text"
  /\ \E i \in Feature : selected[i] # "STRING"

\* upper_bound and insert: an entry is only added behind all others.
UpdateRowMap(m, i, pos) ==
  IF \E k \in DOMAIN m : k >= i
  THEN m
  ELSE [k \in DOMAIN m \cup {i} |-> IF k = i THEN pos ELSE m[k]]

\* CountLines: the rows_map_ of a scan over all lines.
CountLinesMap == [k \in {i \in 0..Rows : i % BatchSize = 0} |-> k + 1]

\* What a call came to for its caller.  The rows of a batch are those that the
\* stream is at: Ahead below.
Outcome(r, res) == [by |-> r, res |-> res]

CsvInit ==
  /\ file \in Files
  /\ mode \in Mode
  /\ selected \in Selections
  /\ life = [r \in Reader |-> IF r = Root THEN "made" ELSE "none"]
  /\ in = [r \in Reader |-> Seekg(0)]
  /\ index = [r \in Reader |-> 0]
  /\ total = [r \in Reader |-> Unknown]
  /\ rowsMap = [r \in Reader |-> <<>>]
  /\ cols = <<>>
  /\ dir = FALSE
  /\ out = [by |-> Root, res |-> "true"]

(***************************************************************************)
(* CsvReader::Init.  A caller drops a reader whose Init threw, except when *)
(* the last statement, Seek(0), threw: the reader is then initialised.     *)
(***************************************************************************)
\* The header, the selection, a row that does not fit or a failed write.
InitThrows ==
  /\ life' = [life EXCEPT ![Root] = "failed"]
  /\ out' = Outcome(Root, "throw")
  /\ UNCHANGED <<options, in, index, total, rowsMap, cols>>

InitBadHeader ==
  /\ life[Root] = "made"
  /\ file.header # "ok" \/ (mode = "col" /\ selected = <<>>)
  /\ InitThrows
  /\ UNCHANGED dir

\* By rows.  Counting the lines of a file without rows makes Seek(0) throw.
InitRow ==
  /\ life[Root] = "made"
  /\ file.header = "ok"
  /\ mode # "col"
  /\ life' = [life EXCEPT ![Root] = "inited"]
  /\ rowsMap' = [rowsMap EXCEPT ![Root] =
                   IF mode = "count" THEN CountLinesMap ELSE UpdateRowMap(<<>>, 0, 1)]
  /\ total' = [total EXCEPT ![Root] = IF mode = "count" THEN Rows ELSE Unknown]
  /\ in' = [in EXCEPT ![Root] = IF total'[Root] = 0 THEN AtEof ELSE Seekg(1)]
  /\ out' = Outcome(Root, IF total'[Root] = 0 THEN "throw" ELSE "true")
  /\ UNCHANGED <<options, index, cols, dir>>

\* By columns: BuildMmapFiles writes each selected feature to a file of its own.
\* The streams buffer, so that a write may fail as late as in Close; short are
\* the files that lack values because of that.
BuildMmapFiles(short) ==
  cols' = [i \in Feature |-> IF i \in short THEN Rows - 1 ELSE Rows]

InitCol ==
  /\ life[Root] = "made"
  /\ file.header = "ok"
  /\ mode = "col" /\ selected # <<>>
  /\ dir' = TRUE
  /\ \/ /\ \E row \in 0..Rows - 1 : Uneven(row) \/ Text(row)
        /\ InitThrows
     \/ /\ \A row \in 0..Rows - 1 : ~Uneven(row) /\ ~Text(row)
        /\ BuildMmapFiles({})
        /\ life' = [life EXCEPT ![Root] = "inited"]
        /\ total' = [total EXCEPT ![Root] = Rows]
        /\ in' = [in EXCEPT ![Root] = AtEof]
        /\ out' = Outcome(Root, "true")
        /\ UNCHANGED <<options, index, rowsMap>>

\* A file could not be written in full: os->Close() threw, and Init rethrows.
InitColShort ==
  /\ life[Root] = "made"
  /\ file.header = "ok"
  /\ mode = "col" /\ selected # <<>>
  /\ Rows > 0
  /\ \A row \in 0..Rows - 1 : ~Uneven(row) /\ ~Text(row)
  /\ dir' = TRUE
  /\ \E short \in SUBSET Feature \ {{}} : BuildMmapFiles(short)
  /\ life' = [life EXCEPT ![Root] = "failed"]
  /\ total' = [total EXCEPT ![Root] = Rows]
  /\ in' = [in EXCEPT ![Root] = AtEof]
  /\ out' = Outcome(Root, "throw")
  /\ UNCHANGED <<options, index, rowsMap>>

(***************************************************************************)
(* CsvReader::NextRow                                                      *)
(***************************************************************************)
\* The rows that a batch of n asks for and that there are.
Ahead(r, n) == in[r].pos - 1 .. Min({in[r].pos + n, Lines}) - 2

\* The rows among them that make NextRow throw.
Misfits(r, n) == {row \in Ahead(r, n) : Uneven(row) \/ Text(row)}

\* Nothing is read and nothing else is done once the stream has reported its end.
NextRowAtEof(r) ==
  /\ in[r].eof
  /\ out' = Outcome(r, "false")
  /\ UNCHANGED <<options, life, in, index, total, rowsMap, cols, dir>>

NextRowBatch(r, n) ==
  /\ ~in[r].eof
  /\ Misfits(r, n) = {}
  /\ LET count == Cardinality(Ahead(r, n))
     IN /\ in' = [in EXCEPT ![r] = ReadLines(in[r].pos, n)]
        /\ index' = [index EXCEPT ![r] = @ + count]
        /\ rowsMap' = [rowsMap EXCEPT ![r] =
             IF count = n THEN UpdateRowMap(@, index'[r], in'[r].pos) ELSE @]
        /\ total' = [total EXCEPT ![r] = IF in'[r].eof THEN index'[r] ELSE @]
        /\ out' = Outcome(r, IF count # 0 THEN "true" ELSE "false")
  /\ UNCHANGED <<options, life, cols, dir>>

\* Neither kind of row is counted.
Counted_Never(row, lines) == lines - 1

\* How many of the lines read, of which this row is the last, are counted in
\* current_index_: an uneven row is thrown at before it is counted, a row with
\* text for a number after.
Counted(row, lines) == IF Uneven(row) THEN lines - 1 ELSE lines

\* A row that does not fit: the rows before it in the batch have been consumed
\* and are lost.
NextRowThrows(r, n) ==
  /\ ~in[r].eof
  /\ Misfits(r, n) # {}
  /\ LET row   == Min(Misfits(r, n))
         lines == row + 2 - in[r].pos
     IN /\ in' = [in EXCEPT ![r] = AfterLines(@.pos, lines)]
        /\ index' = [index EXCEPT ![r] = @ + Counted(row, lines)]
  /\ out' = Outcome(r, "throw")
  /\ UNCHANGED <<options, life, total, rowsMap, cols, dir>>

NextRow(r, n) == NextRowAtEof(r) \/ NextRowBatch(r, n) \/ NextRowThrows(r, n)

(***************************************************************************)
(* CsvReader::NextCol, n times                                             *)
(***************************************************************************)
\* The file is there, it is not empty (mmap refuses an empty file), and it has
\* a value for every row.
Mappable(r, i) == dir /\ cols[i] > 0 /\ cols[i] = total[r]

\* The columns that a call for n columns comes to.
ColsAhead(r, n) == index[r] + 1 .. Min({index[r] + n, Len(selected)})

NextCol(r, n) ==
  /\ LET broken == {i \in ColsAhead(r, n) : ~Mappable(r, i)}
     IN IF broken = {}
        THEN /\ index' = [index EXCEPT ![r] = @ + Cardinality(ColsAhead(r, n))]
             /\ out' = Outcome(r, IF ColsAhead(r, n) # {} THEN "true" ELSE "false")
        ELSE /\ index' = [index EXCEPT ![r] = Min(broken)]
             /\ out' = Outcome(r, "throw")
  /\ UNCHANGED <<options, life, in, total, rowsMap, cols, dir>>

\* Next(data): batch_size rows or one column.
NextData(r) ==
  /\ life[r] = "inited"
  /\ IF mode = "col" THEN NextCol(r, 1) ELSE NextRow(r, BatchSize)

\* Next(size, data)
NextSize(r) ==
  /\ life[r] = "inited"
  /\ \E n \in Sizes : IF mode = "col" THEN NextCol(r, n) ELSE NextRow(r, n)

(***************************************************************************)
(* CsvReader::Seek                                                         *)
(***************************************************************************)
\* The last row at or before row i whose position is known.
KnownRow(r, i) == Max({k \in DOMAIN rowsMap[r] : k <= i})

\* Seekg without clear().
SeekStream_KeepsEof(r, pos, n) ==
  [ReadLines(pos, n) EXCEPT !.eof = @ \/ in[r].eof]

\* Seekg, whatever the stream was at before, and NextLine n times.
SeekStream(r, pos, n) == ReadLines(pos, n)

SeekRefused(r, i) ==
  /\ IF mode = "col" THEN i >= Len(selected) ELSE total[r] # Unknown /\ i >= total[r]
  /\ out' = Outcome(r, "throw")
  /\ UNCHANGED <<options, life, in, index, total, rowsMap, cols, dir>>

SeekCol(r, i) ==
  /\ mode = "col" /\ i < Len(selected)
  /\ index' = [index EXCEPT ![r] = i]
  /\ out' = Outcome(r, "true")
  /\ UNCHANGED <<options, life, in, total, rowsMap, cols, dir>>

\* Lines are skipped without a look at their fields.  When there are too few,
\* Seek throws, with the reader at the end of the file.
SeekRow(r, i) ==
  /\ mode # "col" /\ (total[r] = Unknown \/ i < total[r])
  /\ LET k == KnownRow(r, i)
     IN /\ in' = [in EXCEPT ![r] = SeekStream(r, rowsMap[r][k], i - k)]
        /\ index' = [index EXCEPT ![r] = Min({i, k + Lines - rowsMap[r][k]})]
  /\ out' = Outcome(r, IF index'[r] = i THEN "true" ELSE "throw")
  /\ UNCHANGED <<options, life, total, rowsMap, cols, dir>>

\* Up to two past the end.
Seek(r) ==
  /\ life[r] = "inited"
  /\ \E i \in 0..Max({Rows, Len(selected)}) + 1 : SeekRefused(r, i) \/ SeekCol(r, i) \/ SeekRow(r, i)

(***************************************************************************)
(* Spawn and the destructor.                                               *)
(***************************************************************************)
Spawn(r, s) ==
  /\ life[r] = "inited" /\ life[s] = "none"
  /\ life' = [life EXCEPT ![s] = "inited"]
  /\ in' = [in EXCEPT ![s] = SpawnStream(in[r])]
  /\ index' = [index EXCEPT ![s] = index[r]]
  /\ total' = [total EXCEPT ![s] = total[r]]
  /\ rowsMap' = [rowsMap EXCEPT ![s] = rowsMap[r]]
  /\ out' = Outcome(r, "true")
  /\ UNCHANGED <<options, cols, dir>>

\* Every reader removes the directory.
LastOne_NotShared(r) == TRUE

\* mmap_dir_ is shared: ~MmapDirGuard removes the directory with the last reader.
LastOne(r) == \A s \in Reader \ {r} : life[s] \in {"none", "gone"}

\* The members of a reader that is gone are given the values they have in one
\* that is not there yet.
DestroyReader(r) ==
  /\ life[r] \in {"made", "inited", "failed"}
  /\ life' = [life EXCEPT ![r] = "gone"]
  /\ dir' = (dir /\ ~LastOne(r))
  /\ in' = [in EXCEPT ![r] = Seekg(0)]
  /\ index' = [index EXCEPT ![r] = 0]
  /\ total' = [total EXCEPT ![r] = Unknown]
  /\ rowsMap' = [rowsMap EXCEPT ![r] = <<>>]
  /\ out' = Outcome(r, "true")
  /\ UNCHANGED <<options, cols>>

Step ==
  \/ InitBadHeader \/ InitRow \/ InitCol \/ InitColShort
  \/ \E r \in Reader : NextData(r) \/ NextSize(r) \/ Seek(r) \/ DestroyReader(r)
  \/ \E r, s \in Reader : Spawn(r, s)

CsvSpec == CsvInit /\ [][Step]_csvVars

(***************************************************************************)
(* Properties                                                              *)
(***************************************************************************)
\* Types: positions, counts and map entries lie within the file.
CsvTypeOK ==
  /\ file \in Files /\ mode \in Mode /\ selected \in Selections
  /\ life \in [Reader -> {"none", "made", "inited", "failed", "gone"}]
  /\ in \in [Reader -> [pos : 0..Lines, eof : BOOLEAN]]
  /\ index \in [Reader -> 0..Max({Rows, Len(selected)})]
  /\ total \in [Reader -> 0..Rows \cup {Unknown}]
  /\ \A r \in Reader : /\ DOMAIN rowsMap[r] \subseteq 0..Rows
                       /\ \A k \in DOMAIN rowsMap[r] : rowsMap[r][k] \in 1..Lines
  /\ cols = <<>> \/ cols \in [Feature -> 0..Rows]
  /\ dir \in BOOLEAN
  /\ out \in [by : Reader, res : {"true", "false", "throw"}]

RowReaders == {r \in Reader : life[r] = "inited" /\ mode # "col"}

EvenFile == \A row \in 0..Rows - 1 : ~Uneven(row)

\* In a file all of whose rows have the width of the header, the index, the map
\* and the row count of every reader by rows agree with where its stream stands,
\* in spite of batches of any size, seeks that fail half way, rows that do not
\* convert and copies taken at any time: Tell() is the row that Next() begins
\* with, Seek(i) comes to row i, Rows() is the number of rows (UpdateRowMap,
\* NextRow, Seek and Spawn of csv_reader.cc).
\* In files with rows of another width they do not agree: NextRow throws after it
\* has read such a row and before it counts it (csv_reader.cc:398-406).  From then
\* on Tell() is less than the row that Next() begins with, the map has later
\* positions than those of its rows, and Seek(Tell()) may come to a row that was
\* given out already, or pass over rows.  Of these files only the direction is
\* stated: no reader has counted, and no entry claims, more rows than lie before
\* the position.
PositionsAgree ==
  \A r \in RowReaders :
    /\ index[r] <= in[r].pos - 1
    /\ \A k \in DOMAIN rowsMap[r] : k <= rowsMap[r][k] - 1
    /\ total[r] <= Rows
    /\ EvenFile =>
         /\ index[r] = in[r].pos - 1
         /\ \A k \in DOMAIN rowsMap[r] : k = rowsMap[r][k] - 1
         /\ total[r] \in {Unknown, Rows}

\* Next() returns false only when there is nothing left to read from where the
\* reader stands, also after a seek back from the end, a seek that failed, or a
\* batch that threw at the last line (the comment on Reader::Next, and the early
\* return of NextRow on Eof()).
NextFalseIsEof ==
  (out.res = "false" /\ life[out.by] = "inited") =>
    IF mode = "col" THEN index[out.by] = Len(selected) ELSE in[out.by].pos = Lines

\* Whoever of the readers by column is destroyed first, the files that the others
\* are still to map exist, and hold a value for each row (mmap_dir_ as reference
\* counter, and the check of every Close() in BuildMmapFiles).  A file without
\* rows cannot be mapped.
ColumnsReadable ==
  (mode = "col" /\ Rows > 0) =>
    \A r \in Reader : life[r] = "inited" => \A i \in Feature : Mappable(r, i)

\* A reader is in one of its states, and in each of them its index, map, row
\* count and stream tell the same story.
ReaderConsistent == CsvTypeOK /\ PositionsAgree

=============================================================================
