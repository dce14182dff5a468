----------------------------- MODULE MCCsvReader -----------------------------
(* Instances of CsvReader for TLC. *)
EXTENDS CsvReader

CONSTANTS r1, r2

TwoReaders == {r1, r2}
OneReader == {r1}

\* At most one row does not fit, or the last two rows of three have another
\* width.
FewMisfits(rows) ==
  \/ Cardinality({i \in DOMAIN rows : rows[i] # "good"}) <= 1
  \/ rows = <<"good", "uneven", "uneven">>

\* Every file of up to three rows of which few do not fit, ended or not, and
\* headers that are refused.
SmallFiles ==
  [header : {"ok"},
   rows : {rows \in UNION {[1..n -> RowKind] : n \in 0..3} : FewMisfits(rows)},
   newline : BOOLEAN]
    \cup [header : {"bad", "none"}, rows : {<<>>}, newline : {TRUE}]

NumbersAndNames == {<<>>, <<"STRING", "FLOAT">>}
==============================================================================
