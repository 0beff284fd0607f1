----------------------------- MODULE MCReplica ------------------------------
(***************************************************************************)
(* Replica on one table of two rows: a serializable scan that rewrites one *)
(* row, a row write constrained by the other row (a foreign key), and the  *)
(* deletion of the whole table's range.                                    *)
(***************************************************************************)
EXTENDS Replica, TLC

Table == <<"t">>
RowA == <<"t", "a">>
RowB == <<"t", "b">>
Rows == {RowA, RowB}

ScanUpdate ==
  [isolation |-> "Serializable", writes |-> {Point(RowA)},
   footprint |-> [writes |-> {RowA}, constraints |-> {}, reads |-> {Table}]]

ConstrainedUpdate ==
  [isolation |-> "Snapshot", writes |-> {Point(RowB)},
   footprint |-> [writes |-> {RowB}, constraints |-> {RowA}, reads |-> {Table}]]

TruncateUpdate ==
  [isolation |-> "Snapshot", writes |-> {DeletedRange(Table)},
   footprint |-> [writes |-> {Table}, constraints |-> {}, reads |-> {}]]

Updates == {ScanUpdate, ConstrainedUpdate, TruncateUpdate}
ForeignRows == {{Point(RowA)}, {Point(RowB)}}
WriterSymmetry == Permutations(Writer)
=============================================================================
