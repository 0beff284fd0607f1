----------------------------- MODULE MCUpdates ------------------------------
(***************************************************************************)
(* An instance of UpdateTransactions.                                      *)
(***************************************************************************)
EXTENDS UpdateTransactions, Operations, Branches, FiniteSetsExt

Query(kind, name) == [do |-> kind, name |-> name]
Select(name) == Query("Select", name)
Returning(rows, fails) == [fails |-> fails] @@ rows
IfNotExists(stmt, name) == [do |-> stmt.do \o "IfNotExists", name |-> name, then |-> stmt]
IfExists(stmt, name) == [do |-> stmt.do \o "IfExists", name |-> name, then |-> stmt]

\* Rows: predicates, foreign keys, conflicts, budgets and failures.
RowMenu ==
  {Select("p"), Select("c"), Rows("Insert", "p", 3, "u", 6), Rows("Insert", "c", 2, "r", 5),
   Rows("Delete", "p", 1, "k", 0), Rows("Update", "p", 2, "u", 6), Rows("Shift", "p", 0, "u", 0),
   Rows("Clear", "p", 0, "k", 0), Rows("Fill", "p", 0, "a", 1)}

KeyMenu ==
  {Select("c"), Rows("Replace", "p", 1, "u", 5), Rows("Update", "p", 2, "k", 3),
   Rows("Insert", "p", 3, "u", 2), Returning(Rows("Insert", "p", 3, "u", 6), FALSE),
   Returning(Rows("Delete", "c", 1, "k", 0), TRUE), Rows("Clear", "c", 0, "k", 0), Rows("Fill", "c", 0, "r", 5)}

\* Names: conditional statements, PRAGMAs and a view.
NameMenu ==
  {IfNotExists(Child("d"), "d"), IfExists(DropTable("c"), "c"),
   IfNotExists(CreateIndex("c", "iy", "r", FALSE, <<>>), "iy"), IfExists(DropIndex("ix"), "ix"),
   IfExists(DropTable("v"), "v"), CreateView("v", "p"), DropView("v"),
   Query("TablePragma", "d"), Query("IndexPragma", "ix")}

\* Schema changes, the rows under them, and reads through new names.
SchemaMenu ==
  {RenameTable("p", "q"), Select("q"), RenameColumn("p", "a", "b"), AddPlain("p", "x"),
   DropColumn("p", "a"), DropConstraint("p", "ca"), Query("TablePragma", "p"),
   Rows("Update", "p", 2, "a", 2), Rows("Insert", "q", 3, "u", 6)}

ObjectMenu ==
  {CreateView("v", "p"), Select("v"), Child("d"), Rows("Insert", "d", 1, "m", 5),
   SetVersion(0), SetVersion(1), Query("UserVersion", ""), DropIndex("ix"),
   CreateIndex("c", "iu", "r", TRUE, <<>>), DropTable("c"), Rows("Insert", "c", 2, "r", 4)}

MCMenus == {RowMenu, KeyMenu, NameMenu, SchemaMenu, ObjectMenu} \X {3}

WriterSymmetry == Permutations(Writers)
-----------------------------------------------------------------------------
(* Small instances of Branches for TLC. *)

SmallPageLists == {<<1>>, <<1, 2>>}

CONSTANT MaxEffort   \* frames written plus writes of live branches

Effort == written + MapThenSumSet(LAMBDA b : IF branches[b].live THEN branches[b].writes ELSE 0,
                                  BranchSlots) <= MaxEffort
-----------------------------------------------------------------------------
(***************************************************************************)
(* Update transactions and the branches they run on, one of the two in     *)
(* each behaviour.                                                         *)
(***************************************************************************)

VARIABLE part   \* which of them runs: "updates" or "branches"

MCInit ==
  /\ part \in {"updates", "branches"}
  /\ Init /\ BranchInit
  /\ part = "branches" => menu = <<NameMenu, 3>>

UpdatePart == part = "updates" /\ Next /\ UNCHANGED <<part, branchVars>>
BranchPart == part = "branches" /\ BranchNext /\ UNCHANGED <<part, vars>>

MCSpec == MCInit /\ [][UpdatePart \/ BranchPart]_<<part, vars, branchVars>>
=============================================================================
