------------------------- MODULE MCLogicalReplicas --------------------------
(***************************************************************************)
(* An instance of LogicalReplicas.                                         *)
(***************************************************************************)
EXTENDS LogicalReplicas, Operations

\* Every operation, in pairs.
Pairs ==
  {AddPlain("p", "x"), AddPlain("p", "y"), AddChecked("p", "y", "cy", "a"),
   AddReference("c", "s", "fs", "p", "u"), RenameColumn("p", "a", "b"),
   RenameColumn("p", "u", "v"), RenameColumn("c", "r", "s"), RenameTable("p", "q"),
   DropColumn("p", "a"), DropConstraint("p", "un"), DropConstraint("p", "ca"),
   DropConstraint("p", "ct"), DropConstraint("c", "fk"), Child("d"), DropTable("c"),
   DropTable("p"), CreateIndex("c", "iy", "r", FALSE, <<>>),
   CreateIndex("c", "iu", "r", TRUE, <<>>), CreateIndex("p", "ip", "u", FALSE, <<Token("a")>>),
   DropIndex("ix"), CreateView("v", "p"), CreateView("v", "c"), SetVersion(1), SetVersion(2),
   Rows("Insert", "p", 3, "u", 6), Rows("Insert", "c", 2, "r", 5), Rows("Delete", "p", 1, "k", 0),
   Rows("Update", "p", 2, "u", 6), Rows("Update", "p", 2, "k", 3), Rows("Shift", "p", 0, "u", 0),
   Rows("Replace", "p", 1, "u", 5)}

\* Windows of two against a third operation, for the groups that interact.
Columns == {AddPlain("p", "x"), AddChecked("p", "y", "cy", "a"), RenameColumn("p", "a", "b"),
            DropColumn("p", "a"), DropConstraint("p", "ca")}
References == {DropConstraint("p", "un"), DropConstraint("c", "fk"), Child("d"),
               AddReference("c", "s", "fs", "p", "u"), DropTable("c"), DropTable("p")}
Objects == {DropIndex("ix"), CreateView("v", "c"), DropView("v"), DropTable("c"),
            RenameColumn("c", "r", "s"), CreateIndex("c", "iu", "r", TRUE, <<>>)}
Contents == {Rows("Insert", "c", 2, "r", 5), Rows("Delete", "p", 1, "k", 0),
             Rows("Update", "p", 2, "k", 3), Rows("Shift", "p", 0, "u", 0),
             DropColumn("p", "a")}

MCMenus == {<<Pairs, 2>>, <<Columns, 3>>, <<References, 3>>, <<Objects, 3>>, <<Contents, 3>>}

DeviceSymmetry == Permutations(Devices)
=============================================================================
