-------------------------- MODULE MCLogicalPlanner --------------------------
(***************************************************************************)
(* Small instances of LogicalPlanner.  Lists of one to three files, empty  *)
(* ones and files without a delimiter among them; a replacement may keep   *)
(* the length of the file (undetectable) or change it (detected).          *)
(***************************************************************************)
EXTENDS LogicalPlanner

CONSTANT MaxLen

MCByte == {"x", "\n"}
MCFiles(n) == UNION {[1..l -> MCByte] : l \in 0..n}
MCContents == {<<>>, <<"x", "\n">>, <<"x", "x", "\n", "x", "\n">>, <<"x", "x", "x", "\n", "x">>}
MCFileLists ==
    {<<f>> : f \in MCFiles(MaxLen)} \cup (MCContents \X {<<>>, <<"x", "\n">>} \X MCContents)
MCDelims == {<<"\n">>, <<"x", "\n">>}
MCPartCounts == {1, 3, 9}
MCScanBuffers == {0, 3}
=============================================================================
