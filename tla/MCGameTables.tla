---------------------------- MODULE MCGameTables ----------------------------
(* Small instances of GameTables and GameScene for TLC.                    *)
EXTENDS GameScene

MCNodes == 1 .. 3
MCKeys == {0, 1, 2, 5}   \* 5 is cut to 1 where ids are 16 bits wide

MCEntities ==
  [type : {"NPC", "Object", "Object2"}, id : {1, 2}, def : BOOLEAN, items : {<<>>}]
  \cup [type : {"Player", "Other"}, id : {1}, def : {FALSE}, items : {<<>>}]
  \cup [type : {"GroundItem"}, id : {0}, def : {FALSE}, items : {<<>>, <<1>>, <<2, 1>>}]
MCLists == UNION {[1 .. n -> MCEntities] : n \in 0 .. 2}
MCBags == UNION {[1 .. n -> {Empty, 1, 2}] : n \in 0 .. 4}
=============================================================================
