----------------------------- MODULE GameScene -----------------------------
(***************************************************************************)
(* What a request collects in the scene: the recursive walk of             *)
(* GetStaticEntities_ over the scene's tree, the searches for the          *)
(* definition of an object or an NPC, and the loops of HandleFindEntities  *)
(* and HandleGetInventory that fill a response.  GameTables has the        *)
(* searches by id.                                                         *)
(*                                                                         *)
(* The recursion is a stack of the calls under way.  An exception ends the *)
(* request, response and all.                                              *)
(***************************************************************************)
EXTENDS GameTables, SequencesExt

CONSTANTS
  TreeNodes,  \* addresses of the nodes of the scene's tree
  MaxKids,    \* how many children a node has; a bound
  Lists,      \* lists of entities, as the loops go through them
  Bags,       \* inventories: item ids, Empty for an empty slot
  Empty       \* -1

ASSUME TreeAssumption == TreeNodes \subseteq Nat \ {0} /\ TreeNodes # {} /\ MaxKids \in Nat

Types == {"NPC", "Player", "Object", "Object2", "GroundItem", "Other"}
Entities == [type : Types, id : Keys, def : BOOLEAN, items : Seq(Keys)]
ASSUME ListsAssumption == Lists \subseteq Seq(Entities) /\ Bags \subseteq Seq({Empty} \cup Keys)

Collectors == {"GetStaticEntities", "GetObjectDef", "GetNPCDef", "HandleFindEntities", "HandleGetInventory"}

VARIABLES
  collector,  \* which function runs
  at,         \* "run", "done", "failed", "thrown", "crashed"
  kids, branch, entity,  \* the tree: children, the bit 0x20, the entity of a node
  calls,      \* the calls of GetStaticEntities_ under way: node, and children visited
  found,      \* out of GetStaticEntities
  list,       \* what the loop goes through
  wanted,     \* the id looked for
  control,    \* what GetControlledPlayer reads
  place,      \* the loop's position
  response    \* what was found or added

sceneVars == <<collector, at, kids, branch, entity, calls, found, list, wanted, control, place, response>>
scene == <<collector, kids, branch, entity, list, wanted, control>>

(* The game's scene is a tree: numbers go up from a node to its children.  *)
Children(n) == UNION {[1 .. k -> {0} \cup {m \in TreeNodes : m > n}] : k \in 0 .. MaxKids}
Root == CHOOSE n \in TreeNodes : \A m \in TreeNodes : n <= m

NoTable ==
  /\ array = FALSE /\ count = 1 /\ head = [b \in {0} |-> 0] /\ next = [n \in Nodes |-> 0]
  /\ key = [n \in Nodes |-> 0] /\ ids = <<>> /\ function = "none" /\ id = 0 /\ pc = "none"
  /\ first = 0 /\ curr = 0 /\ i = 1 /\ out = 0

NoTree == kids = <<>> /\ branch = <<>> /\ entity = <<>> /\ calls = <<>>
NoControl == control = [pointers |-> TRUE, direct |-> FALSE, indexed |-> FALSE, slot |-> FALSE, player |-> 0]
NoList == list = <<>> /\ wanted = 0 /\ NoControl

(* The entities of the server's list come before those of the scene.       *)
NPCsFirst(l) == \A m, n \in DOMAIN l : m < n /\ l[n].type = "NPC" => l[m].type = "NPC"

SceneInit ==
  /\ found = {} /\ place = 1 /\ response = <<>>
  /\ \/ Init /\ NoTree /\ NoList /\ collector = "none" /\ at = "none"
     \/ /\ NoTable /\ at = "run"
        /\ \/ /\ collector = "GetStaticEntities" /\ NoList
              /\ kids \in {k \in [TreeNodes -> UNION {Children(n) : n \in TreeNodes}] :
                             \A n \in TreeNodes : k[n] \in Children(n)}
              /\ branch \in [TreeNodes -> BOOLEAN]
              /\ entity \in {e \in [TreeNodes -> TreeNodes \cup {0}] :
                               \A n \in TreeNodes : e[n] \in {0, n}}
              /\ calls = <<[node |-> Root, visited |-> 0]>>
           \/ /\ collector \in {"GetObjectDef", "GetNPCDef"} /\ NoTree
              /\ list \in Lists /\ wanted \in Keys /\ NoControl
           \/ /\ collector = "HandleFindEntities" /\ NoTree
              /\ list \in {l \in Lists : NPCsFirst(l)} /\ wanted = 0
              /\ control \in [pointers : BOOLEAN, direct : BOOLEAN, indexed : BOOLEAN, slot : BOOLEAN,
                              player : 0 .. Len(list)]
           \/ /\ collector = "HandleGetInventory" /\ NoTree
              /\ list \in Bags /\ wanted = 0 /\ NoControl

End(how) == at' = how /\ UNCHANGED <<scene, calls, found, place, response>>
-----------------------------------------------------------------------------
(* Slips, no part of the specification.                                    *)

(* The children of a node without the bit are visited too.                 *)
VisitKidUnflagged ==
  /\ collector = "GetStaticEntities" /\ at = "run" /\ calls # <<>>
  /\ LET call == Last(calls)  n == call.node  k == call.visited + 1
     IN  /\ k <= Len(kids[n]) /\ kids[n][k] # 0
         /\ found' = IF k = 1 /\ entity[n] # 0 THEN found \cup {entity[n]} ELSE found
         /\ calls' = Append(Front(calls) \o <<[call EXCEPT !.visited = k]>>,
                            [node |-> kids[n][k], visited |-> 0])
  /\ UNCHANGED <<scene, at, place, response>>

(* An empty slot does not count.                                           *)
AddItemPacked ==
  /\ collector = "HandleGetInventory" /\ at = "run" /\ place <= Len(list)
  /\ response' = IF list[place] = Empty THEN response
                 ELSE Append(response, [id |-> list[place], slot |-> Len(response)])
  /\ place' = place + 1
  /\ UNCHANGED <<scene, at, calls, found>>
-----------------------------------------------------------------------------
(* GetStaticEntities_.  Its first statements run with the first child, or  *)
(* with the return when there is none.                                     *)

Own(n) == {entity[n]} \ {0}
Visited(n) == IF branch[n] THEN kids[n] ELSE <<>>

VisitKid ==
  /\ collector = "GetStaticEntities" /\ at = "run" /\ calls # <<>>
  /\ LET call == Last(calls)  n == call.node  k == call.visited + 1
     IN  /\ k <= Len(Visited(n)) /\ kids[n][k] # 0
         /\ found' = found \cup Own(n)
         /\ calls' = Append(Front(calls) \o <<[call EXCEPT !.visited = k]>>,
                            [node |-> kids[n][k], visited |-> 0])
  /\ UNCHANGED <<scene, at, place, response>>

(* For a null child ReadPtrOffset throws at the start of its call.         *)
NullKid ==
  /\ collector = "GetStaticEntities" /\ at = "run" /\ calls # <<>>
  /\ LET call == Last(calls)  n == call.node  k == call.visited + 1
     IN  k <= Len(Visited(n)) /\ kids[n][k] = 0
  /\ End("thrown")

Leave ==
  /\ collector = "GetStaticEntities" /\ at = "run" /\ calls # <<>>
  /\ LET call == Last(calls)
     IN  /\ call.visited = Len(Visited(call.node))
         /\ found' = found \cup Own(call.node)
         /\ calls' = Front(calls)
  /\ UNCHANGED <<scene, at, place, response>>

WalkDone == collector = "GetStaticEntities" /\ at = "run" /\ calls = <<>> /\ End("done")
-----------------------------------------------------------------------------
(* The loops.                                                              *)

Here(c) == collector = c /\ at = "run" /\ place <= Len(list)
Pass == place' = place + 1 /\ UNCHANGED <<scene, at, calls, found, response>>
Add(entries) ==
  /\ response' = response \o entries
  /\ place' = place + 1
  /\ UNCHANGED <<scene, at, calls, found>>
Answer(x) == response' = <<x>> /\ at' = "done" /\ UNCHANGED <<scene, calls, found, place>>

(* GetObjectDef: entities of the two types of objects, with a definition.  *)
ObjectMatches(e) == e.type \in {"Object", "Object2"} /\ e.def /\ e.id = wanted
TestObject ==
  /\ Here("GetObjectDef")
  /\ IF ObjectMatches(list[place]) THEN Answer(place) ELSE Pass

(* GetNPCDef: it goes on when the NPC's definition is null.                *)
NPCMatches(e) == e.type = "NPC" /\ e.id = wanted /\ e.def
TestNPC ==
  /\ Here("GetNPCDef")
  /\ IF NPCMatches(list[place]) THEN Answer(place) ELSE Pass

NoneMatches ==
  /\ collector \in {"GetObjectDef", "GetNPCDef"} /\ at = "run" /\ place > Len(list)
  /\ End("failed")

(* GetControlledPlayer: the player that is watched, or the one of an index, *)
(* which may be -1 and whose slot may be empty.                            *)
ControlledPlayer ==
  IF control.direct \/ (control.indexed /\ control.slot) THEN control.player ELSE 0

(* HandleFindEntities makes its three lists before it adds an entry, and   *)
(* each of them may meet a pointer or a table that is not there.           *)
NoLists ==
  /\ collector = "HandleFindEntities" /\ at = "run" /\ response = <<>> /\ place = 1
  /\ \E how \in {"thrown", "crashed"} : End(how)

(* GetControlledPlayer is called between the two loops, and throws for a   *)
(* null pointer.                                                           *)
BetweenLoops == place \in DOMAIN list => list[place].type # "NPC"
NoPlayer ==
  /\ collector = "HandleFindEntities" /\ at = "run" /\ BetweenLoops
  /\ ~ control.pointers
  /\ End("thrown")

(* HandleFindEntities: an entry for an NPC of the server's list and for a  *)
(* player (who is given no id), one for an object that has a definition,   *)
(* one for each item on a tile, and none for other types.                  *)
AddEntity ==
  /\ Here("HandleFindEntities")
  /\ BetweenLoops => control.pointers
  /\ LET e == list[place]
         Entry(x) == [type |-> e.type, id |-> x, controlled |-> e.type = "Player" /\ place = ControlledPlayer]
     IN  CASE e.type = "NPC" -> Add(<<Entry(e.id)>>)
           [] e.type = "Player" -> Add(<<Entry(0)>>)
           [] e.type \in {"Object", "Object2"} -> IF e.def THEN Add(<<Entry(e.id)>>) ELSE Pass
           [] e.type = "GroundItem" -> Add([j \in DOMAIN e.items |-> Entry(e.items[j])])
           [] OTHER -> Pass

(* The movement of an NPC is read through a pointer nobody looks at.       *)
NoMovement ==
  /\ Here("HandleFindEntities") /\ list[place].type = "NPC"
  /\ End("crashed")

(* HandleGetInventory: slot counts the empty ones as well.                 *)
AddItem ==
  /\ Here("HandleGetInventory")
  /\ IF list[place] = Empty THEN Pass
     ELSE Add(<<[id |-> list[place], slot |-> place - 1]>>)

(* GetItemDef: the pointers to the game's function are looked at, what the *)
(* function returns is not.                                                *)
NoItemDef ==
  /\ \/ Here("HandleGetInventory") /\ list[place] # Empty
     \/ /\ Here("HandleFindEntities")
        /\ list[place].type = "GroundItem" /\ list[place].items # <<>>
  /\ \E how \in {"thrown", "crashed"} : End(how)

LoopDone ==
  /\ collector \in {"HandleFindEntities", "HandleGetInventory"} /\ at = "run" /\ place > Len(list)
  /\ control.pointers
  /\ End("done")

SceneNext ==
  \/ /\ VisitKid \/ NullKid \/ Leave \/ WalkDone
        \/ TestObject \/ TestNPC \/ NoneMatches
        \/ NoLists \/ NoPlayer \/ AddEntity \/ NoMovement \/ AddItem \/ NoItemDef \/ LoopDone
     /\ UNCHANGED vars
  \/ Next /\ UNCHANGED sceneVars

SceneSpec == SceneInit /\ [][SceneNext]_<<vars, sceneVars>> /\ WF_<<vars, sceneVars>>(SceneNext)
-----------------------------------------------------------------------------
(* Properties.                                                             *)

(* The nodes, and perhaps the null pointer, that flagged nodes lead to     *)
(* from the root: what is in every set that has the root and the children  *)
(* of each of its flagged nodes.                                           *)
Under(S) == Root \in S /\ \A n \in S \ {0} : ToSet(Visited(n)) \subseteq S
Below == {m \in TreeNodes \cup {0} : \A S \in SUBSET (TreeNodes \cup {0}) : Under(S) => m \in S}

(* GetStaticEntities collects the entities of all nodes below the root and *)
(* of no others; it throws, and the request with it, exactly when one of   *)
(* the pointers on the way is null, however deep.                          *)
StaticRight ==
  collector = "GetStaticEntities" =>
    /\ at = "done" => 0 \notin Below /\ found = {entity[n] : n \in Below} \ {0}
    /\ at = "thrown" => 0 \in Below

(* The entries of a type and an id that are due for an entity, by number:  *)
(* one for an NPC, a player (who is given no id) and an object with a      *)
(* definition, and one for each item on a tile.                            *)
Due(e, type, x) ==
  IF e.type # type \/ e.type = "Other" THEN {}
  ELSE IF e.type = "GroundItem" THEN {j \in DOMAIN e.items : e.items[j] = x}
  ELSE {j \in {1} : IF e.type = "Player" THEN x = 0
                                          ELSE e.id = x /\ (e.type = "NPC" \/ e.def)}

(* A response has the non-empty slots of an inventory, each once, in order *)
(* and under its own number; the entries that are due for the entities and no others, and    *)
(* the controlled player's alone is marked as such if it is in the scene;  *)
(* a search finds a definition of the id that was asked for whenever one   *)
(* can be seen.                                                            *)
InventoryRight ==
  collector = "HandleGetInventory" /\ at = "done" =>
    /\ {<<e.slot, e.id>> : e \in ToSet(response)} = {<<n - 1, list[n]>> : n \in {m \in DOMAIN list : list[m] # Empty}}
    /\ \A k, l \in DOMAIN response : k < l => response[k].slot < response[l].slot
EntriesRight ==
  collector = "HandleFindEntities" /\ at = "done" =>
    /\ \A type \in Types, x \in Keys :
         Cardinality({k \in DOMAIN response : response[k].type = type /\ response[k].id = x}) =
         Cardinality(UNION {{n} \X Due(list[n], type, x) : n \in DOMAIN list})
    /\ Cardinality({k \in DOMAIN response : response[k].controlled}) =
         IF ControlledPlayer # 0 /\ list[ControlledPlayer].type = "Player" THEN 1 ELSE 0
DefinitionRight ==
  /\ collector = "GetObjectDef" =>
       /\ at = "done" => ObjectMatches(list[response[1]])
       /\ at = "failed" => \A n \in DOMAIN list : ~ ObjectMatches(list[n])
  /\ collector = "GetNPCDef" =>
       /\ at = "done" => NPCMatches(list[response[1]])
       /\ at = "failed" => \A n \in DOMAIN list : ~ NPCMatches(list[n])
ResponseRight == InventoryRight /\ EntriesRight /\ DefinitionRight
=============================================================================
