-------------------------- MODULE GameSceneProofs --------------------------
(***************************************************************************)
(* What GameScene collects, for any tree, any list of entities and any     *)
(* inventory; and that the searches of GameTables stay right beside it.    *)
(* The theorems are at the end.                                            *)
(***************************************************************************)
EXTENDS GameScene, GameTablesProofs

(* Either a search of GameTables runs, or one of the functions here.       *)
SearchInv == (pc = "none" /\ function = "none") \/ TableInv

LEMMA SearchInit == SceneInit => SearchInv
  BY TableInit DEF SceneInit, NoTable, SearchInv

LEMMA SearchStep == SearchInv /\ [SceneNext]_<<vars, sceneVars>> => SearchInv'
<1> SUFFICES ASSUME SearchInv, [SceneNext]_<<vars, sceneVars>> PROVE SearchInv'
  OBVIOUS
<1>1. [Next]_vars
  BY DEF SceneNext
<1>2. CASE pc = "none" /\ function = "none"
  <2>1. ~ Next
    BY <1>2 DEF Next, DivideByZero, NoArray, FindChain, ChainStep, FindRing, RingStep, NextEntity, EntryStep
  <2> QED
    BY <1>1, <1>2, <2>1 DEF vars, table, SearchInv
<1>3. CASE TableInv
  BY <1>1, <1>3, TableStep DEF SearchInv
<1> QED
  BY <1>2, <1>3 DEF SearchInv
-----------------------------------------------------------------------------
(* The walk over the tree.                                                 *)

TreeOK ==
  /\ kids \in [TreeNodes -> Seq(TreeNodes \cup {0})]
  /\ branch \in [TreeNodes -> BOOLEAN]
  /\ entity \in [TreeNodes -> TreeNodes \cup {0}]

(* A call under way is for a node below the root, and the children that it *)
(* has visited are walked in full, except for the one it is visiting.      *)
Call == [node : TreeNodes, visited : Nat]
Frame(p, full) ==
  LET n == calls[p].node  v == calls[p].visited
  IN  /\ n \in Below /\ v <= Len(Visited(n))
      /\ \A k \in 1 .. v :
           \/ Visited(n)[k] \in full
           \/ p < Len(calls) /\ k = v /\ Visited(n)[k] = calls[p + 1].node

(* The nodes that are walked in full: with them their children are, and    *)
(* what they have is found; in the end the root is one of them.            *)
Walked(full) ==
  /\ \A n \in full : Own(n) \subseteq found /\ ToSet(Visited(n)) \subseteq full
  /\ \A p \in 1 .. Len(calls) : Frame(p, full)
  /\ Root \in full \/ (calls # <<>> /\ calls[1].node = Root)

WalkInv ==
  collector = "GetStaticEntities" =>
    /\ TreeOK
    /\ calls \in Seq(Call)
    /\ found \subseteq {entity[n] : n \in Below} \ {0}
    /\ \E full \in SUBSET TreeNodes : Walked(full)
    /\ at = "done" => calls = <<>>
    /\ at = "thrown" => 0 \in Below

(* The root is the node with the smallest number, and there is one.        *)
LEMMA RootIsNode == Root \in TreeNodes
<1> DEFINE R == {ss \in Nat \X Nat : ss[1] < ss[2]}
<1>1. IsWellFoundedOn(R, Nat)
  BY NatLessThanWellFounded, Zenon DEF OpToRel
<1>2. TreeNodes \subseteq Nat /\ TreeNodes # {}
  BY TreeAssumption
<1> HIDE DEF R
<1>3. PICK x \in TreeNodes : \A y \in TreeNodes : ~ (<<y, x>> \in R)
  BY <1>1, <1>2, WFMin
<1>4. \A y \in Nat : y < x => <<y, x>> \in R
  <2> SUFFICES ASSUME NEW y \in Nat, y < x PROVE <<y, x>> \in R
    OBVIOUS
  <2>1. <<y, x>> \in Nat \X Nat /\ <<y, x>>[1] < <<y, x>>[2]
    BY <1>2
  <2> QED
    BY <2>1, Zenon DEF R
<1>5. \A y \in TreeNodes : ~ (y < x)
  BY <1>2, <1>3, <1>4, Zenon
<1>6. \A y \in TreeNodes : x <= y
  BY <1>2, <1>5
<1> QED
  BY <1>6 DEF Root

LEMMA BelowKid ==
  ASSUME TreeOK, NEW n \in Below \ {0}, NEW k \in DOMAIN Visited(n)
  PROVE  Visited(n)[k] \in Below
<1>1. n \in TreeNodes
  BY DEF Below
<1>2. Visited(n)[k] \in TreeNodes \cup {0}
  BY <1>1 DEF Visited, TreeOK
<1>3. ASSUME NEW S \in SUBSET (TreeNodes \cup {0}), Under(S) PROVE Visited(n)[k] \in S
  <2>1. n \in S
    BY <1>3 DEF Below
  <2> QED
    BY <1>3, <2>1 DEF Under, ToSet
<1> QED
  BY <1>2, <1>3 DEF Below

LEMMA BelowRoot == Root \in Below
  BY RootIsNode DEF Below, Under

LEMMA BelowLeast ==
  ASSUME NEW S \in SUBSET (TreeNodes \cup {0}), Under(S)
  PROVE  Below \subseteq S
  BY DEF Below

LEMMA BelowSame ==
  UNCHANGED scene => /\ Below' = Below /\ TreeOK' = TreeOK
                     /\ \A n : Own(n)' = Own(n) /\ Visited(n)' = Visited(n)
<1> SUFFICES ASSUME UNCHANGED scene
             PROVE  /\ Below' = Below /\ TreeOK' = TreeOK
                    /\ \A n : Own(n)' = Own(n) /\ Visited(n)' = Visited(n)
  OBVIOUS
<1>1. kids' = kids /\ branch' = branch /\ entity' = entity
  BY DEF scene
<1>2. \A n : Own(n)' = Own(n) /\ Visited(n)' = Visited(n)
  BY <1>1 DEF Own, Visited
<1>3. \A S : Under(S)' = Under(S)
  BY <1>1 DEF Under, Visited
<1>4. Below' = Below
  BY <1>3 DEF Below
<1> QED
  BY <1>1, <1>2, <1>4 DEF TreeOK

LEMMA WalkInit == SceneInit => WalkInv
<1> SUFFICES ASSUME SceneInit, collector = "GetStaticEntities" PROVE WalkInv
  BY DEF WalkInv
<1>1. /\ kids \in {k \in [TreeNodes -> UNION {Children(n) : n \in TreeNodes}] :
                    \A n \in TreeNodes : k[n] \in Children(n)}
      /\ branch \in [TreeNodes -> BOOLEAN]
      /\ entity \in {e \in [TreeNodes -> TreeNodes \cup {0}] : \A n \in TreeNodes : e[n] \in {0, n}}
      /\ calls = <<[node |-> Root, visited |-> 0]>> /\ found = {} /\ at = "run"
  BY DEF SceneInit
<1>2. \A n \in TreeNodes : Children(n) \subseteq Seq(TreeNodes \cup {0})
  <2> SUFFICES ASSUME NEW n \in TreeNodes, NEW s \in Children(n) PROVE s \in Seq(TreeNodes \cup {0})
    OBVIOUS
  <2>1. PICK k \in 0 .. MaxKids : s \in [1 .. k -> {0} \cup {m \in TreeNodes : m > n}]
    BY DEF Children
  <2>2. k \in Nat /\ s \in [1 .. k -> TreeNodes \cup {0}]
    BY <2>1, TreeAssumption
  <2> QED
    BY <2>2, SeqDef
<1>3. TreeOK
  BY <1>1, <1>2 DEF TreeOK
<1>4. calls \in Seq(Call) /\ Len(calls) = 1 /\ calls[1] = [node |-> Root, visited |-> 0]
  BY <1>1, RootIsNode DEF Call
<1>5. Walked({})
  <2>1. Visited(Root) \in Seq(TreeNodes \cup {0})
    BY <1>3, RootIsNode DEF Visited, TreeOK
  <2>2. Frame(1, {})
    BY <1>4, <2>1, BelowRoot DEF Frame
  <2> QED
    BY <1>4, <2>2 DEF Walked
<1> QED
  BY <1>1, <1>3, <1>4, <1>5 DEF WalkInv

LEMMA Popped ==
  ASSUME NEW T, NEW s \in Seq(T), s # <<>>
  PROVE  /\ Front(s) \in Seq(T) /\ Len(s) \in Nat \ {0} /\ Len(Front(s)) = Len(s) - 1
         /\ \A p \in 1 .. Len(s) - 1 : Front(s)[p] = s[p]
  BY DEF Front

LEMMA Joined ==
  ASSUME NEW T, NEW a \in Seq(T), NEW b \in Seq(T)
  PROVE  /\ a \o b \in Seq(T) /\ Len(a \o b) = Len(a) + Len(b)
         /\ \A p \in 1 .. Len(a) : (a \o b)[p] = a[p]
         /\ \A p \in 1 .. Len(b) : (a \o b)[Len(a) + p] = b[p]
  OBVIOUS

(* What a node has is found below the root.                                *)
LEMMA OwnFound ==
  ASSUME NEW n \in Below, found \subseteq {entity[m] : m \in Below} \ {0}
  PROVE  found \cup Own(n) \subseteq {entity[m] : m \in Below} \ {0}
  BY DEF Own

(* The call on top.                                                        *)
LEMMA Top ==
  ASSUME WalkInv, collector = "GetStaticEntities", calls # <<>>
  PROVE  /\ Len(calls) \in Nat \ {0} /\ Last(calls) = calls[Len(calls)] /\ Last(calls) \in Call
         /\ Last(calls).node \in TreeNodes /\ Last(calls).node # 0 /\ Last(calls).visited \in Nat
         /\ Last(calls).node \in Below
         /\ Visited(Last(calls).node) \in Seq(TreeNodes \cup {0})
         /\ Visited(Last(calls).node) # <<>> => Visited(Last(calls).node) = kids[Last(calls).node]
         /\ \A full : Walked(full) =>
              /\ Last(calls).visited <= Len(Visited(Last(calls).node))
              /\ \A j \in 1 .. Last(calls).visited : Visited(Last(calls).node)[j] \in full
<1>1. TreeOK /\ calls \in Seq(Call) /\ Last(calls) = calls[Len(calls)]
  BY DEF WalkInv, Last
<1>2. Len(calls) \in Nat \ {0}
  BY <1>1
<1>3. Last(calls) \in Call
  BY <1>1, <1>2
<1>4. Last(calls).node \in TreeNodes /\ Last(calls).node # 0 /\ Last(calls).visited \in Nat
  BY <1>3, TreeAssumption DEF Call
<1>5. \A full : Walked(full) => Frame(Len(calls), full)
  BY <1>2 DEF Walked
<1>6. \A full : Walked(full) =>
         /\ Last(calls).node \in Below
         /\ Last(calls).visited <= Len(Visited(Last(calls).node))
         /\ \A j \in 1 .. Last(calls).visited : Visited(Last(calls).node)[j] \in full
  BY <1>1, <1>2, <1>4, <1>5 DEF Frame
<1>7. \E full : Walked(full)
  BY DEF WalkInv
<1>8. /\ Visited(Last(calls).node) \in Seq(TreeNodes \cup {0})
      /\ Visited(Last(calls).node) # <<>> => Visited(Last(calls).node) = kids[Last(calls).node]
  BY <1>1, <1>4 DEF Visited, TreeOK
<1> QED
  BY <1>1, <1>2, <1>3, <1>4, <1>6, <1>7, <1>8

LEMMA VisitKidInv == WalkInv /\ VisitKid => WalkInv'
<1> SUFFICES ASSUME WalkInv, VisitKid PROVE WalkInv'
  OBVIOUS
<1> DEFINE call == Last(calls)
           n == call.node
           k == call.visited + 1
           c == [call EXCEPT !.visited = k]
           d == [node |-> kids[n][k], visited |-> 0]
           L == Len(calls)
<1>1. /\ collector = "GetStaticEntities" /\ UNCHANGED scene /\ UNCHANGED <<collector, entity>>
      /\ calls # <<>> /\ at = "run" /\ at' = "run"
      /\ k <= Len(Visited(n)) /\ kids[n][k] # 0
      /\ found' = found \cup Own(n)
      /\ calls' = Append(Front(calls) \o <<c>>, d)
  BY DEF VisitKid, scene
<1>2. /\ TreeOK /\ calls \in Seq(Call) /\ found \subseteq {entity[m] : m \in Below} \ {0}
      /\ L \in Nat \ {0} /\ call = calls[L]
  BY <1>1, Top DEF WalkInv
<1>3. PICK full \in SUBSET TreeNodes : Walked(full)
  BY <1>1 DEF WalkInv
<1>4. /\ call \in Call /\ n \in TreeNodes /\ k \in Nat \ {0}
      /\ \A j \in 1 .. k - 1 : Visited(n)[j] \in full
  BY <1>1, <1>3, Top
<1>5. n \in Below /\ n # 0
  BY <1>1, Top
<1>6. Visited(n) \in Seq(TreeNodes \cup {0}) /\ Visited(n) = kids[n]
  BY <1>1, <1>4, Top
<1>7. kids[n][k] \in TreeNodes /\ kids[n][k] \in Below
  BY <1>1, <1>2, <1>4, <1>5, <1>6, BelowKid
<1>8. c \in Call /\ d \in Call /\ c.node = n /\ c.visited = k /\ d.node = kids[n][k] /\ d.visited = 0
  BY <1>4, <1>7 DEF Call
<1>9. /\ calls' \in Seq(Call) /\ Len(calls') = L + 1 /\ calls'[L] = c /\ calls'[L + 1] = d
      /\ \A p \in 1 .. L - 1 : calls'[p] = calls[p]
  <2> HIDE DEF c, d, call
  <2>1. calls \in Seq(Call) /\ calls # <<>> /\ c \in Call /\ d \in Call
    BY <1>1, <1>2, <1>8
  <2>2. calls' = Append(Front(calls) \o <<c>>, d)
    BY <1>1
  <2>3. PICK f, q : f = Front(calls) /\ q = f \o <<c>> /\ calls' = Append(q, d)
    BY <2>2
  <2>4. f \in Seq(Call) /\ Len(f) = L - 1 /\ \A p \in 1 .. L - 1 : f[p] = calls[p]
    BY <2>1, <2>3, Popped
  <2>5. <<c>> \in Seq(Call) /\ Len(<<c>>) = 1 /\ <<c>>[1] = c
    BY <2>1
  <2>6. /\ q \in Seq(Call) /\ Len(q) = Len(f) + 1 /\ q[Len(f) + 1] = c
        /\ \A p \in 1 .. Len(f) : q[p] = f[p]
    BY <2>3, <2>4, <2>5, Joined
  <2>7. q \in Seq(Call) /\ Len(q) = L /\ q[L] = c /\ \A p \in 1 .. L - 1 : q[p] = calls[p]
    BY <1>2, <2>4, <2>6
  <2> QED
    BY <1>2, <2>1, <2>3, <2>7
<1>10. Below' = Below /\ TreeOK' /\ \A m : Own(m)' = Own(m) /\ Visited(m)' = Visited(m)
  BY <1>1, <1>2, BelowSame
<1> HIDE DEF c, d, call
<1>11. ASSUME NEW p \in 1 .. L + 1 PROVE Frame(p, full)'
  <2>1. CASE p = L + 1
    <3>1. kids[n][k] \in Below /\ Visited(kids[n][k]) \in Seq(TreeNodes \cup {0})
      BY <1>2, <1>7 DEF Visited, TreeOK
    <3> QED
      BY <1>8, <1>9, <1>10, <2>1, <3>1 DEF Frame
  <2>2. CASE p = L
    <3>2. Visited(n)[k] = calls'[p + 1].node
      BY <1>6, <1>8, <1>9, <2>2
    <3> QED
      BY <1>1, <1>2, <1>4, <1>5, <1>8, <1>9, <1>10, <2>2, <3>2 DEF Frame
  <2>3. CASE p \in 1 .. L - 1
    <3>1. Frame(p, full) /\ calls'[p] = calls[p]
      BY <1>2, <1>3, <1>9, <2>3 DEF Walked
    <3>2. calls'[p + 1].node = calls[p + 1].node
      BY <1>2, <1>8, <1>9, <2>3
    <3> QED
      BY <1>2, <1>9, <1>10, <2>3, <3>1, <3>2 DEF Frame
  <2> QED
    BY <1>2, <2>1, <2>2, <2>3
<1>12. Root \in full \/ (calls' # <<>> /\ calls'[1].node = Root)
  BY <1>2, <1>3, <1>8, <1>9 DEF Walked
<1>13. Walked(full)'
  <2>1. Root' = Root
    BY DEF Root
  <2> QED
    BY <1>1, <1>2, <1>3, <1>9, <1>10, <1>11, <1>12, <2>1 DEF Walked
<1>14. found' \subseteq {entity'[m] : m \in Below'} \ {0}
  BY <1>1, <1>2, <1>5, <1>10, OwnFound
<1> QED
  BY <1>1, <1>3, <1>9, <1>10, <1>13, <1>14 DEF WalkInv

LEMMA NullKidInv == WalkInv /\ NullKid => WalkInv'
<1> SUFFICES ASSUME WalkInv, NullKid PROVE WalkInv'
  OBVIOUS
<1> DEFINE call == Last(calls)
           n == call.node
           k == call.visited + 1
<1>1. /\ collector = "GetStaticEntities" /\ UNCHANGED scene /\ UNCHANGED <<collector, entity>>
      /\ calls # <<>> /\ at' = "thrown" /\ UNCHANGED <<calls, found>>
      /\ k <= Len(Visited(n)) /\ kids[n][k] = 0
  BY DEF NullKid, End, scene
<1>2. TreeOK
  BY <1>1 DEF WalkInv
<1>3. PICK full \in SUBSET TreeNodes : Walked(full)
  BY <1>1 DEF WalkInv
<1>4. n \in TreeNodes /\ k \in Nat \ {0} /\ n \in Below /\ n # 0
  BY <1>1, Top
<1>5. Visited(n) \in Seq(TreeNodes \cup {0}) /\ Visited(n) = kids[n]
  BY <1>1, <1>4, Top
<1>6. 0 \in Below
  BY <1>1, <1>2, <1>4, <1>5, BelowKid
<1>7. Below' = Below /\ TreeOK' /\ \A m : Own(m)' = Own(m) /\ Visited(m)' = Visited(m)
  BY <1>1, <1>2, BelowSame
<1>8. Walked(full)'
  BY <1>1, <1>3, <1>7 DEF Walked, Frame, Root
<1> QED
  BY <1>1, <1>3, <1>6, <1>7, <1>8 DEF WalkInv

(* A call that returns has walked its node in full.                        *)
LEMMA LeaveInv == WalkInv /\ Leave => WalkInv'
<1> SUFFICES ASSUME WalkInv, Leave PROVE WalkInv'
  OBVIOUS
<1> DEFINE call == Last(calls)
           n == call.node
           L == Len(calls)
<1>1. /\ collector = "GetStaticEntities" /\ UNCHANGED scene /\ UNCHANGED <<collector, entity>>
      /\ calls # <<>> /\ at = "run" /\ at' = "run"
      /\ call.visited = Len(Visited(n))
      /\ found' = found \cup Own(n)
      /\ calls' = Front(calls)
  BY DEF Leave, scene
<1>2. /\ TreeOK /\ calls \in Seq(Call) /\ found \subseteq {entity[m] : m \in Below} \ {0}
      /\ call = calls[L]
  BY <1>1, Top DEF WalkInv
<1>3. PICK full \in SUBSET TreeNodes : Walked(full)
  BY <1>1 DEF WalkInv
<1>4. /\ calls' \in Seq(Call) /\ L \in Nat \ {0} /\ Len(calls') = L - 1
      /\ \A p \in 1 .. L - 1 : calls'[p] = calls[p]
  BY <1>1, <1>2, Popped
<1>5. n \in TreeNodes /\ \A j \in 1 .. Len(Visited(n)) : Visited(n)[j] \in full
  BY <1>1, <1>3, Top
<1>6. n \in Below /\ Visited(n) \in Seq(TreeNodes \cup {0})
  BY <1>1, Top
<1>7. ToSet(Visited(n)) \subseteq full
  BY <1>5, <1>6 DEF ToSet
<1>8. Below' = Below /\ TreeOK' /\ \A m : Own(m)' = Own(m) /\ Visited(m)' = Visited(m)
  BY <1>1, <1>2, BelowSame
<1> HIDE DEF call
<1> PICK more \in SUBSET TreeNodes : more = full \cup {n}
  BY <1>5
<1>9. \A m \in more : Own(m)' \subseteq found' /\ ToSet(Visited(m)') \subseteq more
  BY <1>1, <1>3, <1>7, <1>8 DEF Walked
<1>10. ASSUME NEW p \in 1 .. L - 1 PROVE Frame(p, more)'
  <2>1. Frame(p, full) /\ calls'[p] = calls[p] /\ (p + 1 <= L - 1 => calls'[p + 1] = calls[p + 1])
    BY <1>3, <1>4, <1>10 DEF Walked
  <2>2. p + 1 > L - 1 => calls[p + 1].node = n
    BY <1>2, <1>4, <1>10
  <2> QED
    BY <1>4, <1>8, <1>10, <2>1, <2>2 DEF Frame
<1>11. Root \in more \/ (calls' # <<>> /\ calls'[1].node = Root)
  BY <1>2, <1>3, <1>4 DEF Walked
<1>12. Walked(more)'
  <2>1. Root' = Root
    BY DEF Root
  <2> QED
    BY <1>4, <1>8, <1>9, <1>10, <1>11, <2>1 DEF Walked
<1>13. found' \subseteq {entity'[m] : m \in Below'} \ {0}
  BY <1>1, <1>2, <1>6, <1>8, OwnFound
<1> QED
  BY <1>1, <1>4, <1>8, <1>12, <1>13 DEF WalkInv

LEMMA WalkDoneInv == WalkInv /\ WalkDone => WalkInv'
<1> SUFFICES ASSUME WalkInv, WalkDone PROVE WalkInv'
  OBVIOUS
<1>1. /\ UNCHANGED scene /\ UNCHANGED <<collector, entity>> /\ collector = "GetStaticEntities"
      /\ calls = <<>> /\ at' = "done" /\ UNCHANGED <<calls, found>> /\ at = "run"
  BY DEF WalkDone, End, scene
<1>2. Below' = Below /\ TreeOK' = TreeOK /\ \A m : Own(m)' = Own(m) /\ Visited(m)' = Visited(m)
  BY <1>1, BelowSame
<1>3. PICK full \in SUBSET TreeNodes : Walked(full)
  BY <1>1 DEF WalkInv
<1>4. Walked(full)'
  BY <1>1, <1>2, <1>3 DEF Walked, Frame, Root
<1> QED
  BY <1>1, <1>2, <1>3, <1>4 DEF WalkInv

(* All other steps leave the walk alone.                                   *)
LEMMA WalkSame ==
  ASSUME WalkInv, UNCHANGED <<scene, calls, found, at>>
  PROVE  WalkInv'
<1>1. UNCHANGED scene /\ UNCHANGED <<collector, entity, calls, found, at>>
  BY DEF scene
<1>2. Below' = Below /\ TreeOK' = TreeOK /\ \A m : Own(m)' = Own(m) /\ Visited(m)' = Visited(m)
  BY <1>1, BelowSame
<1>3. ASSUME NEW full \in SUBSET TreeNodes, Walked(full) PROVE Walked(full)'
  BY <1>1, <1>2, <1>3 DEF Walked, Frame, Root
<1> QED
  BY <1>1, <1>2, <1>3 DEF WalkInv

LEMMA WalkStep == WalkInv /\ [SceneNext]_<<vars, sceneVars>> => WalkInv'
<1> SUFFICES ASSUME WalkInv, [SceneNext]_<<vars, sceneVars>> PROVE WalkInv'
  OBVIOUS
<1>1. CASE VisitKid \/ NullKid \/ Leave \/ WalkDone
  BY <1>1, VisitKidInv, NullKidInv, LeaveInv, WalkDoneInv
<1>2. CASE \/ TestObject \/ TestNPC \/ NoneMatches \/ NoLists \/ NoPlayer \/ AddEntity \/ NoMovement
           \/ AddItem \/ NoItemDef \/ LoopDone
  <2>1. collector # "GetStaticEntities" /\ collector' = collector
    BY <1>2 DEF TestObject, TestNPC, NoneMatches, NoLists, NoPlayer, AddEntity, NoMovement, AddItem, NoItemDef, LoopDone,
       Here, Pass, Add, Answer, End, scene
  <2> QED
    BY <2>1 DEF WalkInv
<1>3. CASE UNCHANGED sceneVars
  BY <1>3, WalkSame DEF sceneVars, scene
<1> QED
  BY <1>1, <1>2, <1>3 DEF SceneNext
-----------------------------------------------------------------------------
(* The loops: what is behind place has been dealt with.                    *)

DefinitionInv ==
  collector \in {"GetObjectDef", "GetNPCDef"} =>
    /\ list \in Seq(Entities) /\ place \in Nat \ {0}
    /\ at \in {"run", "failed", "done"}
    /\ at = "run" => \A n \in 1 .. place - 1 :
                       /\ collector = "GetObjectDef" => ~ ObjectMatches(list[n])
                       /\ collector = "GetNPCDef" => ~ NPCMatches(list[n])
    /\ DefinitionRight

LEMMA DefinitionInit == SceneInit => DefinitionInv
<1> SUFFICES ASSUME SceneInit, collector \in {"GetObjectDef", "GetNPCDef"} PROVE DefinitionInv
  BY DEF DefinitionInv
<1>1. list \in Lists /\ place = 1 /\ at = "run"
  BY DEF SceneInit
<1> QED
  BY <1>1, ListsAssumption DEF DefinitionInv, DefinitionRight

LEMMA MatchSame ==
  UNCHANGED scene => \A e : ObjectMatches(e)' = ObjectMatches(e) /\ NPCMatches(e)' = NPCMatches(e)
  BY DEF scene, ObjectMatches, NPCMatches

(* A search that looks at one more entity.                                 *)
LEMMA DefinitionSearched ==
  ASSUME DefinitionInv, collector \in {"GetObjectDef", "GetNPCDef"},
         UNCHANGED scene, NEW match \in BOOLEAN, at = "run", place <= Len(list),
         collector = "GetObjectDef" => match = ObjectMatches(list[place]),
         collector = "GetNPCDef" => match = NPCMatches(list[place]),
         IF match THEN response' = <<place>> /\ at' = "done" /\ UNCHANGED place
                  ELSE place' = place + 1 /\ at' = at
  PROVE  DefinitionInv'
<1>1. UNCHANGED <<collector, list, wanted>>
  BY DEF scene
<1>2. list \in Seq(Entities) /\ place \in Nat \ {0} /\ Len(list) \in Nat
  BY DEF DefinitionInv
<1>3. \A e : ObjectMatches(e)' = ObjectMatches(e) /\ NPCMatches(e)' = NPCMatches(e)
  BY MatchSame
<1>4. CASE match
  <2>1. response'[1] = place
    BY <1>4
  <2> QED
    BY <1>1, <1>2, <1>3, <1>4, <2>1 DEF DefinitionInv, DefinitionRight, ObjectMatches, NPCMatches
<1>5. CASE ~ match
  BY <1>1, <1>2, <1>3, <1>5 DEF DefinitionInv, DefinitionRight, ObjectMatches, NPCMatches
<1> QED
  BY <1>4, <1>5

LEMMA DefinitionStep == DefinitionInv /\ [SceneNext]_<<vars, sceneVars>> => DefinitionInv'
<1> SUFFICES ASSUME DefinitionInv, [SceneNext]_<<vars, sceneVars>> PROVE DefinitionInv'
  OBVIOUS
<1>1. CASE TestObject
  BY <1>1, DefinitionSearched DEF TestObject, Here, Answer, Pass, ObjectMatches
<1>2. CASE TestNPC
  BY <1>2, DefinitionSearched DEF TestNPC, Here, Answer, Pass, NPCMatches
<1>3. CASE NoneMatches
  <2>1. /\ UNCHANGED scene /\ UNCHANGED <<collector, list, place, response>> /\ at = "run" /\ at' = "failed"
        /\ collector \in {"GetObjectDef", "GetNPCDef"} /\ place > Len(list)
    BY <1>3 DEF NoneMatches, End, scene
  <2>2. list \in Seq(Entities) /\ place \in Nat \ {0} /\ Len(list) \in Nat
    BY <2>1 DEF DefinitionInv
  <2>3. DOMAIN list \subseteq 1 .. place - 1
    BY <2>1, <2>2
  <2> QED
    BY <2>1, <2>2, <2>3, MatchSame DEF DefinitionInv, DefinitionRight
<1>4. CASE \/ VisitKid \/ NullKid \/ Leave \/ WalkDone
           \/ NoLists \/ NoPlayer \/ AddEntity \/ NoMovement \/ AddItem \/ NoItemDef \/ LoopDone
  <2>1. collector \notin {"GetObjectDef", "GetNPCDef"} /\ collector' = collector
    BY <1>4 DEF VisitKid, NullKid, Leave, WalkDone, NoLists, NoPlayer, AddEntity, NoMovement, AddItem, NoItemDef, LoopDone,
       Here, Pass, Add, Answer, End, scene
  <2> QED
    BY <2>1 DEF DefinitionInv
<1>5. CASE UNCHANGED sceneVars
  <2>1. UNCHANGED scene /\ UNCHANGED <<collector, list, place, response, at>>
    BY <1>5 DEF sceneVars, scene
  <2> QED
    BY <2>1, MatchSame DEF DefinitionInv, DefinitionRight
<1> QED
  BY <1>1, <1>2, <1>3, <1>4, <1>5 DEF SceneNext
-----------------------------------------------------------------------------
(* HandleGetInventory.                                                     *)

Slots == [id : {Empty} \cup Keys, slot : Nat]
InventoryInv ==
  collector = "HandleGetInventory" =>
    /\ list \in Seq({Empty} \cup Keys) /\ place \in 1 .. Len(list) + 1
    /\ at = "done" => place = Len(list) + 1
    /\ response \in Seq(Slots)
    /\ {<<e.slot, e.id>> : e \in ToSet(response)} = {<<n - 1, list[n]>> : n \in {m \in 1 .. place - 1 : list[m] # Empty}}

LEMMA ToSetMore ==
  ASSUME NEW T, NEW s \in Seq(T), NEW e \in T
  PROVE  s \o <<e>> \in Seq(T) /\ ToSet(s \o <<e>>) = ToSet(s) \cup {e}
<1>1. <<e>> \in Seq(T) /\ Len(<<e>>) = 1 /\ <<e>>[1] = e
  OBVIOUS
<1> DEFINE r == s \o <<e>>
<1>2. /\ r \in Seq(T) /\ Len(r) = Len(s) + 1 /\ r[Len(s) + 1] = e
      /\ \A p \in 1 .. Len(s) : r[p] = s[p]
  BY <1>1, Joined
<1> HIDE DEF r
<1>3. ToSet(r) = ToSet(s) \cup {e}
  <2>1. DOMAIN r = 1 .. Len(s) + 1 /\ DOMAIN s = 1 .. Len(s) /\ Len(s) \in Nat
    BY <1>2
  <2>2. \A p \in DOMAIN r : r[p] \in ToSet(s) \cup {e}
    BY <1>2, <2>1 DEF ToSet
  <2>3. \A p \in DOMAIN s : s[p] \in ToSet(r)
    BY <1>2, <2>1 DEF ToSet
  <2>4. e \in ToSet(r)
    BY <1>2, <2>1 DEF ToSet
  <2> QED
    BY <2>2, <2>3, <2>4 DEF ToSet
<1> QED
  BY <1>2, <1>3 DEF r

LEMMA InventoryInit == SceneInit => InventoryInv
<1> SUFFICES ASSUME SceneInit, collector = "HandleGetInventory" PROVE InventoryInv
  BY DEF InventoryInv
<1>1. list \in Bags /\ place = 1 /\ at = "run" /\ response = <<>>
  BY DEF SceneInit
<1> QED
  BY <1>1, ListsAssumption DEF InventoryInv, ToSet

LEMMA OneMore ==
  ASSUME NEW T, NEW s \in Seq(T), NEW e \in T
  PROVE  /\ DOMAIN (s \o <<e>>) = 1 .. Len(s) + 1 /\ DOMAIN s = 1 .. Len(s) /\ Len(s) \in Nat
         /\ (s \o <<e>>)[Len(s) + 1] = e /\ \A p \in DOMAIN s : (s \o <<e>>)[p] = s[p]
<1>1. <<e>> \in Seq(T) /\ Len(<<e>>) = 1 /\ <<e>>[1] = e
  OBVIOUS
<1> DEFINE r == s \o <<e>>
<1>2. /\ r \in Seq(T) /\ Len(r) = Len(s) + 1 /\ r[Len(s) + 1] = e
      /\ \A p \in 1 .. Len(s) : r[p] = s[p]
  BY <1>1, Joined
<1> HIDE DEF r
<1>3. DOMAIN r = 1 .. Len(s) + 1 /\ DOMAIN s = 1 .. Len(s) /\ Len(s) \in Nat
  BY <1>2
<1> QED
  BY <1>2, <1>3 DEF r

LEMMA AddItemInv == InventoryInv /\ AddItem => InventoryInv'
<1> SUFFICES ASSUME InventoryInv, AddItem PROVE InventoryInv'
  OBVIOUS
<1>1. /\ collector = "HandleGetInventory" /\ UNCHANGED <<collector, list>> /\ at = "run" /\ at' = "run"
      /\ place <= Len(list) /\ place' = place + 1
  BY DEF AddItem, Here, Pass, Add, scene
<1>2. /\ list \in Seq({Empty} \cup Keys) /\ place \in Nat \ {0} /\ place' \in 1 .. Len(list) + 1
      /\ response \in Seq(Slots) /\ place' - 1 = place
      /\ {<<e.slot, e.id>> : e \in ToSet(response)} =
           {<<n - 1, list[n]>> : n \in {m \in 1 .. place - 1 : list[m] # Empty}}
  <2>1. list \in Seq({Empty} \cup Keys) /\ place \in 1 .. Len(list) + 1 /\ response \in Seq(Slots)
    BY <1>1 DEF InventoryInv
  <2>2. {<<e.slot, e.id>> : e \in ToSet(response)} =
          {<<n - 1, list[n]>> : n \in {m \in 1 .. place - 1 : list[m] # Empty}}
    BY <1>1, Zenon DEF InventoryInv
  <2> QED
    BY <1>1, <2>1, <2>2
<1>3. CASE list[place] = Empty
  <2>1. response' = response
    BY <1>3 DEF AddItem, Pass
  <2>2. {m \in 1 .. place : list[m] # Empty} = {m \in 1 .. place - 1 : list[m] # Empty}
    BY <1>2, <1>3
  <2> QED
    BY <1>1, <1>2, <2>1, <2>2 DEF InventoryInv
<1>4. CASE list[place] # Empty
  <2> DEFINE e == [id |-> list[place], slot |-> place - 1]
  <2>1. response' = response \o <<e>>
    BY <1>4 DEF AddItem, Add
  <2>2. e \in Slots /\ e.slot = place - 1 /\ e.id = list[place]
    BY <1>1, <1>2 DEF Slots
  <2> HIDE DEF e
  <2>3. response' \in Seq(Slots) /\ ToSet(response') = ToSet(response) \cup {e}
    BY <1>2, <2>1, <2>2, ToSetMore
  <2>4. {m \in 1 .. place : list[m] # Empty} = {m \in 1 .. place - 1 : list[m] # Empty} \cup {place}
    BY <1>2, <1>4
  <2>5. {<<x.slot, x.id>> : x \in ToSet(response')} =
          {<<n - 1, list[n]>> : n \in {m \in 1 .. place : list[m] # Empty}}
    BY <1>2, <2>2, <2>3, <2>4
  <2> QED
    BY <1>1, <1>2, <2>3, <2>5 DEF InventoryInv
<1> QED
  BY <1>3, <1>4

LEMMA InventoryStep == InventoryInv /\ [SceneNext]_<<vars, sceneVars>> => InventoryInv'
<1> SUFFICES ASSUME InventoryInv, [SceneNext]_<<vars, sceneVars>> PROVE InventoryInv'
  OBVIOUS
<1>1. CASE AddItem
  BY <1>1, AddItemInv
<1>2. CASE NoItemDef \/ LoopDone \/ UNCHANGED sceneVars
  <2>1. /\ UNCHANGED <<collector, list, place, response>>
        /\ at' = "done" /\ collector = "HandleGetInventory" => at = "done" \/ place > Len(list)
    BY <1>2 DEF NoItemDef, LoopDone, Here, End, sceneVars, scene
  <2> QED
    BY <2>1 DEF InventoryInv
<1>3. CASE \/ VisitKid \/ NullKid \/ Leave \/ WalkDone
           \/ TestObject \/ TestNPC \/ NoneMatches \/ NoLists \/ NoPlayer \/ AddEntity \/ NoMovement
  <2>1. collector # "HandleGetInventory" /\ collector' = collector
    BY <1>3 DEF VisitKid, NullKid, Leave, WalkDone, TestObject, TestNPC, NoneMatches, NoLists, NoPlayer, AddEntity, NoMovement,
       Here, Pass, Add, Answer, End, scene
  <2> QED
    BY <2>1 DEF InventoryInv
<1> QED
  BY <1>1, <1>2, <1>3 DEF SceneNext

(* The slots answered so far ascend, and lie before place.                 *)
AscendingInv ==
  collector = "HandleGetInventory" =>
    /\ \A k \in DOMAIN response : response[k].slot < place - 1
    /\ \A k, l \in DOMAIN response : k < l => response[k].slot < response[l].slot

LEMMA AscendingStep == InventoryInv /\ AscendingInv /\ [SceneNext]_<<vars, sceneVars>> => AscendingInv'
<1> SUFFICES ASSUME InventoryInv, AscendingInv, [SceneNext]_<<vars, sceneVars>>, collector' = "HandleGetInventory"
             PROVE  AscendingInv'
  BY DEF AscendingInv
<1>1. collector = "HandleGetInventory"
  BY DEF SceneNext, VisitKid, NullKid, Leave, WalkDone, TestObject, TestNPC, NoneMatches, NoLists, NoPlayer, AddEntity, NoMovement,
     AddItem, NoItemDef, LoopDone, Here, Pass, Add, Answer, End, scene, sceneVars
<1>2. /\ place \in Nat /\ response \in Seq(Slots)
      /\ \A k \in DOMAIN response : response[k].slot < place - 1
      /\ \A k, l \in DOMAIN response : k < l => response[k].slot < response[l].slot
  BY <1>1 DEF InventoryInv, AscendingInv
<1>3. \A k \in DOMAIN response : response[k].slot \in Nat
  <2>1. \A k \in DOMAIN response : response[k] \in Slots
    BY <1>2
  <2>2. \A e \in Slots : e.slot \in Nat
    BY DEF Slots
  <2> QED
    BY <2>1, <2>2
<1>4. CASE AddItem /\ list[place] # Empty
  <2>1. PICK e : e = [id |-> list[place], slot |-> place - 1]
    OBVIOUS
  <2>2. response' = response \o <<e>> /\ place' = place + 1 /\ e.slot = place - 1
    BY <1>4, <2>1 DEF AddItem, Add
  <2>3. e \in Slots
    <3>1. list[place] \in {Empty} \cup Keys /\ place - 1 \in Nat
      BY <1>1, <1>4 DEF InventoryInv, AddItem, Here
    <3> QED
      BY <2>1, <3>1 DEF Slots
  <2>4. PICK m \in Nat :
          /\ DOMAIN response' = 1 .. m + 1 /\ DOMAIN response = 1 .. m /\ response'[m + 1] = e
          /\ \A k \in DOMAIN response : response'[k] = response[k]
    <3>1. /\ DOMAIN response' = 1 .. Len(response) + 1 /\ DOMAIN response = 1 .. Len(response)
          /\ Len(response) \in Nat /\ response'[Len(response) + 1] = e
          /\ \A k \in DOMAIN response : response'[k] = response[k]
      BY <1>2, <2>2, <2>3, OneMore
    <3> QED
      BY <3>1
  <2>5. \A k \in 1 .. m + 1 : k \in 1 .. m \/ k = m + 1
    BY <2>4
  <2>6. \A k \in DOMAIN response' : response'[k].slot < place' - 1
    BY <1>2, <1>3, <2>2, <2>4, <2>5
  <2>7. ASSUME NEW k \in DOMAIN response', NEW l \in DOMAIN response', k < l
        PROVE  response'[k].slot < response'[l].slot
    <3>1. k \in 1 .. m
      BY <2>4, <2>7
    <3>2. CASE l \in 1 .. m
      BY <1>2, <2>4, <2>7, <3>1, <3>2
    <3>3. CASE l = m + 1
      BY <1>2, <2>2, <2>4, <3>1, <3>3
    <3> QED
      BY <2>4, <2>5, <3>2, <3>3
  <2> QED
    BY <2>6, <2>7 DEF AscendingInv
<1>5. CASE UNCHANGED response /\ place' \in {place, place + 1}
  BY <1>2, <1>3, <1>5 DEF AscendingInv
<1>6. \/ AddItem /\ list[place] # Empty
      \/ UNCHANGED response /\ place' \in {place, place + 1}
  BY <1>1 DEF SceneNext, VisitKid, NullKid, Leave, WalkDone, TestObject, TestNPC, NoneMatches, NoLists, NoPlayer, AddEntity, NoMovement,
     AddItem, NoItemDef, LoopDone, Here, Pass, End, sceneVars
<1> QED
  BY <1>4, <1>5, <1>6
-----------------------------------------------------------------------------
(* HandleFindEntities: as many entries of each kind as are due for the     *)
(* entities behind place.                                                  *)

Answers == [type : Types, id : {0} \cup Keys, controlled : BOOLEAN]
Listed(type, x) == {k \in DOMAIN response : response[k].type = type /\ response[k].id = x}
Marked == {k \in DOMAIN response : response[k].controlled}
DueUpTo(m, type, x) == UNION {{n} \X Due(list[n], type, x) : n \in 1 .. m}

EntriesInv ==
  collector = "HandleFindEntities" =>
    /\ list \in Seq(Entities) /\ place \in 1 .. Len(list) + 1
    /\ ControlledPlayer \in 0 .. Len(list)
    /\ at = "done" => place = Len(list) + 1
    /\ response \in Seq(Answers)
    /\ \A type \in Types, x \in Keys :
         /\ IsFiniteSet(DueUpTo(place - 1, type, x))
         /\ Cardinality(Listed(type, x)) = Cardinality(DueUpTo(place - 1, type, x))
    /\ Cardinality(Marked) =
         IF ControlledPlayer \in 1 .. place - 1 /\ list[ControlledPlayer].type = "Player" THEN 1 ELSE 0

(* Numbers of a sequence that is appended to another move up.              *)
LEMMA Counted ==
  ASSUME NEW m \in Nat, NEW q \in Nat, NEW w, w = m + q,
         NEW A \in SUBSET (1 .. m), NEW J \in SUBSET (1 .. q), NEW C \in SUBSET (1 .. w),
         \A k \in 1 .. m : k \in C <=> k \in A,
         \A k \in 1 .. q : m + k \in C <=> k \in J
  PROVE  Cardinality(C) = Cardinality(A) + Cardinality(J)
<1>1. IsFiniteSet(A) /\ IsFiniteSet(J)
  <2>1. IsFiniteSet(1 .. m) /\ IsFiniteSet(1 .. q)
    BY FS_Interval
  <2> QED
    BY <2>1, FS_Subset
<1> DEFINE f == [j \in J |-> m + j]
           S == {m + j : j \in J}
<1>2. f \in Bijection(J, S)
  BY DEF Bijection, Injection, Surjection, IsInjective
<1>3. IsFiniteSet(S) /\ Cardinality(S) = Cardinality(J)
  <2>1. ExistsBijection(J, S)
    BY <1>2 DEF ExistsBijection
  <2> QED
    BY <1>1, <2>1, FS_Bijection
<1>4. C = A \cup S /\ A \cap S = {}
  <2>1. \A k \in C : k \in A \cup S
    <3> SUFFICES ASSUME NEW k \in C, ~ k \in 1 .. m PROVE k \in S
      OBVIOUS
    <3>1. k - m \in 1 .. q /\ m + (k - m) = k
      OBVIOUS
    <3>2. k - m \in J
      BY <3>1
    <3> QED
      BY <3>1, <3>2
  <2>2. A \subseteq C
    OBVIOUS
  <2>3. \A j \in J : m + j \in C /\ ~ m + j \in A
    OBVIOUS
  <2>4. S \subseteq C /\ A \cap S = {}
    BY <2>3
  <2> HIDE DEF S
  <2> QED
    BY <2>1, <2>2, <2>4
<1> HIDE DEF S
<1>5. Cardinality({}) = 0
  BY FS_EmptySet
<1>6. Cardinality(A) \in Nat /\ Cardinality(J) \in Nat
  BY <1>1, FS_CardinalityType
<1> QED
  BY <1>1, <1>3, <1>4, <1>5, <1>6, FS_Union

LEMMA Paired ==
  ASSUME NEW n, NEW J, IsFiniteSet(J)
  PROVE  IsFiniteSet({n} \X J) /\ Cardinality({n} \X J) = Cardinality(J)
<1> DEFINE f == [j \in J |-> <<n, j>>]
<1>1. f \in Bijection(J, {n} \X J)
  BY DEF Bijection, Injection, Surjection, IsInjective
<1> QED
  BY <1>1, FS_Bijection DEF ExistsBijection

LEMMA DueMore ==
  ASSUME NEW m \in Nat, NEW type, NEW x, IsFiniteSet(DueUpTo(m, type, x)),
         IsFiniteSet(Due(list[m + 1], type, x))
  PROVE  /\ IsFiniteSet(DueUpTo(m + 1, type, x))
         /\ Cardinality(DueUpTo(m + 1, type, x)) =
              Cardinality(DueUpTo(m, type, x)) + Cardinality(Due(list[m + 1], type, x))
<1> DEFINE A == DueUpTo(m, type, x)
           B == {m + 1} \X Due(list[m + 1], type, x)
<1>1. DueUpTo(m + 1, type, x) = A \cup B
  <2>1. 1 .. m + 1 = 1 .. m \cup {m + 1}
    OBVIOUS
  <2> QED
    BY <2>1 DEF DueUpTo
<1>2. A \cap B = {}
  <2>1. \A p \in A : p[1] \in 1 .. m
    BY DEF DueUpTo
  <2>2. \A p \in B : p[1] = m + 1
    OBVIOUS
  <2> HIDE DEF A, B
  <2>3. ~ m + 1 \in 1 .. m
    OBVIOUS
  <2> QED
    BY <2>1, <2>2, <2>3, Zenon
<1>3. IsFiniteSet(B) /\ Cardinality(B) = Cardinality(Due(list[m + 1], type, x))
  BY Paired
<1>4. Cardinality({}) = 0 /\ Cardinality(A) \in Nat /\ Cardinality(B) \in Nat
  BY <1>3, FS_EmptySet, FS_CardinalityType
<1> HIDE DEF A, B
<1>5. IsFiniteSet(A \cup B) /\ Cardinality(A \cup B) = Cardinality(A) + Cardinality(B)
  BY <1>2, <1>3, <1>4, FS_Union DEF A
<1> QED
  BY <1>1, <1>3, <1>5 DEF A

LEMMA DueFinite ==
  ASSUME NEW e \in Entities, NEW type, NEW x
  PROVE  IsFiniteSet(Due(e, type, x))
<1>1. IsFiniteSet({}) /\ IsFiniteSet(DOMAIN e.items) /\ IsFiniteSet({1})
  <2>1. DOMAIN e.items = 1 .. Len(e.items) /\ Len(e.items) \in Nat
    BY DEF Entities
  <2>2. IsFiniteSet(1 .. Len(e.items))
    BY <2>1, FS_Interval
  <2> QED
    BY <2>1, <2>2, FS_EmptySet, FS_Singleton
<1>2. Due(e, type, x) \in (SUBSET (DOMAIN e.items)) \cup (SUBSET {1})
  BY DEF Due
<1> QED
  BY <1>1, <1>2, FS_Subset

(* A response that grows by what one more entity gives.                    *)
LEMMA EntriesGrow ==
  ASSUME NEW s
  PROVE  /\ EntriesInv /\ collector = "HandleFindEntities" /\ UNCHANGED scene
         /\ place <= Len(list) /\ place' = place + 1 /\ at = "run" /\ at' = "run"
         /\ s \in Seq(Answers) /\ response' = response \o s
         /\ \A type \in Types, x \in Keys :
              {j \in 1 .. Len(s) : s[j].type = type /\ s[j].id = x} = Due(list[place], type, x)
         /\ {j \in 1 .. Len(s) : s[j].controlled} =
              IF list[place].type = "Player" /\ place = ControlledPlayer THEN {1} ELSE {}
         => EntriesInv'
<1>0. SUFFICES
        ASSUME EntriesInv, collector = "HandleFindEntities", UNCHANGED scene,
               place <= Len(list), place' = place + 1, at = "run", at' = "run",
               s \in Seq(Answers), response' = response \o s,
               \A type \in Types, x \in Keys :
                 {j \in 1 .. Len(s) : s[j].type = type /\ s[j].id = x} = Due(list[place], type, x),
               {j \in 1 .. Len(s) : s[j].controlled} =
                 IF list[place].type = "Player" /\ place = ControlledPlayer THEN {1} ELSE {}
        PROVE  EntriesInv'
  OBVIOUS
<1>1. UNCHANGED <<collector, list, control>>
  BY <1>0 DEF scene
<1>2. /\ list \in Seq(Entities) /\ place \in Nat \ {0} /\ place' \in 1 .. Len(list) + 1
      /\ ControlledPlayer \in 0 .. Len(list) /\ response \in Seq(Answers)
      /\ Len(response) \in Nat /\ Len(s) \in Nat /\ place - 1 \in Nat /\ (place - 1) + 1 = place
  BY <1>0 DEF EntriesInv
<1>3. ControlledPlayer' = ControlledPlayer
  BY <1>1 DEF ControlledPlayer
<1>4. /\ response' \in Seq(Answers) /\ Len(response') = Len(response) + Len(s)
      /\ \A p \in 1 .. Len(response) : response'[p] = response[p]
      /\ \A p \in 1 .. Len(s) : response'[Len(response) + p] = s[p]
  BY <1>0, <1>2, Joined
<1>5. ASSUME NEW type \in Types, NEW x \in Keys
      PROVE  /\ IsFiniteSet(DueUpTo(place - 1, type, x))'
             /\ Cardinality(Listed(type, x))' = Cardinality(DueUpTo(place - 1, type, x))'
  <2>1. /\ IsFiniteSet(DueUpTo(place - 1, type, x))
        /\ Cardinality(Listed(type, x)) = Cardinality(DueUpTo(place - 1, type, x))
    BY <1>0 DEF EntriesInv
  <2>2. PICK A, J, C, m, q, w :
          /\ A = Listed(type, x) /\ J = Due(list[place], type, x) /\ C = Listed(type, x)'
          /\ m = Len(response) /\ q = Len(s) /\ w = Len(response')
    OBVIOUS
  <2>3. /\ m \in Nat /\ q \in Nat /\ w = m + q
        /\ A \in SUBSET (1 .. m) /\ J \in SUBSET (1 .. q) /\ C \in SUBSET (1 .. w)
    BY <1>0, <1>2, <1>4, <2>2 DEF Listed
  <2>4. /\ \A k \in 1 .. m : k \in C <=> k \in A
        /\ \A k \in 1 .. q : m + k \in C <=> k \in J
    BY <1>0, <1>2, <1>4, <2>2 DEF Listed
  <2>5. Cardinality(C) = Cardinality(A) + Cardinality(J)
    BY <2>3, <2>4, Counted
  <2>6. IsFiniteSet(J)
    BY <1>0, <1>2, <2>2, DueFinite
  <2>7. PICK n \in Nat : n = place - 1 /\ n + 1 = place
    BY <1>2
  <2>8. /\ IsFiniteSet(DueUpTo(n + 1, type, x))
        /\ Cardinality(DueUpTo(n + 1, type, x)) = Cardinality(DueUpTo(n, type, x)) + Cardinality(J)
    BY <2>1, <2>2, <2>6, <2>7, DueMore
  <2>9. DueUpTo(place - 1, type, x)' = DueUpTo(n + 1, type, x)
    BY <1>0, <1>1, <1>2, <2>7 DEF DueUpTo, Due
  <2> QED
    BY <2>1, <2>2, <2>5, <2>7, <2>8, <2>9
<1>6. Cardinality(Marked') =
        IF ControlledPlayer \in 1 .. place /\ list[ControlledPlayer].type = "Player" THEN 1 ELSE 0
  <2>1. PICK A, J, C, m, q, w :
          /\ A = Marked /\ J = {j \in 1 .. Len(s) : s[j].controlled} /\ C = Marked'
          /\ m = Len(response) /\ q = Len(s) /\ w = Len(response')
    OBVIOUS
  <2>2. /\ m \in Nat /\ q \in Nat /\ w = m + q
        /\ A \in SUBSET (1 .. m) /\ J \in SUBSET (1 .. q) /\ C \in SUBSET (1 .. w)
    BY <1>2, <1>4, <2>1 DEF Marked
  <2>3. /\ \A k \in 1 .. m : k \in C <=> k \in A
        /\ \A k \in 1 .. q : m + k \in C <=> k \in J
    BY <1>2, <1>4, <2>1 DEF Marked
  <2>4. Cardinality(C) = Cardinality(A) + Cardinality(J)
    BY <2>2, <2>3, Counted
  <2>5. Cardinality(J) = IF list[place].type = "Player" /\ place = ControlledPlayer THEN 1 ELSE 0
    BY <1>0, <2>1, FS_EmptySet, FS_Singleton
  <2>6. Cardinality(Marked) =
          IF ControlledPlayer \in 1 .. place - 1 /\ list[ControlledPlayer].type = "Player" THEN 1 ELSE 0
    BY <1>0 DEF EntriesInv
  <2> QED
    BY <1>2, <2>1, <2>4, <2>5, <2>6
<1>7. Cardinality(Marked)' =
        IF ControlledPlayer' \in 1 .. place' - 1 /\ list'[ControlledPlayer'].type = "Player" THEN 1 ELSE 0
  BY <1>0, <1>1, <1>2, <1>3, <1>6
<1> QED
  BY <1>0, <1>1, <1>2, <1>3, <1>4, <1>5, <1>7 DEF EntriesInv

LEMMA EntriesInit == SceneInit => EntriesInv
<1> SUFFICES ASSUME SceneInit, collector = "HandleFindEntities" PROVE EntriesInv
  BY DEF EntriesInv
<1>1. list \in Lists /\ place = 1 /\ at = "run" /\ response = <<>>
  BY DEF SceneInit
<1>2. list \in Seq(Entities) /\ Len(list) \in Nat
  BY <1>1, ListsAssumption
<1>3. ControlledPlayer \in 0 .. Len(list)
  <2>1. control \in [pointers : BOOLEAN, direct : BOOLEAN, indexed : BOOLEAN, slot : BOOLEAN,
                      player : 0 .. Len(list)]
    BY DEF SceneInit
  <2>2. control.player \in 0 .. Len(list)
    BY <2>1
  <2> QED
    BY <1>2, <2>2 DEF ControlledPlayer
<1>4. ASSUME NEW type, NEW x PROVE DueUpTo(place - 1, type, x) = {} /\ Listed(type, x) = {} /\ Marked = {}
  BY <1>1 DEF DueUpTo, Listed, Marked
<1>5. IsFiniteSet({}) /\ Cardinality({}) = 0
  BY FS_EmptySet
<1>6. \A type \in Types, x \in Keys :
        /\ IsFiniteSet(DueUpTo(place - 1, type, x))
        /\ Cardinality(Listed(type, x)) = Cardinality(DueUpTo(place - 1, type, x))
  BY <1>4, <1>5, Zenon
<1>7. Cardinality(Marked) = 0
  BY <1>4, <1>5, Zenon
<1>8. response \in Seq(Answers) /\ place \in 1 .. Len(list) + 1 /\ ControlledPlayer \notin 1 .. place - 1
  BY <1>1, <1>2
<1> QED
  BY <1>1, <1>2, <1>3, <1>6, <1>7, <1>8 DEF EntriesInv

(* An entity that gives one entry, and one that gives none.                *)
LEMMA OneEntry ==
  ASSUME NEW a \in Answers
  PROVE  /\ EntriesInv /\ collector = "HandleFindEntities" /\ UNCHANGED scene
         /\ place <= Len(list) /\ place' = place + 1 /\ at = "run" /\ at' = "run"
         /\ response' = response \o <<a>>
         /\ \A type \in Types, x \in Keys : Due(list[place], type, x) = {j \in {1} : a.type = type /\ a.id = x}
         /\ a.controlled = (list[place].type = "Player" /\ place = ControlledPlayer)
         => EntriesInv'
<1>1. PICK s : s = <<a>>
  OBVIOUS
<1>2. s \in Seq(Answers) /\ 1 .. Len(s) = {1} /\ s[1] = a
  BY <1>1
<1>3. SUFFICES
        ASSUME EntriesInv, collector = "HandleFindEntities", UNCHANGED scene,
               place <= Len(list), place' = place + 1, at = "run", at' = "run",
               response' = response \o <<a>>,
               \A type \in Types, x \in Keys :
                 Due(list[place], type, x) = {j \in {1} : a.type = type /\ a.id = x},
               a.controlled = (list[place].type = "Player" /\ place = ControlledPlayer)
        PROVE  EntriesInv'
  OBVIOUS
<1>4. ASSUME NEW type \in Types, NEW x \in Keys
      PROVE  {j \in 1 .. Len(s) : s[j].type = type /\ s[j].id = x} = Due(list[place], type, x)
  <2>1. Due(list[place], type, x) = {j \in {1} : a.type = type /\ a.id = x}
    BY <1>3
  <2>2. {j \in 1 .. Len(s) : s[j].type = type /\ s[j].id = x} = {j \in {1} : a.type = type /\ a.id = x}
    BY <1>2
  <2> QED
    BY <2>1, <2>2
<1>5. {j \in 1 .. Len(s) : s[j].controlled} = IF a.controlled THEN {1} ELSE {}
  BY <1>2
<1>6. {j \in 1 .. Len(s) : s[j].controlled} =
        IF list[place].type = "Player" /\ place = ControlledPlayer THEN {1} ELSE {}
  BY <1>3, <1>5
<1>7. s \in Seq(Answers) /\ response' = response \o s
  BY <1>1, <1>2, <1>3
<1>8. \A type \in Types, x \in Keys :
        {j \in 1 .. Len(s) : s[j].type = type /\ s[j].id = x} = Due(list[place], type, x)
  BY <1>4
<1> QED
  BY <1>3, <1>6, <1>7, <1>8, EntriesGrow, Zenon

LEMMA NoEntry ==
  /\ EntriesInv /\ collector = "HandleFindEntities" /\ UNCHANGED scene
  /\ place <= Len(list) /\ place' = place + 1 /\ at = "run" /\ at' = "run" /\ response' = response
  /\ \A type \in Types, x \in Keys : Due(list[place], type, x) = {}
  /\ list[place].type # "Player"
  => EntriesInv'
<1>1. PICK s : s = <<>>
  OBVIOUS
<1>2. s \in Seq(Answers) /\ 1 .. Len(s) = {}
  BY <1>1
<1>3. SUFFICES
        ASSUME EntriesInv, collector = "HandleFindEntities", UNCHANGED scene,
               place <= Len(list), place' = place + 1, at = "run", at' = "run", response' = response,
               \A type \in Types, x \in Keys : Due(list[place], type, x) = {},
               list[place].type # "Player"
        PROVE  EntriesInv'
  OBVIOUS
<1>4. response' = response \o s
  BY <1>1, <1>3, ConcatEmptySeq DEF EntriesInv
<1>5. ASSUME NEW type \in Types, NEW x \in Keys
      PROVE  {j \in 1 .. Len(s) : s[j].type = type /\ s[j].id = x} = Due(list[place], type, x)
  BY <1>2, <1>3
<1>6. {j \in 1 .. Len(s) : s[j].controlled} =
        IF list[place].type = "Player" /\ place = ControlledPlayer THEN {1} ELSE {}
  BY <1>2, <1>3
<1> QED
  BY <1>2, <1>3, <1>4, <1>5, <1>6, EntriesGrow

LEMMA AddEntityInv == EntriesInv /\ AddEntity => EntriesInv'
<1> SUFFICES ASSUME EntriesInv, AddEntity PROVE EntriesInv'
  OBVIOUS
<1> DEFINE e == list[place]
           Entry(x) == [type |-> e.type, id |-> x, controlled |-> e.type = "Player" /\ place = ControlledPlayer]
<1>1. /\ collector = "HandleFindEntities" /\ UNCHANGED scene /\ at = "run" /\ at' = "run"
      /\ place <= Len(list) /\ place' = place + 1
  BY DEF AddEntity, Here, Add, Pass
<1>2. e \in Entities /\ e.type \in Types /\ e.id \in Keys /\ e.items \in Seq(Keys)
  <2>1. e \in Entities
    BY <1>1 DEF EntriesInv
  <2> QED
    BY <2>1 DEF Entities
<1>3. \A x \in {0} \cup Keys : Entry(x) \in Answers
  BY <1>2 DEF Answers
<1>4. CASE e.type = "NPC"
  <2>1. PICK a \in Answers : a = Entry(e.id)
    BY <1>2, <1>3
  <2>2. a.type = e.type /\ a.id = e.id /\ a.controlled = (e.type = "Player" /\ place = ControlledPlayer)
    BY <2>1
  <2>3. response' = response \o <<a>>
    BY <1>4, <2>1 DEF AddEntity, Add
  <2>4. \A type \in Types, x \in Keys : Due(e, type, x) = {j \in {1} : a.type = type /\ a.id = x}
    BY <1>4, <2>2 DEF Due
  <2> QED
    BY <1>1, <2>2, <2>3, <2>4, OneEntry
<1>5. CASE e.type = "Player"
  <2>1. PICK a \in Answers : a = Entry(0)
    BY <1>2, <1>3
  <2>2. a.type = e.type /\ a.id = 0 /\ a.controlled = (e.type = "Player" /\ place = ControlledPlayer)
    BY <2>1
  <2>3. response' = response \o <<a>>
    BY <1>5, <2>1 DEF AddEntity, Add
  <2>4. \A type \in Types, x \in Keys : Due(e, type, x) = {j \in {1} : a.type = type /\ a.id = x}
    BY <1>5, <2>2 DEF Due
  <2> QED
    BY <1>1, <2>2, <2>3, <2>4, OneEntry
<1>6. CASE e.type \in {"Object", "Object2"} /\ e.def
  <2>1. PICK a \in Answers : a = Entry(e.id)
    BY <1>2, <1>3
  <2>2. a.type = e.type /\ a.id = e.id /\ a.controlled = (e.type = "Player" /\ place = ControlledPlayer)
    BY <2>1
  <2>3. response' = response \o <<a>>
    BY <1>6, <2>1 DEF AddEntity, Add
  <2>4. \A type \in Types, x \in Keys : Due(e, type, x) = {j \in {1} : a.type = type /\ a.id = x}
    BY <1>6, <2>2 DEF Due
  <2> QED
    BY <1>1, <2>2, <2>3, <2>4, OneEntry
<1>7. CASE \/ e.type \in {"Object", "Object2"} /\ ~ e.def
           \/ e.type = "Other"
  <2>1. response' = response
    BY <1>7 DEF AddEntity, Pass
  <2>2. \A type \in Types, x \in Keys : Due(e, type, x) = {}
    BY <1>7 DEF Due
  <2> QED
    BY <1>1, <1>7, <2>1, <2>2, NoEntry
<1>8. CASE e.type = "GroundItem"
  <2>1. PICK s : s = [j \in DOMAIN e.items |-> Entry(e.items[j])]
    OBVIOUS
  <2>2. response' = response \o s
    BY <1>8, <2>1 DEF AddEntity, Add
  <2>3. s \in Seq(Answers) /\ DOMAIN e.items = 1 .. Len(s) /\ \A j \in 1 .. Len(s) : s[j] = Entry(e.items[j])
    <3>1. DOMAIN e.items = 1 .. Len(e.items) /\ Len(e.items) \in Nat /\ \A j \in DOMAIN e.items : e.items[j] \in Keys
      BY <1>2
    <3>2. \A j \in 1 .. Len(e.items) : s[j] = Entry(e.items[j]) /\ s[j] \in Answers
      BY <1>3, <2>1, <3>1
    <3> HIDE DEF Entry
    <3>3. s \in [1 .. Len(e.items) -> Answers]
      BY <2>1, <3>1, <3>2
    <3> QED
      BY <3>1, <3>2, <3>3
  <2>4. \A j \in 1 .. Len(s) : s[j].type = e.type /\ s[j].id = e.items[j] /\ s[j].controlled = FALSE
    <3>1. \A x : Entry(x).type = e.type /\ Entry(x).id = x /\ Entry(x).controlled = FALSE
      BY <1>8
    <3> HIDE DEF Entry
    <3> QED
      BY <2>3, <3>1
  <2>5. ASSUME NEW type \in Types, NEW x \in Keys
        PROVE  {j \in 1 .. Len(s) : s[j].type = type /\ s[j].id = x} = Due(e, type, x)
    <3>1. CASE e.type = type
      <4>1. Due(e, type, x) = {j \in DOMAIN e.items : e.items[j] = x}
        BY <1>8, <3>1 DEF Due
      <4> QED
        BY <2>3, <2>4, <3>1, <4>1
    <3>2. CASE e.type # type
      <4>1. Due(e, type, x) = {}
        BY <3>2 DEF Due
      <4> QED
        BY <2>4, <3>2, <4>1
    <3> QED
      BY <3>1, <3>2
  <2>6. {j \in 1 .. Len(s) : s[j].controlled} =
          IF list[place].type = "Player" /\ place = ControlledPlayer THEN {1} ELSE {}
    BY <1>8, <2>4
  <2> QED
    BY <1>1, <2>2, <2>3, <2>5, <2>6, EntriesGrow
<1> QED
  BY <1>2, <1>4, <1>5, <1>6, <1>7, <1>8 DEF Types

LEMMA EntriesStep == EntriesInv /\ [SceneNext]_<<vars, sceneVars>> => EntriesInv'
<1> SUFFICES ASSUME EntriesInv, [SceneNext]_<<vars, sceneVars>> PROVE EntriesInv'
  OBVIOUS
<1>1. CASE AddEntity
  BY <1>1, AddEntityInv
<1>2. CASE NoLists \/ NoPlayer \/ NoMovement \/ NoItemDef \/ LoopDone \/ UNCHANGED sceneVars
  <2>1. /\ UNCHANGED scene /\ UNCHANGED <<collector, list, control, place, response>>
        /\ at' = "done" /\ collector = "HandleFindEntities" => at = "done" \/ place > Len(list)
    BY <1>2 DEF NoLists, NoPlayer, NoMovement, NoItemDef, LoopDone, Here, End, sceneVars, scene
  <2>2. /\ ControlledPlayer' = ControlledPlayer /\ Marked' = Marked
        /\ \A type, x : Listed(type, x)' = Listed(type, x)
        /\ \A type, x : DueUpTo(place - 1, type, x)' = DueUpTo(place - 1, type, x)
    BY <2>1 DEF ControlledPlayer, Marked, Listed, DueUpTo, Due
  <2> QED
    BY <2>1, <2>2 DEF EntriesInv
<1>3. CASE \/ VisitKid \/ NullKid \/ Leave \/ WalkDone
           \/ TestObject \/ TestNPC \/ NoneMatches \/ AddItem
  <2>1. collector # "HandleFindEntities" /\ collector' = collector
    BY <1>3 DEF VisitKid, NullKid, Leave, WalkDone, TestObject, TestNPC, NoneMatches, AddItem,
       Here, Pass, Add, Answer, End, scene
  <2> QED
    BY <2>1 DEF EntriesInv
<1> QED
  BY <1>1, <1>2, <1>3 DEF SceneNext
-----------------------------------------------------------------------------
(* Theorems.                                                               *)

SceneInv == SearchInv /\ WalkInv /\ DefinitionInv /\ InventoryInv /\ AscendingInv /\ EntriesInv

LEMMA SceneInvariant == SceneSpec => []SceneInv
<1>1. SceneInit => SceneInv
  <2>1. SceneInit => AscendingInv
    BY DEF SceneInit, AscendingInv
  <2> QED
    BY <2>1, SearchInit, WalkInit, DefinitionInit, InventoryInit, EntriesInit DEF SceneInv
<1>2. SceneInv /\ [SceneNext]_<<vars, sceneVars>> => SceneInv'
  BY SearchStep, WalkStep, DefinitionStep, InventoryStep, AscendingStep, EntriesStep DEF SceneInv
<1> QED
  BY <1>1, <1>2, PTL DEF SceneSpec

(* The searches of GameTables are right in this specification as well,     *)
(* whose other steps leave their variables alone.                          *)
THEOREM SearchesCorrect == SceneSpec => [](LookupRight /\ EntitiesRight)
<1>1. SearchInv => LookupRight /\ EntitiesRight
  <2>1. pc = "none" /\ function = "none" => LookupRight /\ EntitiesRight
    BY DEF LookupRight, EntitiesRight
  <2>2. TableInv => LookupRight
    BY DEF TableInv
  <2> QED
    BY <2>1, <2>2, TableInvEntities DEF SearchInv
<1>2. SceneInv => LookupRight /\ EntitiesRight
  BY <1>1 DEF SceneInv
<1> QED
  BY <1>2, SceneInvariant, PTL

(* Whatever tree the scene is, however deep, GetStaticEntities collects    *)
(* the entities of all nodes below the root and of no others, and throws   *)
(* only if a pointer on the way is null.                                   *)
THEOREM StaticRightCorrect == SceneSpec => []StaticRight
<1>1. ASSUME WalkInv PROVE StaticRight
  <2> SUFFICES ASSUME collector = "GetStaticEntities", at = "done"
               PROVE  0 \notin Below /\ found = {entity[n] : n \in Below} \ {0}
    BY <1>1 DEF StaticRight, WalkInv
  <2>1. PICK full \in SUBSET TreeNodes : Walked(full)
    BY <1>1 DEF WalkInv
  <2>2. calls = <<>> /\ found \subseteq {entity[n] : n \in Below} \ {0}
    BY <1>1 DEF WalkInv
  <2>3. Under(full)
    BY <2>1, <2>2 DEF Walked, Under
  <2>4. Below \subseteq full
    BY <2>3, BelowLeast
  <2>5. 0 \notin Below
    BY <2>4, TreeAssumption
  <2>6. {entity[n] : n \in Below} \ {0} \subseteq found
    BY <2>1, <2>4 DEF Walked, Own
  <2> QED
    BY <2>2, <2>5, <2>6
<1>2. SceneInv => StaticRight
  BY <1>1 DEF SceneInv
<1> QED
  BY <1>2, SceneInvariant, PTL

(* Whatever the lists hold and however long they are: HandleGetInventory   *)
(* answers with the non-empty slots in order and under their numbers,      *)
(* HandleFindEntities with the entries that are due and the controlled     *)
(* player's mark, and the searches for definitions miss none.              *)
THEOREM ResponseRightCorrect == SceneSpec => []ResponseRight
<1>1. ASSUME InventoryInv, AscendingInv PROVE InventoryRight
  <2> SUFFICES ASSUME collector = "HandleGetInventory", at = "done" PROVE InventoryRight
    BY DEF InventoryRight
  <2>1. DOMAIN list = 1 .. place - 1
    BY <1>1 DEF InventoryInv
  <2>2. {<<e.slot, e.id>> : e \in ToSet(response)} =
          {<<n - 1, list[n]>> : n \in {m \in 1 .. place - 1 : list[m] # Empty}}
    BY <1>1, Zenon DEF InventoryInv
  <2>3. \A k, l \in DOMAIN response : k < l => response[k].slot < response[l].slot
    BY <1>1 DEF AscendingInv
  <2> QED
    BY <2>1, <2>2, <2>3 DEF InventoryRight
<1>2. ASSUME EntriesInv PROVE EntriesRight
  <2> SUFFICES ASSUME collector = "HandleFindEntities", at = "done" PROVE EntriesRight
    BY DEF EntriesRight
  <2>1. DOMAIN list = 1 .. place - 1 /\ ControlledPlayer \in 0 .. place - 1
    BY <1>2 DEF EntriesInv
  <2>2. \A type \in Types, x \in Keys :
          Cardinality(Listed(type, x)) = Cardinality(DueUpTo(place - 1, type, x))
    BY <1>2 DEF EntriesInv
  <2>3. Cardinality(Marked) =
          IF ControlledPlayer \in 1 .. place - 1 /\ list[ControlledPlayer].type = "Player" THEN 1 ELSE 0
    BY <1>2 DEF EntriesInv
  <2>4. ControlledPlayer \in 1 .. place - 1 <=> ControlledPlayer # 0
    BY <1>2, <2>1 DEF EntriesInv
  <2> QED
    BY <2>1, <2>2, <2>3, <2>4 DEF EntriesRight, Listed, DueUpTo, Marked
<1>3. DefinitionInv => DefinitionRight
  BY DEF DefinitionInv, DefinitionRight
<1>4. SceneInv => ResponseRight
  BY <1>1, <1>2, <1>3 DEF SceneInv, ResponseRight
<1> QED
  BY <1>4, SceneInvariant, PTL
=============================================================================
