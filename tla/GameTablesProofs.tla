-------------------------- MODULE GameTablesProofs --------------------------
(***************************************************************************)
(* The searches of GameTables in any table of any size: see the theorems   *)
(* at the end.  A walk is right because of what is still before it: what   *)
(* it looks for, if it is there at all, is in the rest of the chain, or    *)
(* not among the nodes of the ring that lie behind.                        *)
(***************************************************************************)
EXTENDS GameTables, FiniteSetTheorems, SequenceTheorems, TLAPS

(* What a table is from the start to the end of a search.                  *)
TableOK ==
  /\ function \in Functions
  /\ count \in Nat
  /\ next \in [Nodes -> Nodes \cup {0}]
  /\ key \in [Nodes -> Nat]
  /\ head \in [0 .. count - 1 -> Nodes \cup {0}]
  /\ ids \in Seq(Nat) /\ id \in Nat
  /\ IF function = "GetInventoryByType" THEN RingTable ELSE ChainedTable

(* The id that a walk along a chain looks for.                             *)
Sought == IF function = "GetServerEntities" THEN ids[i] ELSE id

(* The rest of the chain holds every node of that id that there is, and    *)
(* nothing but nodes of its bucket.                                        *)
ChainRest ==
  pc = "walk" /\ function # "GetInventoryByType" =>
    /\ curr \in Nodes \cup {0}
    /\ function = "GetServerEntities" => curr # 0
    /\ From(curr) \subseteq Stored
    /\ \A m \in Stored : key[m] = Sought => m \in From(curr)

(* The nodes that the walk has left behind lead from the first one to curr *)
(* and have other ids.                                                     *)
RingBehind ==
  pc = "walk" /\ function = "GetInventoryByType" =>
    /\ first \in Nodes /\ curr \in Nodes
    /\ \E behind \in SUBSET Nodes :
         /\ first \in behind \cup {curr}
         /\ \A m \in behind : next[m] \in behind \cup {curr} /\ key[m] # id

(* The positions of the list up to the n-th whose ids are in the table,    *)
(* and the place that a position has among them.                           *)
Passed(n) == {m \in 1 .. n : Present(ids[m])}
Rank(n, m) == Cardinality({k \in Passed(n) : k <= m})
Collected(n) ==
  /\ out \in Seq(Nodes)
  /\ Len(out) = Cardinality(Passed(n))
  /\ \A m \in Passed(n) :
       /\ Rank(n, m) \in 1 .. Len(out)
       /\ out[Rank(n, m)] \in Stored /\ key[out[Rank(n, m)]] = ids[m]
EntitiesCollected ==
  function = "GetServerEntities" =>
    /\ i \in 1 .. Len(ids) + 1
    /\ pc \in {"walk", "thrown"} => i <= Len(ids)
    /\ pc = "done" => i = Len(ids) + 1
    /\ Collected(i - 1)
    /\ pc = "thrown" => ~ Present(ids[i])

TableInv ==
  /\ TableOK
  /\ pc \in {"find", "walk", "done", "thrown", "crashed"}
  /\ ChainRest
  /\ RingBehind
  /\ EntitiesCollected
  /\ LookupRight
-----------------------------------------------------------------------------
(* What can be reached.                                                    *)

LEMMA FromClosed ==
  ASSUME TableOK, NEW n \in Nodes \cup {0}
  PROVE  /\ From(n) \subseteq Nodes /\ {n} \ {0} \subseteq From(n)
         /\ Closed(From(n))
         /\ \A S \in SUBSET Nodes : {n} \ {0} \subseteq S /\ Closed(S) => From(n) \subseteq S
<1>1. From(n) \subseteq Nodes
  BY DEF From
<1>2. {n} \ {0} \subseteq From(n)
  BY DEF From
<1>3. \A S \in SUBSET Nodes : {n} \ {0} \subseteq S /\ Closed(S) => From(n) \subseteq S
  BY DEF From
<1>4. Closed(From(n))
  <2> SUFFICES ASSUME NEW m \in From(n), next[m] # 0
               PROVE  next[m] \in From(n)
    BY DEF Closed
  <2>1. m \in Nodes /\ next[m] \in Nodes
    BY <1>1 DEF TableOK
  <2>2. ASSUME NEW S \in SUBSET Nodes, {n} \ {0} \subseteq S, Closed(S) PROVE next[m] \in S
    <3>1. m \in S
      BY <2>2, <1>3
    <3> QED
      BY <2>2, <3>1 DEF Closed
  <2> QED
    BY <2>1, <2>2 DEF From
<1> QED
  BY <1>1, <1>2, <1>3, <1>4

LEMMA FromNull == TableOK => From(0) = {}
<1> SUFFICES ASSUME TableOK PROVE From(0) = {}
  OBVIOUS
<1>1. Closed({})
  BY DEF Closed
<1> QED
  BY <1>1, FromClosed

LEMMA FromStep ==
  ASSUME TableOK, NEW n \in Nodes
  PROVE  From(n) = {n} \cup From(next[n])
<1>1. n # 0 /\ next[n] \in Nodes \cup {0}
  BY NodesAssumption DEF TableOK
<1>2. n \in From(n) /\ next[n] \in From(n) \cup {0} /\ Closed(From(n)) /\ From(n) \subseteq Nodes
  BY <1>1, FromClosed DEF Closed
<1>3. From(next[n]) \subseteq From(n)
  BY <1>1, <1>2, FromClosed
<1>4. From(n) \subseteq {n} \cup From(next[n])
  <2> DEFINE S == {n} \cup From(next[n])
  <2>1. S \in SUBSET Nodes
    BY <1>1, FromClosed
  <2>2. next[n] \in From(next[n]) \cup {0} /\ Closed(From(next[n]))
    BY <1>1, FromClosed
  <2>3. Closed(S)
    BY <2>2 DEF Closed
  <2> HIDE DEF S
  <2>4. n \in S
    BY DEF S
  <2>5. From(n) \subseteq S
    BY <2>1, <2>3, <2>4, FromClosed
  <2> QED
    BY <2>5 DEF S
<1> QED
  BY <1>2, <1>3, <1>4

(* The bucket of an id is the only place for it in a chained table.        *)
LEMMA InBucket ==
  ASSUME TableOK, function # "GetInventoryByType", count > 0, NEW x \in Nat
  PROVE  /\ x % count \in 0 .. count - 1
         /\ head[x % count] \in Nodes \cup {0}
         /\ From(head[x % count]) \subseteq Stored
         /\ \A m \in Stored : key[m] = x => m \in From(head[x % count])
<1>1. x % count \in 0 .. count - 1
  BY DEF TableOK
<1>2. head[x % count] \in Nodes \cup {0}
  BY <1>1 DEF TableOK
<1>3. From(head[x % count]) \subseteq Stored
  BY <1>1 DEF Stored
<1>4. ASSUME NEW m \in Stored, key[m] = x PROVE m \in From(head[x % count])
  <2>1. PICK b \in 0 .. count - 1 : m \in From(head[b])
    BY DEF Stored
  <2>2. key[m] % count = b
    BY <2>1 DEF TableOK, ChainedTable
  <2> QED
    BY <1>4, <2>1, <2>2
<1> QED
  BY <1>1, <1>2, <1>3, <1>4

(* In the ring everything is stored.                                       *)
LEMMA RingStored ==
  ASSUME TableOK, function = "GetInventoryByType"
  PROVE  Stored = Nodes /\ \A b \in 0 .. count - 1 : head[b] \in Nodes
<1>1. \A b \in 0 .. count - 1 : head[b] \in Nodes
  BY DEF TableOK, RingTable
<1>2. \A b \in 0 .. count - 1 : From(head[b]) = Nodes
  BY <1>1 DEF TableOK, RingTable
<1>3. 0 \in 0 .. count - 1
  BY DEF TableOK, RingTable
<1> QED
  BY <1>1, <1>2, <1>3 DEF Stored
-----------------------------------------------------------------------------
(* The table stands still, and so does all that is said about it.          *)

LEMMA Fixed ==
  ASSUME TableOK, UNCHANGED <<table, id>>
  PROVE  /\ TableOK' /\ Stored' = Stored
         /\ \A n : From(n)' = From(n)
         /\ \A x : Present(x)' = Present(x)
         /\ \A n : Passed(n)' = Passed(n)
         /\ \A n, m : Rank(n, m)' = Rank(n, m)
<1> USE DEF table
<1>1. \A n : From(n)' = From(n)
  BY DEF From, Closed
<1>2. Stored' = Stored
  BY <1>1 DEF Stored
<1>3. \A x : Present(x)' = Present(x)
  BY <1>2 DEF Present
<1>4. \A n : Passed(n)' = Passed(n)
  BY <1>3 DEF Passed
<1>5. \A n, m : Rank(n, m)' = Rank(n, m)
  BY <1>4 DEF Rank
<1>6. RingTable' = RingTable
  BY <1>1 DEF RingTable
<1>7. ChainedTable' = ChainedTable
  BY <1>1 DEF ChainedTable
<1>8. TableOK'
  BY <1>6, <1>7 DEF TableOK
<1> QED
  BY <1>1, <1>2, <1>3, <1>4, <1>5, <1>8

LEMMA PassedFinite ==
  ASSUME NEW n \in Nat
  PROVE  /\ IsFiniteSet(Passed(n)) /\ Cardinality(Passed(n)) \in Nat
         /\ \A m : Rank(n, m) \in Nat
<1>1. IsFiniteSet(1 .. n)
  BY FS_Interval
<1>2. IsFiniteSet(Passed(n))
  BY <1>1, FS_Subset DEF Passed
<1>3. \A m : IsFiniteSet({k \in Passed(n) : k <= m})
  <2> TAKE m
  <2>1. {k \in Passed(n) : k <= m} \subseteq Passed(n)
    OBVIOUS
  <2> QED
    BY <1>2, <2>1, FS_Subset, Zenon
<1> QED
  BY <1>2, <1>3, FS_CardinalityType DEF Rank

(* One more position, of an id that is in the table, comes last ...        *)
LEMMA PassedMore ==
  ASSUME NEW n \in Nat, Present(ids[n + 1])
  PROVE  /\ Passed(n + 1) = Passed(n) \cup {n + 1}
         /\ Cardinality(Passed(n + 1)) = Cardinality(Passed(n)) + 1
         /\ Rank(n + 1, n + 1) = Cardinality(Passed(n)) + 1
         /\ \A m \in Passed(n) : Rank(n + 1, m) = Rank(n, m)
<1>1. Passed(n + 1) = Passed(n) \cup {n + 1} /\ n + 1 \notin Passed(n)
  BY DEF Passed
<1>2. Cardinality(Passed(n + 1)) = Cardinality(Passed(n)) + 1
  BY <1>1, PassedFinite, FS_AddElement
<1>3. {k \in Passed(n + 1) : k <= n + 1} = Passed(n + 1)
  BY DEF Passed
<1>4. \A m \in Passed(n) : {k \in Passed(n + 1) : k <= m} = {k \in Passed(n) : k <= m}
  BY <1>1 DEF Passed
<1> QED
  BY <1>1, <1>2, <1>3, <1>4 DEF Rank

(* ... and one of an id that is not makes no difference.                   *)
LEMMA PassedSame ==
  ASSUME NEW n \in Nat, ~ Present(ids[n + 1])
  PROVE  Passed(n + 1) = Passed(n) /\ \A m : Rank(n + 1, m) = Rank(n, m)
<1>1. Passed(n + 1) = Passed(n)
  BY DEF Passed
<1> QED
  BY <1>1 DEF Rank

LEMMA TableInit == Init => TableInv
<1> SUFFICES ASSUME Init PROVE TableInv
  OBVIOUS
<1>1. /\ function \in Functions /\ count \in Nat
      /\ next \in [Nodes -> Nodes \cup {0}]
      /\ head \in [0 .. count - 1 -> Nodes \cup {0}]
      /\ IF function = "GetInventoryByType" THEN RingTable ELSE ChainedTable
  BY SizesAssumption DEF Init
<1>2. key \in [Nodes -> Nat]
  BY SizesAssumption DEF Init
<1>3. ids \in Seq(Nat) /\ (function # "GetServerEntities" => ids = <<>>)
  <2>1. CASE function = "GetServerEntities"
    <3>1. PICK n \in 0 .. MaxIds : ids \in [1 .. n -> Keys]
      BY <2>1 DEF Init
    <3>2. n \in Nat
      BY SizesAssumption
    <3>3. ids \in [1 .. n -> Nat]
      BY <3>1, SizesAssumption
    <3>4. [1 .. n -> Nat] \subseteq Seq(Nat)
      BY <3>2, SeqDef
    <3> QED
      BY <2>1, <3>3, <3>4
  <2>2. CASE function # "GetServerEntities"
    BY <2>2 DEF Init
  <2> QED
    BY <2>1, <2>2
<1>4. id \in Nat
  <2>1. \A asked \in Keys : Cut(asked) \in Nat
    BY SizesAssumption DEF Cut
  <2> QED
    BY <2>1 DEF Init
<1>5. TableOK
  BY <1>1, <1>2, <1>3, <1>4 DEF TableOK
<1>6. pc = "find" /\ i = 1 /\ (function = "GetServerEntities" => out = <<>>)
  BY DEF Init
<1>7. EntitiesCollected
  <2>1. Passed(0) = {}
    BY DEF Passed
  <2>2. Cardinality({}) = 0
    BY FS_EmptySet
  <2>3. function = "GetServerEntities" => Collected(0)
    BY <1>6, <2>1, <2>2 DEF Collected
  <2> QED
    BY <1>3, <1>6, <2>3 DEF EntitiesCollected
<1> QED
  BY <1>5, <1>6, <1>7 DEF TableInv, ChainRest, RingBehind, LookupRight
-----------------------------------------------------------------------------
(* The steps.                                                              *)

LEMMA NoTableInv == TableInv /\ (DivideByZero \/ NoArray) => TableInv'
<1> SUFFICES ASSUME TableInv, DivideByZero \/ NoArray PROVE TableInv'
  OBVIOUS
<1> USE DEF TableInv
<1>1. UNCHANGED <<table, id>> /\ UNCHANGED <<first, curr, i, out>> /\ UNCHANGED function
  BY DEF DivideByZero, NoArray, table
<1>2. pc' \in {"thrown", "crashed"} /\ (function = "GetServerEntities" => pc' = "crashed" /\ i <= Len(ids))
  BY DEF DivideByZero, NoArray, Chained
<1>3. TableOK' /\ ids' = ids /\ \A n : (Passed(n)' = Passed(n) /\ \A m : Rank(n, m)' = Rank(n, m))
  BY <1>1, Fixed DEF table
<1>4. key' = key /\ Stored' = Stored
  BY <1>1, Fixed DEF table
<1>5. EntitiesCollected'
  BY <1>1, <1>2, <1>3, <1>4 DEF EntitiesCollected, Collected
<1> QED
  BY <1>2, <1>3, <1>5 DEF ChainRest, RingBehind, LookupRight

(* The start of a walk along a chain: the whole of the id's bucket.        *)
LEMMA ChainStarts ==
  ASSUME TableOK, function # "GetInventoryByType", count > 0, NEW x \in Nat, NEW c, c = head[x % count]
  PROVE  /\ c \in Nodes \cup {0} /\ From(c) \subseteq Stored
         /\ \A m \in Stored : key[m] = x => m \in From(c)
  BY InBucket

LEMMA FindChainInv == TableInv /\ FindChain => TableInv'
<1> SUFFICES ASSUME TableInv, FindChain PROVE TableInv'
  OBVIOUS
<1> USE DEF TableInv
<1>1. /\ UNCHANGED <<table, id>> /\ UNCHANGED <<function, key>>
      /\ pc' = "walk" /\ curr' = head[id % count]
      /\ function \notin {"GetInventoryByType", "GetServerEntities"} /\ count > 0
  BY DEF FindChain, WalkTo, Chained, table
<1>2. TableOK' /\ Stored' = Stored /\ From(curr') = From(curr)'
  <2>1. \A n : From(n)' = From(n)
    BY <1>1, Fixed
  <2> QED
    BY <1>1, <2>1, Fixed DEF From, Closed, table
<1>3. ChainRest'
  <2>1. id \in Nat /\ Sought' = id
    BY <1>1 DEF TableOK, Sought
  <2> QED
    BY <1>1, <1>2, <2>1, ChainStarts DEF ChainRest
<1> QED
  BY <1>1, <1>2, <1>3 DEF RingBehind, EntitiesCollected, LookupRight

(* A step along a chain behind a node of another id.                       *)
LEMMA ChainGoesOn ==
  ASSUME TableInv, pc = "walk", function # "GetInventoryByType", curr # 0, key[curr] # Sought
  PROVE  /\ next[curr] \in Nodes \cup {0} /\ From(next[curr]) \subseteq Stored
         /\ \A m \in Stored : key[m] = Sought => m \in From(next[curr])
<1>1. curr \in Nodes /\ next[curr] \in Nodes \cup {0}
  BY DEF TableInv, ChainRest, TableOK
<1>2. From(curr) = {curr} \cup From(next[curr])
  BY <1>1, FromStep DEF TableInv
<1> QED
  BY <1>1, <1>2 DEF TableInv, ChainRest

LEMMA ChainStepInv == TableInv /\ ChainStep => TableInv'
<1> SUFFICES ASSUME TableInv, ChainStep PROVE TableInv'
  OBVIOUS
<1> USE DEF TableInv
<1>1. /\ UNCHANGED <<table, id>> /\ UNCHANGED <<function, key, next, ids>> /\ pc = "walk"
      /\ function \notin {"GetInventoryByType", "GetServerEntities"} /\ Sought = id
  BY DEF ChainStep, WalkTo, Return, Chained, table, Sought
<1>2. TableOK' /\ Stored' = Stored /\ \A n : From(n)' = From(n)
  BY <1>1, Fixed
<1>3. Present(id)' = Present(id)
  BY <1>1, Fixed
<1>4. RingBehind' /\ EntitiesCollected'
  BY <1>1 DEF RingBehind, EntitiesCollected
<1>5. CASE curr = 0 /\ Return(0)
  <2>1. ~ Present(id)
    BY <1>1, <1>5, FromNull DEF ChainRest, Present
  <2> QED
    BY <1>1, <1>2, <1>3, <1>4, <1>5, <2>1 DEF Return, ChainRest, LookupRight
<1>6. CASE curr # 0 /\ key[curr] = id /\ Return(curr)
  <2>1. curr \in Stored
    BY <1>1, <1>6, FromClosed DEF ChainRest
  <2>2. Present(id)
    BY <1>6, <2>1 DEF Present
  <2> QED
    BY <1>1, <1>2, <1>3, <1>4, <1>6, <2>1, <2>2 DEF Return, ChainRest, LookupRight
<1>7. CASE curr # 0 /\ key[curr] # id /\ WalkTo(next[curr])
  <2>1. curr' = next[curr] /\ pc' = "walk"
    BY <1>7 DEF WalkTo
  <2>2. Sought' = id /\ From(curr)' = From(next[curr])
    BY <1>1, <2>1 DEF Sought, From, Closed
  <2>3. ChainRest'
    BY <1>1, <1>2, <1>7, <2>1, <2>2, ChainGoesOn DEF ChainRest
  <2> QED
    BY <1>1, <1>2, <1>4, <2>1, <2>3 DEF LookupRight
<1> QED
  BY <1>5, <1>6, <1>7 DEF ChainStep

(* The walk around the ring: when it is back where it began, the nodes     *)
(* behind it are closed, and so they are all.                              *)
LEMMA FindRingInv == TableInv /\ FindRing => TableInv'
<1> SUFFICES ASSUME TableInv, FindRing PROVE TableInv'
  OBVIOUS
<1> USE DEF TableInv
<1>1. /\ UNCHANGED <<table, id>> /\ UNCHANGED <<function, key, next>>
      /\ pc' = "walk" /\ function = "GetInventoryByType"
      /\ first' \in Nodes /\ curr' = first'
  BY RingStored DEF FindRing, WalkTo, table
<1>2. TableOK'
  BY <1>1, Fixed
<1>3. RingBehind'
  <2> SUFFICES \E behind \in SUBSET Nodes :
                 /\ first' \in behind \cup {curr'}
                 /\ \A m \in behind : next'[m] \in behind \cup {curr'} /\ key'[m] # id'
    BY <1>1 DEF RingBehind
  <2> WITNESS {} \in SUBSET Nodes
  <2> QED
    BY <1>1
<1> QED
  BY <1>1, <1>2, <1>3 DEF ChainRest, EntitiesCollected, LookupRight

LEMMA RingStepInv == TableInv /\ RingStep => TableInv'
<1> SUFFICES ASSUME TableInv, RingStep PROVE TableInv'
  OBVIOUS
<1> USE DEF TableInv
<1>1. /\ UNCHANGED <<table, id>> /\ UNCHANGED <<function, key, next, id>> /\ pc = "walk"
      /\ function = "GetInventoryByType"
  BY DEF RingStep, WalkTo, Return, table
<1>2. TableOK' /\ Stored' = Stored /\ Present(id)' = Present(id)
  BY <1>1, Fixed
<1>3. PICK behind \in SUBSET Nodes :
        /\ first \in behind \cup {curr}
        /\ \A m \in behind : next[m] \in behind \cup {curr} /\ key[m] # id
  BY <1>1 DEF RingBehind
<1>4. first \in Nodes /\ curr \in Nodes /\ Stored = Nodes
  BY <1>1, RingStored DEF RingBehind
<1>5. next[curr] \in Nodes
  BY <1>1, <1>4 DEF TableOK, RingTable
<1>6. ChainRest' /\ EntitiesCollected'
  BY <1>1 DEF ChainRest, EntitiesCollected
<1>7. CASE key[curr] = id /\ Return(curr)
  BY <1>1, <1>2, <1>4, <1>6, <1>7 DEF Return, RingBehind, LookupRight, Present
<1>8. CASE key[curr] # id /\ next[curr] = first /\ Return(0)
  <2> DEFINE S == behind \cup {curr}
  <2>1. S \in SUBSET Nodes /\ {first} \ {0} \subseteq S /\ Closed(S)
    BY <1>3, <1>4, <1>8 DEF Closed
  <2>2. From(first) \subseteq S /\ From(first) = Nodes
    BY <1>1, <1>4, <2>1, FromClosed DEF TableOK, RingTable
  <2>3. ~ Present(id)
    BY <1>3, <1>4, <1>8, <2>2 DEF Present
  <2> QED
    BY <1>1, <1>2, <1>6, <1>8, <2>3 DEF Return, RingBehind, LookupRight
<1>9. CASE key[curr] # id /\ next[curr] # first /\ WalkTo(next[curr]) /\ UNCHANGED first
  <2>1. curr' = next[curr] /\ pc' = "walk" /\ first' = first
    BY <1>9 DEF WalkTo
  <2>2. RingBehind'
    <3> SUFFICES \E b \in SUBSET Nodes :
                   /\ first' \in b \cup {curr'}
                   /\ \A m \in b : next'[m] \in b \cup {curr'} /\ key'[m] # id'
      BY <1>4, <1>5, <2>1 DEF RingBehind
    <3>1. behind \cup {curr} \in SUBSET Nodes
      BY <1>4
    <3> WITNESS behind \cup {curr} \in SUBSET Nodes
    <3> QED
      BY <1>1, <1>3, <1>9, <2>1
  <2> QED
    BY <1>1, <1>2, <1>6, <2>1, <2>2 DEF LookupRight
<1> QED
  BY <1>7, <1>8, <1>9 DEF RingStep

(* What has been collected stays so, whatever the walk does ...            *)
LEMMA CollectedSame ==
  ASSUME TableInv, UNCHANGED <<table, id>>, out' = out, NEW n, Collected(n)
  PROVE  Collected(n)'
<1>1. /\ key' = key /\ ids' = ids /\ Stored' = Stored
      /\ Passed(n)' = Passed(n) /\ \A m : Rank(n, m)' = Rank(n, m)
  BY Fixed DEF table, TableInv
<1> QED
  BY <1>1 DEF Collected

(* ... and an id that is not in the table adds nothing to it.              *)
LEMMA CollectedSkips ==
  ASSUME NEW n \in Nat, ~ Present(ids[n + 1]), Collected(n)
  PROVE  Collected(n + 1)
<1>1. Passed(n + 1) = Passed(n) /\ \A m : Rank(n + 1, m) = Rank(n, m)
  BY PassedSame
<1> QED
  BY <1>1 DEF Collected

LEMMA NextEntityInv == TableInv /\ NextEntity => TableInv'
<1> SUFFICES ASSUME TableInv, NextEntity PROVE TableInv'
  OBVIOUS
<1> USE DEF TableInv
<1>1. /\ UNCHANGED <<table, id>> /\ UNCHANGED <<function, key, ids>>
      /\ pc = "find" /\ out' = out /\ function = "GetServerEntities"
  BY DEF NextEntity, WalkTo, Return, table
<1>2. TableOK' /\ Stored' = Stored /\ \A n : From(n)' = From(n)
  BY <1>1, Fixed
<1>3. /\ i \in 1 .. Len(ids) + 1 /\ i - 1 \in Nat /\ Len(ids) \in Nat
      /\ Collected(i - 1)
  BY <1>1 DEF EntitiesCollected, TableOK
<1>4. RingBehind' /\ LookupRight'
  BY <1>1 DEF RingBehind, LookupRight
<1>5. CASE i > Len(ids) /\ Return(out)
  <2>1. i' = i /\ i = Len(ids) + 1 /\ pc' = "done"
    BY <1>3, <1>5 DEF Return
  <2>2. Collected(i - 1)'
    BY <1>1, <1>3, <2>1, CollectedSame
  <2> QED
    BY <1>1, <1>2, <1>3, <1>4, <2>1, <2>2 DEF ChainRest, EntitiesCollected
<1>6. CASE i <= Len(ids) /\ head[ids[i] % count] = 0 /\ i' = i + 1 /\ pc' = pc
  <2>1. ids[i] \in Nat /\ (i - 1) + 1 = i /\ i' - 1 = i /\ count > 0
    BY <1>3, <1>6 DEF TableOK, NextEntity
  <2>2. ~ Present(ids[i])
    BY <1>1, <1>6, <2>1, InBucket, FromNull DEF Present
  <2>3. Collected(i)
    BY <1>3, <2>1, <2>2, CollectedSkips
  <2>4. Collected(i - 1)'
    <3>1. ASSUME NEW n, n = i PROVE Collected(n)'
      BY <1>1, <2>3, <3>1, CollectedSame
    <3> QED
      BY <2>1, <3>1
  <2>5. EntitiesCollected'
    BY <1>1, <1>3, <1>6, <2>4 DEF EntitiesCollected
  <2> QED
    BY <1>1, <1>2, <1>4, <1>6, <2>5 DEF ChainRest
<1>7. CASE i <= Len(ids) /\ head[ids[i] % count] # 0 /\ WalkTo(head[ids[i] % count])
  <2>1. ids[i] \in Nat /\ count > 0
    BY <1>3, <1>7 DEF TableOK, NextEntity
  <2>2. curr' = head[ids[i] % count] /\ pc' = "walk" /\ i' = i /\ curr' # 0 /\ Sought' = ids[i]
    BY <1>1, <1>7 DEF WalkTo, Sought
  <2>3. From(curr)' = From(curr')
    BY <1>1 DEF From, Closed, table
  <2>4. ChainRest'
    BY <1>1, <1>2, <2>1, <2>2, <2>3, ChainStarts DEF ChainRest
  <2>5. EntitiesCollected'
    BY <1>1, <1>3, <1>7, <2>2, CollectedSame DEF EntitiesCollected
  <2> QED
    BY <1>2, <1>4, <2>2, <2>4, <2>5
<1> QED
  BY <1>1, <1>5, <1>6, <1>7 DEF NextEntity

(* An entity that is found is the last one of the list so far.             *)
LEMMA CollectedMore ==
  ASSUME NEW n \in Nat, Collected(n), Present(ids[n + 1]),
         NEW e \in Stored \cap Nodes, key[e] = ids[n + 1], out' = Append(out, e),
         UNCHANGED <<table, id>>, TableOK
  PROVE  Collected(n + 1)'
<1>1. /\ key' = key /\ ids' = ids /\ Stored' = Stored
      /\ Passed(n + 1)' = Passed(n + 1) /\ \A m : Rank(n + 1, m)' = Rank(n + 1, m)
  BY Fixed DEF table
<1>2. /\ Passed(n + 1) = Passed(n) \cup {n + 1}
      /\ Cardinality(Passed(n + 1)) = Cardinality(Passed(n)) + 1
      /\ Rank(n + 1, n + 1) = Cardinality(Passed(n)) + 1
      /\ \A m \in Passed(n) : Rank(n + 1, m) = Rank(n, m)
  BY PassedMore
<1>3. /\ out \in Seq(Nodes) /\ Len(out) = Cardinality(Passed(n)) /\ Len(out) \in Nat
  BY DEF Collected
<1>4. /\ out' \in Seq(Nodes) /\ Len(out') = Len(out) + 1 /\ out'[Len(out) + 1] = e
      /\ \A k \in 1 .. Len(out) : out'[k] = out[k]
  BY <1>3
<1>5. ASSUME NEW m \in Passed(n)
      PROVE  /\ Rank(n + 1, m) \in 1 .. Len(out')
             /\ out'[Rank(n + 1, m)] \in Stored /\ key[out'[Rank(n + 1, m)]] = ids[m]
  BY <1>2, <1>3, <1>4 DEF Collected
<1>6. /\ Rank(n + 1, n + 1) \in 1 .. Len(out')
      /\ out'[Rank(n + 1, n + 1)] \in Stored /\ key[out'[Rank(n + 1, n + 1)]] = ids[n + 1]
  BY <1>2, <1>3, <1>4
<1> QED
  BY <1>1, <1>2, <1>3, <1>4, <1>5, <1>6 DEF Collected

LEMMA EntryStepInv == TableInv /\ EntryStep => TableInv'
<1> SUFFICES ASSUME TableInv, EntryStep PROVE TableInv'
  OBVIOUS
<1> USE DEF TableInv
<1>1. /\ UNCHANGED <<table, id>> /\ UNCHANGED <<function, key, ids, next>>
      /\ pc = "walk" /\ function = "GetServerEntities" /\ Sought = ids[i]
  BY DEF EntryStep, WalkTo, Sought, table
<1>2. TableOK' /\ Stored' = Stored /\ \A n : From(n)' = From(n)
  BY <1>1, Fixed
<1>3. /\ i \in 1 .. Len(ids) /\ i - 1 \in Nat /\ (i - 1) + 1 = i
      /\ Len(ids) \in Nat /\ Collected(i - 1)
  BY <1>1 DEF EntitiesCollected, TableOK
<1>4. /\ curr \in Nodes /\ From(curr) \subseteq Stored
      /\ \A m \in Stored : key[m] = ids[i] => m \in From(curr)
  BY <1>1 DEF ChainRest
<1>5. RingBehind' /\ LookupRight'
  BY <1>1 DEF RingBehind, LookupRight
<1>6. curr \in Stored
  BY <1>4, FromStep
<1>7. CASE key[curr] = ids[i] /\ out' = Append(out, curr) /\ i' = i + 1 /\ pc' = "find"
  <2>1. Present(ids[i])
    BY <1>6, <1>7 DEF Present
  <2>2. ASSUME NEW n \in Nat, n = i - 1 PROVE Collected(n + 1)'
    BY <1>1, <1>3, <1>4, <1>6, <1>7, <2>1, <2>2, CollectedMore
  <2>3. Collected(i - 1)'
    <3>1. (i - 1) + 1 = i' - 1
      BY <1>3, <1>7
    <3> QED
      BY <1>3, <2>2, <3>1
  <2>4. EntitiesCollected'
    BY <1>1, <1>3, <1>7, <2>3 DEF EntitiesCollected
  <2> QED
    BY <1>1, <1>2, <1>5, <1>7, <2>4 DEF ChainRest
<1>8. CASE key[curr] # ids[i] /\ next[curr] # 0 /\ WalkTo(next[curr])
  <2>1. curr' = next[curr] /\ pc' = "walk" /\ i' = i /\ out' = out /\ Sought' = ids[i]
    BY <1>1, <1>8 DEF WalkTo, Sought
  <2>2. From(curr)' = From(next[curr])
    BY <1>1, <2>1 DEF From, Closed
  <2>3. curr # 0
    BY <1>4, NodesAssumption
  <2>4. ChainRest'
    BY <1>1, <1>2, <1>8, <2>1, <2>2, <2>3, ChainGoesOn DEF ChainRest
  <2>5. EntitiesCollected'
    BY <1>1, <1>3, <2>1, CollectedSame DEF EntitiesCollected
  <2> QED
    BY <1>2, <1>5, <2>1, <2>4, <2>5
<1>9. CASE key[curr] # ids[i] /\ next[curr] = 0 /\ pc' = "thrown" /\ UNCHANGED <<i, out>>
  <2>1. From(curr) = {curr}
    BY <1>4, <1>9, FromStep, FromNull
  <2>2. ~ Present(ids[i])
    BY <1>4, <1>9, <2>1 DEF Present
  <2>3. Present(ids[i])' = Present(ids[i])
    BY <1>1, <1>2, <1>9 DEF Present
  <2>4. EntitiesCollected'
    BY <1>1, <1>3, <1>9, <2>2, <2>3, CollectedSame DEF EntitiesCollected
  <2> QED
    BY <1>1, <1>2, <1>5, <1>9, <2>4 DEF ChainRest
<1> QED
  BY <1>1, <1>7, <1>8, <1>9 DEF EntryStep

LEMMA TableStep == TableInv /\ [Next]_vars => TableInv'
<1> SUFFICES ASSUME TableInv, UNCHANGED vars PROVE TableInv'
  BY NoTableInv, FindChainInv, ChainStepInv, FindRingInv, RingStepInv, NextEntityInv, EntryStepInv DEF Next
<1>1. /\ UNCHANGED <<table, id>> /\ UNCHANGED <<pc, first, curr, i, out>>
      /\ UNCHANGED <<function, key, ids, next>>
  BY DEF vars, table
<1>2. TableOK' /\ Stored' = Stored /\ (\A n : From(n)' = From(n)) /\ \A x : Present(x)' = Present(x)
  BY <1>1, Fixed DEF TableInv
<1>3. ChainRest' /\ RingBehind'
  BY <1>1, <1>2 DEF TableInv, ChainRest, RingBehind, Sought, From, Closed
<1>4. EntitiesCollected'
  BY <1>1, <1>2, CollectedSame DEF TableInv, EntitiesCollected
<1>5. LookupRight'
  BY <1>1, <1>2 DEF TableInv, LookupRight
<1> QED
  BY <1>1, <1>2, <1>3, <1>4, <1>5 DEF TableInv
-----------------------------------------------------------------------------
(* Theorems.                                                               *)

LEMMA TableInvariant == Spec => []TableInv
  BY TableInit, TableStep, PTL DEF Spec

(* Whatever the table holds, a search returns the node of the id that was  *)
(* asked for, and "not found" only when there is none: GetProperty,        *)
(* GetUIWidget and GetUIWidgetParent, and GetInventoryByType wherever its  *)
(* hash lets the walk around the ring begin.                               *)
THEOREM LookupRightCorrect == Spec => []LookupRight
<1>1. TableInv => LookupRight
  BY DEF TableInv
<1> QED
  BY <1>1, TableInvariant, PTL

LEMMA TableInvEntities == TableInv => EntitiesRight
<1> SUFFICES ASSUME TableInv, function = "GetServerEntities" PROVE EntitiesRight
  BY DEF EntitiesRight
<1> DEFINE n == IF pc = "done" THEN Len(ids) ELSE i - 1
<1>1. n = i - 1
  BY DEF TableInv, EntitiesCollected, TableOK
<1>2. Collected(n) /\ (pc = "thrown" => ~ Present(ids[i]))
  BY <1>1 DEF TableInv, EntitiesCollected
<1> QED
  BY <1>2 DEF EntitiesRight, Collected, Passed, Rank

(* However long the list of ids and whatever is missing from the table,    *)
(* GetServerEntities collects the entities of the ids that are there, in   *)
(* the order of the list, and throws only for one that is not.             *)
THEOREM EntitiesRightCorrect == Spec => []EntitiesRight
  BY TableInvEntities, TableInvariant, PTL
=============================================================================
