----------------------------- MODULE GameTables -----------------------------
(***************************************************************************)
(* How common.h searches the game's tables for a request: properties and   *)
(* widgets in chained hash tables, inventories in the ring of a hash map,  *)
(* and the entities of the server's list of ids.  A request runs on the    *)
(* game's thread, so the tables stand still while it searches.             *)
(*                                                                         *)
(* An address is a number and 0 is the null pointer.  A table is a bucket  *)
(* array head, and nodes with a key and a next pointer.                    *)
(***************************************************************************)
EXTENDS Integers, Sequences, FiniteSets

CONSTANTS
  Nodes,    \* addresses of nodes
  Counts,   \* sizes of the bucket array; 0 for a table that is not set up yet
  Keys,     \* keys of nodes and ids of requests
  IdRange,  \* 2^16: GetProperty takes a uint16_t
  MaxIds    \* length of the server's list of ids; a bound

ASSUME NodesAssumption == Nodes \subseteq Nat \ {0}
ASSUME SizesAssumption ==
  Counts \subseteq Nat /\ Keys \subseteq Nat /\ IdRange \in Nat \ {0} /\ MaxIds \in Nat

Functions == {"GetProperty", "GetUIWidget", "GetUIWidgetParent", "GetInventoryByType",
              "GetServerEntities"}
Chained == {"GetProperty", "GetUIWidget", "GetUIWidgetParent"}

VARIABLES
  array,     \* whether the bucket array is there
  count, head, next, key,  \* the table
  ids,       \* the server's list of entity ids
  function,  \* which function runs
  id,        \* what it looks for
  pc,        \* "find", "walk", "done", "thrown", "crashed"
  first,     \* first_ptr
  curr,      \* curr, curr_ptr, entry_ptr
  i,         \* position in ids
  out        \* what is returned: an address, 0 for "not found", or a list of them

table == <<array, count, head, next, key, ids, function>>
vars == <<table, id, pc, first, curr, i, out>>

(* The nodes that can be reached from n: those that are in every set that  *)
(* has n and the next of each of its nodes.                                *)
Closed(S) == \A m \in S : next[m] \in S \cup {0}
From(n) == {m \in Nodes : \A S \in SUBSET Nodes : {n} \ {0} \subseteq S /\ Closed(S) => m \in S}

(* Chains end, and a node is in the chain of its key's bucket.             *)
ChainedTable ==
  /\ \A n \in Nodes : next[n] = 0 \/ next[n] < n
  /\ \A b \in 0 .. count - 1 : \A n \in From(head[b]) : key[n] % count = b

(* All nodes are in one ring, and every bucket points into it.             *)
RingTable ==
  /\ count > 0
  /\ \A n \in Nodes : next[n] # 0 /\ From(n) = Nodes
  /\ \A b \in 0 .. count - 1 : head[b] # 0
  /\ \A m, n \in Nodes : key[m] = key[n] => m = n

(* What the parameter's type leaves of the request's id.  (The id of a     *)
(* widget's parent is 16 bits wide as well, but so is what it is taken     *)
(* from, the upper half of the widget's id.)                               *)
Cut(x) == IF function = "GetProperty" THEN x % IdRange ELSE x

Init ==
  /\ function \in Functions
  /\ array \in BOOLEAN
  /\ count \in Counts
  /\ next \in [Nodes -> Nodes \cup {0}]
  /\ key \in [Nodes -> Keys]
  /\ head \in [0 .. count - 1 -> Nodes \cup {0}]
  /\ IF function = "GetInventoryByType" THEN RingTable ELSE ChainedTable
  /\ ids \in IF function = "GetServerEntities" THEN UNION {[1 .. n -> Keys] : n \in 0 .. MaxIds}
                                               ELSE {<<>>}
  /\ id \in IF function = "GetServerEntities" THEN {0} ELSE {Cut(asked) : asked \in Keys}
  /\ pc = "find"
  /\ first = 0 /\ curr = 0 /\ i = 1
  /\ out = IF function = "GetServerEntities" THEN <<>> ELSE 0

Return(x) == out' = x /\ pc' = "done" /\ UNCHANGED <<table, id, first, curr, i>>
WalkTo(x) == curr' = x /\ pc' = "walk" /\ UNCHANGED <<table, id, i, out>>

-----------------------------------------------------------------------------
(* Slips; no part of the specification.                                    *)

(* The ring is searched for a null pointer, as the chains are ...          *)
RingStepToNull ==
  /\ pc = "walk" /\ function = "GetInventoryByType"
  /\ \/ key[curr] = id /\ Return(curr)
     \/ key[curr] # id /\ next[curr] = 0 /\ Return(0)
     \/ key[curr] # id /\ next[curr] # 0 /\ WalkTo(next[curr]) /\ UNCHANGED first

(* ... or the end of the ring is noticed one node too early.               *)
RingStepShort ==
  /\ pc = "walk" /\ function = "GetInventoryByType"
  /\ \/ next[curr] = first /\ Return(0)
     \/ next[curr] # first /\ key[curr] = id /\ Return(curr)
     \/ next[curr] # first /\ key[curr] # id /\ WalkTo(next[curr]) /\ UNCHANGED first

(* An empty bucket ends the list of entities.                              *)
NextEntityStops ==
  /\ pc = "find" /\ function = "GetServerEntities" /\ ((array /\ count > 0) \/ i > Len(ids))
  /\ \/ i > Len(ids) /\ Return(out)
     \/ i <= Len(ids) /\ head[ids[i] % count] = 0 /\ Return(out)
     \/ i <= Len(ids) /\ head[ids[i] % count] # 0 /\ WalkTo(head[ids[i] % count]) /\ UNCHANGED first

-----------------------------------------------------------------------------
(* The bucket is id % count, and the remainder by 0 ends the process.  The  *)
(* ring's is a mask; GetServerEntities needs one for an id only.           *)
DivideByZero ==
  /\ pc = "find" /\ count = 0
  /\ function \in Chained \/ (function = "GetServerEntities" /\ i <= Len(ids))
  /\ pc' = "crashed"
  /\ UNCHANGED <<table, id, first, curr, i, out>>

(* Then, without a bucket array, ReadPtrOffset and GetInventoryByType      *)
(* throw; GetServerEntities reads it unchecked.                            *)
NoArray ==
  /\ pc = "find" /\ count > 0 /\ ~ array
  /\ function = "GetServerEntities" => i <= Len(ids)
  /\ pc' = IF function = "GetServerEntities" THEN "crashed" ELSE "thrown"
  /\ UNCHANGED <<table, id, first, curr, i, out>>

(* GetProperty, GetUIWidget, GetUIWidgetParent.                            *)
FindChain ==
  /\ pc = "find" /\ count > 0 /\ array /\ function \in Chained
  /\ WalkTo(head[id % count])
  /\ UNCHANGED first

ChainStep ==
  /\ pc = "walk" /\ function \in Chained
  /\ \/ curr = 0 /\ Return(0)
     \/ curr # 0 /\ key[curr] = id /\ Return(curr)
     \/ curr # 0 /\ key[curr] # id /\ WalkTo(next[curr]) /\ UNCHANGED first

(* GetInventoryByType.  Its hash is not modelled: any bucket may be it.    *)
FindRing ==
  /\ pc = "find" /\ array /\ function = "GetInventoryByType"
  /\ \E b \in 0 .. count - 1 : first' = head[b] /\ WalkTo(head[b])

RingStep ==
  /\ pc = "walk" /\ function = "GetInventoryByType"
  /\ \/ key[curr] = id /\ Return(curr)
     \/ key[curr] # id /\ next[curr] = first /\ Return(0)
     \/ key[curr] # id /\ next[curr] # first /\ WalkTo(next[curr]) /\ UNCHANGED first

(* GetServerEntities: an id whose bucket is empty is passed over ...       *)
NextEntity ==
  /\ pc = "find" /\ function = "GetServerEntities" /\ ((array /\ count > 0) \/ i > Len(ids))
  /\ \/ i > Len(ids) /\ Return(out)
     \/ /\ i <= Len(ids) /\ head[ids[i] % count] = 0
        /\ i' = i + 1
        /\ UNCHANGED <<table, id, pc, first, curr, out>>
     \/ i <= Len(ids) /\ head[ids[i] % count] # 0 /\ WalkTo(head[ids[i] % count]) /\ UNCHANGED first

(* ... and one that is missing from the others of its bucket leads to a    *)
(* null pointer, which throws.                                             *)
EntryStep ==
  /\ pc = "walk" /\ function = "GetServerEntities"
  /\ \/ /\ key[curr] = ids[i]
        /\ out' = Append(out, curr) /\ i' = i + 1 /\ pc' = "find"
        /\ UNCHANGED <<table, id, first, curr>>
     \/ key[curr] # ids[i] /\ next[curr] # 0 /\ WalkTo(next[curr]) /\ UNCHANGED first
     \/ key[curr] # ids[i] /\ next[curr] = 0 /\ pc' = "thrown" /\ UNCHANGED <<table, id, first, curr, i, out>>

Next == DivideByZero \/ NoArray \/ FindChain \/ ChainStep \/ FindRing \/ RingStep \/ NextEntity \/ EntryStep

(* The game's thread runs.                                                 *)
Spec == Init /\ [][Next]_vars /\ WF_vars(Next)
-----------------------------------------------------------------------------
(* Properties.                                                             *)

Stored == UNION {From(head[b]) : b \in 0 .. count - 1}
Present(x) == \E n \in Stored : key[n] = x

(* A search returns the node of the id that was asked for, and "not found" *)
(* only when there is none: in a chain because the id's bucket is the only *)
(* place for it, in the ring wherever the hash lets the walk begin.        *)
LookupRight ==
  pc = "done" /\ function # "GetServerEntities" =>
    IF Present(id) THEN out \in Stored /\ key[out] = id ELSE out = 0

(* GetServerEntities collects the entities of all ids that the table       *)
(* holds, in the list's order: the n-th of these ids is the n-th entity's. *)
(* It throws only for an id that is missing.                               *)
EntitiesRight ==
  LET passed == {n \in 1 .. IF pc = "done" THEN Len(ids) ELSE i - 1 : Present(ids[n])}
      Rank(n) == Cardinality({m \in passed : m <= n})
  IN  function = "GetServerEntities" =>
        /\ pc # "walk" => /\ Len(out) = Cardinality(passed)
                          /\ \A n \in passed : out[Rank(n)] \in Stored /\ key[out[Rank(n)]] = ids[n]
        /\ pc = "thrown" => ~ Present(ids[i])

(* The walks end: chains at the null pointer, the ring where it began.     *)
SearchEnds == pc \in {"find", "walk"} ~> pc \in {"done", "thrown", "crashed"}
=============================================================================
