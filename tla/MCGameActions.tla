--------------------------- MODULE MCGameActions ---------------------------
(* GameActions for TLC.                                                    *)
EXTENDS GameActions

MCThreads == {"render", "other"}

MCRequests ==
  {[method |-> "Interact", type |-> t, option |-> "Take"] : t \in {"Object", "GroundItem", "NPC"}}
  \cup {[method |-> "DoUIAction", by |-> b, option |-> "Take"] : b \in {"OptionId", "OptionText", "None"}}
  \cup {[method |-> "BackpackItemAction", slot |-> 27, option |-> o] : o \in {"Take", "Use", "Examine"}}
  \cup {[method |-> "BackpackItemAction", slot |-> 28, option |-> "Use"]}
  \cup {[method |-> m] : m \in {"DoItemInterfaceAction", "MoveTo", "GetProperty", "GetWidget", "GetControlledPlayer"}}

(* "Take" in the first slot, in the fifth, the last, in two, in none; with   *)
(* "Use" for an item's own option.                                         *)
At(slots, text) == [i \in 0 .. 5 |-> IF i \in slots THEN text ELSE IF i = 3 THEN "" ELSE "Drop"]
MCOptionTexts == {At({0}, "Take"), At({4}, "Take"), At({5}, "Take"), At({2, 5}, "Take"), At({2}, "Use")}
=============================================================================
