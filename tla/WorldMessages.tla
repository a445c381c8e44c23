---------------------------- MODULE WorldMessages ----------------------------
(***************************************************************************)
(* The eighteen message classes of the RPC interface, as the generated     *)
(* code in world.pb.h and world.pb.cc defines them.  For each class:       *)
(*                                                                         *)
(*   Fields  the accessors: the type of every field, whether it holds one  *)
(*           value, many, or is a case of a oneof                          *)
(*   Layout  the order of the members, for the classes that clear a range  *)
(*           of them with one memset (ZR_)                                 *)
(*   Clear   the members Clear() resets                                    *)
(*   Reads   the tags MergePartialFromCodedStream knows, and what it reads *)
(*           behind each                                                   *)
(*   Writes  the fields both serializers write, in order, each with its    *)
(*           number and the test that guards it                            *)
(*   Size    the fields ByteSize() counts, each with the size of its tag   *)
(*   Merge   the fields MergeFrom copies: those other than 0, those that   *)
(*           are present, those that are appended                          *)
(*                                                                         *)
(* Each table is taken from its own function, so that nothing but the      *)
(* generated code makes them agree.                                        *)
(***************************************************************************)
EXTENDS Naturals, Sequences, TLC

\* The kinds of field: accessors of one value, of a list, of a oneof's case.
One(kind) == [label |-> "one", kind |-> kind, group |-> ""]
Many(kind) == [label |-> "many", kind |-> kind, group |-> ""]
Case(group, kind) == [label |-> "case", kind |-> kind, group |-> group]
NoFields == [f \in {} |-> One("")]

\* What one call of WireFormatLite reads, writes or measures.
Item(field, kind) == [field |-> field, kind |-> kind]
UInt32(field) == Item(field, "uint32")
Int32(field) == Item(field, "int32")
Enum(field) == Item(field, "enum")
Bool(field) == Item(field, "bool")
String(field) == Item(field, "string")
Message(field, class) == Item(field, class)

\* The tests that guard a field: a value other than the default, a case or a
\* sub-message that is present, a loop over a list.
Guarded(n, when, item) == [n |-> n, when |-> when, field |-> item.field, kind |-> item.kind]
NonZero(n, item) == Guarded(n, "nonzero", item)
Has(n, item) == Guarded(n, "has", item)
Each(n, item) == Guarded(n, "each", item)
Merges(nonzero, has, each) == [nonzero |-> nonzero, has |-> has, each |-> each]

\* ZR_(first, last): one memset over the members from first to last.
Zeroed(layout, first, last) ==
  LET at(f) == CHOOSE i \in DOMAIN layout : layout[i] = f
  IN {layout[i] : i \in at(first)..at(last)}

\* IdRequest
IdRequestFields == [id |-> One("uint32")]
IdRequestClear == {"id"}
IdRequestReads == 8 :> UInt32("id")
IdRequestWrites == <<NonZero(1, UInt32("id"))>>
IdRequestSize == {NonZero(1, UInt32("id"))}
IdRequestMerge == Merges({"id"}, {}, {})

\* CursorActionMessage
CursorActionMessageFields ==
  [param1 |-> One("int32"), param2 |-> One("int32"), param3 |-> One("int32")]
CursorActionMessageLayout == <<"param1", "param2", "param3">>
CursorActionMessageClear == Zeroed(CursorActionMessageLayout, "param1", "param3")
CursorActionMessageReads == 8 :> Int32("param1") @@ 16 :> Int32("param2") @@ 24 :> Int32("param3")
CursorActionMessageWrites ==
  <<NonZero(1, Int32("param1")), NonZero(2, Int32("param2")), NonZero(3, Int32("param3"))>>
CursorActionMessageSize ==
  {NonZero(1, Int32("param1")), NonZero(1, Int32("param2")), NonZero(1, Int32("param3"))}
CursorActionMessageMerge == Merges({"param1", "param2", "param3"}, {}, {})

\* ChatMessage
ChatMessageFields == [type |-> One("uint32"), content |-> One("string")]
ChatMessageClear == {"type", "content"}
ChatMessageReads == 8 :> UInt32("type") @@ 18 :> String("content")
ChatMessageWrites == <<NonZero(1, UInt32("type")), NonZero(2, String("content"))>>
ChatMessageSize == {NonZero(1, UInt32("type")), NonZero(1, String("content"))}
ChatMessageMerge == Merges({"type", "content"}, {}, {})

\* InterfaceOpenMessage
InterfaceOpenMessageFields == [interfaceid |-> One("uint32")]
InterfaceOpenMessageClear == {"interfaceid"}
InterfaceOpenMessageReads == 8 :> UInt32("interfaceid")
InterfaceOpenMessageWrites == <<NonZero(1, UInt32("interfaceid"))>>
InterfaceOpenMessageSize == {NonZero(1, UInt32("interfaceid"))}
InterfaceOpenMessageMerge == Merges({"interfaceid"}, {}, {})

\* BoolResponse
BoolResponseFields == [value |-> One("bool")]
BoolResponseClear == {"value"}
BoolResponseReads == 8 :> Bool("value")
BoolResponseWrites == <<NonZero(1, Bool("value"))>>
BoolResponseSize == {NonZero(1, Bool("value"))}
BoolResponseMerge == Merges({"value"}, {}, {})

\* InventoryTypeRequest
InventoryTypeRequestFields == [type |-> One("uint32")]
InventoryTypeRequestClear == {"type"}
InventoryTypeRequestReads == 8 :> UInt32("type")
InventoryTypeRequestWrites == <<NonZero(1, UInt32("type"))>>
InventoryTypeRequestSize == {NonZero(1, UInt32("type"))}
InventoryTypeRequestMerge == Merges({"type"}, {}, {})

\* Widget
WidgetFields ==
  [widgetid |-> One("uint32"), name |-> One("string"), hovertext |-> One("string"),
   options |-> Many("string")]
WidgetClear == {"widgetid", "name", "hovertext", "options"}
WidgetReads ==
  8 :> UInt32("widgetid") @@ 18 :> String("name") @@ 26 :> String("hovertext")
  @@ 34 :> String("options")
WidgetWrites ==
  <<NonZero(1, UInt32("widgetid")), NonZero(2, String("name")), NonZero(3, String("hovertext")),
    Each(4, String("options"))>>
WidgetSize ==
  {NonZero(1, UInt32("widgetid")), NonZero(1, String("name")), NonZero(1, String("hovertext")),
   Each(1, String("options"))}
WidgetMerge == Merges({"widgetid", "name", "hovertext"}, {}, {"options"})

\* PropertyValue
PropertyValueFields == [value |-> One("uint32")]
PropertyValueClear == {"value"}
PropertyValueReads == 8 :> UInt32("value")
PropertyValueWrites == <<NonZero(1, UInt32("value"))>>
PropertyValueSize == {NonZero(1, UInt32("value"))}
PropertyValueMerge == Merges({"value"}, {}, {})

\* EntityRequest
EntityRequestFields == [id |-> Case("identifier", "uint32"), name |-> Case("identifier", "string")]
EntityRequestClear == {"identifier"}
EntityRequestReads == 8 :> UInt32("id") @@ 18 :> String("name")
EntityRequestWrites == <<Has(1, UInt32("id")), Has(2, String("name"))>>
EntityRequestSize == {Has(1, UInt32("id")), Has(1, String("name"))}
EntityRequestMerge == Merges({}, {"id", "name"}, {})

\* UIAction
UIActionFields ==
  [optionid |-> Case("option", "uint32"), optiontext |-> Case("option", "string"),
   param2 |-> One("int32"), id |-> One("enum")]
UIActionLayout == <<"param2", "id", "option">>
UIActionClear == Zeroed(UIActionLayout, "param2", "id") \cup {"option"}
UIActionReads ==
  8 :> UInt32("optionid") @@ 18 :> String("optiontext") @@ 24 :> Int32("param2")
  @@ 32 :> Enum("id")
UIActionWrites ==
  <<Has(1, UInt32("optionid")), Has(2, String("optiontext")), NonZero(3, Int32("param2")),
    NonZero(4, Enum("id"))>>
UIActionSize ==
  {NonZero(1, Int32("param2")), NonZero(1, Enum("id")), Has(1, UInt32("optionid")),
   Has(1, String("optiontext"))}
UIActionMerge == Merges({"param2", "id"}, {"optionid", "optiontext"}, {})

\* ItemAction
ItemActionFields == [slot |-> One("uint32"), option |-> One("string")]
ItemActionClear == {"slot", "option"}
ItemActionReads == 8 :> UInt32("slot") @@ 18 :> String("option")
ItemActionWrites == <<NonZero(1, UInt32("slot")), NonZero(2, String("option"))>>
ItemActionSize == {NonZero(1, UInt32("slot")), NonZero(1, String("option"))}
ItemActionMerge == Merges({"slot", "option"}, {}, {})

\* Empty
EmptyFields == NoFields
EmptyClear == {}
EmptyReads == NoFields
EmptyWrites == <<>>
EmptySize == {}
EmptyMerge == Merges({}, {}, {})

\* Entity
EntityFields ==
  [id |-> One("uint32"), type |-> One("enum"), name |-> One("string"),
   location |-> One("Location"), health |-> One("int32"), max_health |-> One("int32"),
   level |-> One("int32"), is_interacting |-> One("bool"), mov_type |-> One("enum"),
   action_id |-> One("uint32"), options |-> Many("string"), is_controlled |-> One("bool")]
EntityLayout ==
  <<"id", "type", "name", "location", "health", "max_health", "level", "mov_type", "action_id",
    "is_interacting", "is_controlled", "options">>
EntityClear ==
  Zeroed(EntityLayout, "id", "type") \cup Zeroed(EntityLayout, "health", "level")
  \cup Zeroed(EntityLayout, "mov_type", "action_id")
  \cup {"name", "location", "is_interacting", "is_controlled", "options"}
EntityReads ==
  8 :> UInt32("id") @@ 16 :> Enum("type") @@ 26 :> String("name")
  @@ 34 :> Message("location", "Location") @@ 40 :> Int32("health") @@ 48 :> Int32("max_health")
  @@ 56 :> Int32("level") @@ 64 :> Bool("is_interacting") @@ 72 :> Enum("mov_type")
  @@ 80 :> UInt32("action_id") @@ 90 :> String("options") @@ 96 :> Bool("is_controlled")
EntityWrites ==
  <<NonZero(1, UInt32("id")), NonZero(2, Enum("type")), NonZero(3, String("name")),
    Has(4, Message("location", "Location")), NonZero(5, Int32("health")),
    NonZero(6, Int32("max_health")), NonZero(7, Int32("level")),
    NonZero(8, Bool("is_interacting")), NonZero(9, Enum("mov_type")),
    NonZero(10, UInt32("action_id")), Each(11, String("options")),
    NonZero(12, Bool("is_controlled"))>>
EntitySize ==
  {NonZero(1, UInt32("id")), NonZero(1, Enum("type")), NonZero(1, String("name")),
   Has(1, Message("location", "Location")), NonZero(1, Int32("health")),
   NonZero(1, Int32("max_health")), NonZero(1, Int32("level")),
   NonZero(1, Bool("is_interacting")), NonZero(1, Enum("mov_type")),
   NonZero(1, UInt32("action_id")), NonZero(1, Bool("is_controlled")),
   Each(1, String("options"))}
EntityMerge ==
  Merges({"id", "type", "name", "health", "max_health", "level", "is_interacting", "mov_type", "action_id", "is_controlled"},
         {"location"}, {"options"})

\* InteractRequest
InteractRequestFields == [entity |-> One("Entity"), option |-> One("string")]
InteractRequestClear == {"entity", "option"}
InteractRequestReads == 10 :> Message("entity", "Entity") @@ 18 :> String("option")
InteractRequestWrites == <<Has(1, Message("entity", "Entity")), NonZero(2, String("option"))>>
InteractRequestSize == {Has(1, Message("entity", "Entity")), NonZero(1, String("option"))}
InteractRequestMerge == Merges({"option"}, {"entity"}, {})

\* EntitiesResponse
EntitiesResponseFields == [entities |-> Many("Entity")]
EntitiesResponseClear == {"entities"}
EntitiesResponseReads == 10 :> Message("entities", "Entity")
EntitiesResponseWrites == <<Each(1, Message("entities", "Entity"))>>
EntitiesResponseSize == {Each(1, Message("entities", "Entity"))}
EntitiesResponseMerge == Merges({}, {}, {"entities"})

\* Location
LocationFields == [tile_x |-> One("int32"), tile_y |-> One("int32")]
LocationLayout == <<"tile_x", "tile_y">>
\* Mutant: the memset ends a member early.
LocationClearEarly == Zeroed(LocationLayout, "tile_x", "tile_x")

LocationClear == Zeroed(LocationLayout, "tile_x", "tile_y")
LocationReads == 8 :> Int32("tile_x") @@ 16 :> Int32("tile_y")
LocationWrites == <<NonZero(1, Int32("tile_x")), NonZero(2, Int32("tile_y"))>>
LocationSize == {NonZero(1, Int32("tile_x")), NonZero(1, Int32("tile_y"))}
LocationMerge == Merges({"tile_x", "tile_y"}, {}, {})

\* Inventory_InventoryItem
Inventory_InventoryItemFields ==
  [id |-> One("int32"), quantity |-> One("int32"), name |-> One("string"), slot |-> One("int32")]
Inventory_InventoryItemLayout == <<"id", "quantity", "name", "slot">>
Inventory_InventoryItemClear ==
  Zeroed(Inventory_InventoryItemLayout, "id", "quantity") \cup {"name", "slot"}
Inventory_InventoryItemReads ==
  8 :> Int32("id") @@ 16 :> Int32("quantity") @@ 26 :> String("name") @@ 32 :> Int32("slot")
Inventory_InventoryItemWrites ==
  <<NonZero(1, Int32("id")), NonZero(2, Int32("quantity")), NonZero(3, String("name")),
    NonZero(4, Int32("slot"))>>
Inventory_InventoryItemSize ==
  {NonZero(1, Int32("id")), NonZero(1, Int32("quantity")), NonZero(1, String("name")),
   NonZero(1, Int32("slot"))}
Inventory_InventoryItemMerge == Merges({"id", "quantity", "name", "slot"}, {}, {})

\* Inventory
InventoryFields == [items |-> Many("Inventory_InventoryItem")]
InventoryClear == {"items"}
InventoryReads == 10 :> Message("items", "Inventory_InventoryItem")
InventoryWrites == <<Each(1, Message("items", "Inventory_InventoryItem"))>>
InventorySize == {Each(1, Message("items", "Inventory_InventoryItem"))}
InventoryMerge == Merges({}, {}, {"items"})

\* The class of every message: what its generated functions do with its fields.
Class ==
  [IdRequest |-> [fields |-> IdRequestFields, clear |-> IdRequestClear, reads |-> IdRequestReads,
     writes |-> IdRequestWrites, size |-> IdRequestSize, merge |-> IdRequestMerge],
   CursorActionMessage |-> [fields |-> CursorActionMessageFields, clear |-> CursorActionMessageClear, reads |-> CursorActionMessageReads,
     writes |-> CursorActionMessageWrites, size |-> CursorActionMessageSize, merge |-> CursorActionMessageMerge],
   ChatMessage |-> [fields |-> ChatMessageFields, clear |-> ChatMessageClear, reads |-> ChatMessageReads,
     writes |-> ChatMessageWrites, size |-> ChatMessageSize, merge |-> ChatMessageMerge],
   InterfaceOpenMessage |-> [fields |-> InterfaceOpenMessageFields, clear |-> InterfaceOpenMessageClear, reads |-> InterfaceOpenMessageReads,
     writes |-> InterfaceOpenMessageWrites, size |-> InterfaceOpenMessageSize, merge |-> InterfaceOpenMessageMerge],
   BoolResponse |-> [fields |-> BoolResponseFields, clear |-> BoolResponseClear, reads |-> BoolResponseReads,
     writes |-> BoolResponseWrites, size |-> BoolResponseSize, merge |-> BoolResponseMerge],
   InventoryTypeRequest |-> [fields |-> InventoryTypeRequestFields, clear |-> InventoryTypeRequestClear, reads |-> InventoryTypeRequestReads,
     writes |-> InventoryTypeRequestWrites, size |-> InventoryTypeRequestSize, merge |-> InventoryTypeRequestMerge],
   Widget |-> [fields |-> WidgetFields, clear |-> WidgetClear, reads |-> WidgetReads,
     writes |-> WidgetWrites, size |-> WidgetSize, merge |-> WidgetMerge],
   PropertyValue |-> [fields |-> PropertyValueFields, clear |-> PropertyValueClear, reads |-> PropertyValueReads,
     writes |-> PropertyValueWrites, size |-> PropertyValueSize, merge |-> PropertyValueMerge],
   EntityRequest |-> [fields |-> EntityRequestFields, clear |-> EntityRequestClear, reads |-> EntityRequestReads,
     writes |-> EntityRequestWrites, size |-> EntityRequestSize, merge |-> EntityRequestMerge],
   UIAction |-> [fields |-> UIActionFields, clear |-> UIActionClear, reads |-> UIActionReads,
     writes |-> UIActionWrites, size |-> UIActionSize, merge |-> UIActionMerge],
   ItemAction |-> [fields |-> ItemActionFields, clear |-> ItemActionClear, reads |-> ItemActionReads,
     writes |-> ItemActionWrites, size |-> ItemActionSize, merge |-> ItemActionMerge],
   Empty |-> [fields |-> EmptyFields, clear |-> EmptyClear, reads |-> EmptyReads,
     writes |-> EmptyWrites, size |-> EmptySize, merge |-> EmptyMerge],
   Entity |-> [fields |-> EntityFields, clear |-> EntityClear, reads |-> EntityReads,
     writes |-> EntityWrites, size |-> EntitySize, merge |-> EntityMerge],
   InteractRequest |-> [fields |-> InteractRequestFields, clear |-> InteractRequestClear, reads |-> InteractRequestReads,
     writes |-> InteractRequestWrites, size |-> InteractRequestSize, merge |-> InteractRequestMerge],
   EntitiesResponse |-> [fields |-> EntitiesResponseFields, clear |-> EntitiesResponseClear, reads |-> EntitiesResponseReads,
     writes |-> EntitiesResponseWrites, size |-> EntitiesResponseSize, merge |-> EntitiesResponseMerge],
   Location |-> [fields |-> LocationFields, clear |-> LocationClear, reads |-> LocationReads,
     writes |-> LocationWrites, size |-> LocationSize, merge |-> LocationMerge],
   Inventory_InventoryItem |-> [fields |-> Inventory_InventoryItemFields, clear |-> Inventory_InventoryItemClear, reads |-> Inventory_InventoryItemReads,
     writes |-> Inventory_InventoryItemWrites, size |-> Inventory_InventoryItemSize, merge |-> Inventory_InventoryItemMerge],
   Inventory |-> [fields |-> InventoryFields, clear |-> InventoryClear, reads |-> InventoryReads,
     writes |-> InventoryWrites, size |-> InventorySize, merge |-> InventoryMerge]]
=============================================================================
