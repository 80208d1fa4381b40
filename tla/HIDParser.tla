------------------------------- MODULE HIDParser --------------------------------
(***************************************************************************)
(* core/usb/hid-parser/{item,parser,descriptor}.cpp: parsing a HID report  *)
(* descriptor.                                                             *)
(*                                                                         *)
(* A descriptor is a program for a small machine: global items set the     *)
(* state table, which Push and Pop save and restore, local items describe  *)
(* usages for the next main item only, and a main item opens or closes a   *)
(* collection or adds fields to the current report.  ParseReportDescriptor *)
(* feeds it item by item (one action per handler) and then packs what it   *)
(* has collected (Finish).  The stream is any sequence of Items.           *)
(***************************************************************************)
EXTENDS Integers, SequencesExt

CONSTANTS
    Items,           \* the items a stream is made of: a header byte and the data behind it
    MaxCollections,  \* kMaxCollectionCount
    MaxStack,        \* kMaxStateTableEntries
    MaxUsages,       \* kMaxUsagesCount
    MaxFields,       \* kMaxReportFieldsCount
    MaxItems         \* bound: the length of the stream

ASSUME LimitsAssumption ==
    /\ {MaxCollections, MaxStack, MaxUsages, MaxFields} \subseteq Nat \ {0}
    /\ MaxItems \in Nat

ASSUME ItemsAssumption == Items \subseteq [header : 0..255, data : Nat]

VARIABLES
    read,          \* how many items have been read
    result,        \* the ParseResult, or Parsing
    table,         \* table_, the global state
    stack,         \* stack_
    usages,        \* usages_
    usage_range,   \* usage_range_
    coll,          \* coll_; a collection is known by its index, nullptr is 0
    parent_coll,   \* parent_coll_
    report_ids,    \* report_ids_: the identifiers, and in counts ...
    counts,        \* ... their input_count, output_count and feature_count
    fields,        \* fields_
    open,          \* history: the collections that have been opened and not closed
    enclosing,     \* history: the collection each field was declared in
    declared       \* history: the local items since the last main item

globalVars == <<table, stack>>
localVars == <<usages, usage_range, declared>>
collVars == <<coll, parent_coll, open>>
fieldVars == <<counts, fields, enclosing>>
vars == <<read, result, globalVars, localVars, collVars, report_ids, fieldVars>>

Parsing == "parsing"
NodeTypes == {"Input", "Output", "Feature"}
Entries == {"page", "logical_min", "logical_max", "physical_min", "physical_max",
            "unit", "exp", "bit_sz", "report_count", "report_ids_index"}

-------------------------------------------------------------------------------
(* Items: a header byte is tag, type and size.                             *)

LongItem == 254
MainTags == <<"Input", "Output", "Collection", "Feature", "EndCollection">>
GlobalTags == <<"UsagePage", "LogicalMinimum", "LogicalMaximum", "PhysicalMinimum",
                "PhysicalMaximum", "UnitExponent", "Unit", "ReportSize", "ReportId",
                "ReportCount", "Push", "Pop">>
LocalTags == <<"Usage", "UsageMinimum", "UsageMaximum", "DesignatorIndex",
               "DesignatorMinimum", "DesignatorMaximum", "reserved", "StringIndex",
               "StringMinimum", "StringMaximum", "Delimiter">>

Size(i) == IF i.header % 4 = 3 THEN 4 ELSE i.header % 4
Type(i) == <<"main", "global", "local", "reserved">>[((i.header \div 4) % 4) + 1]

Named(tags, n) == IF n \in DOMAIN tags THEN tags[n] ELSE "reserved"
Tag(i) ==
    CASE Type(i) = "main"   -> Named(MainTags, (i.header \div 16) - 7)
      [] Type(i) = "global" -> Named(GlobalTags, (i.header \div 16) + 1)
      [] Type(i) = "local"  -> Named(LocalTags, (i.header \div 16) + 1)
      [] OTHER              -> "reserved"

\* signed_data(): the sign is that of the item's own size.
SignedData(i) ==
    IF Size(i) = 0 THEN 0
    ELSE LET half == 2 ^ (8 * Size(i) - 1)
         IN  IF i.data < half THEN i.data ELSE i.data - 2 * half

\* Mutant of PushBack: no limit.
PushBackAlways(s, x, max) == Append(s, x)

\* A LimitedVector drops what it has no room for.
PushBack(s, x, max) == IF Len(s) < max THEN Append(s, x) ELSE s

-------------------------------------------------------------------------------
(* Reading an item: it is processed, or its result ends the parsing.       *)

Init ==
    /\ read = 0 /\ result = Parsing
    /\ table = [e \in Entries |-> IF e = "report_ids_index" THEN 1 ELSE 0]
    /\ stack = <<>>
    /\ usages = <<>> /\ usage_range = <<0, 0>>
    /\ coll = <<>> /\ parent_coll = 0
    /\ report_ids = <<0>>  \* "no report_id"
    /\ counts = << [t \in NodeTypes |-> 0] >>
    /\ fields = <<>>
    /\ open = <<>> /\ enclosing = <<>> /\ declared = <<>>

Read(i, tag) ==
    /\ result = Parsing
    /\ read < MaxItems
    /\ i.header # LongItem
    /\ Tag(i) = tag
    /\ read' = read + 1

Accept == result' = result

Reject(code) ==
    /\ result' = code
    /\ UNCHANGED <<globalVars, localVars, collVars, report_ids, fieldVars>>

\* ParseReportDescriptor() rejects an item that is long, or cut off by the end of
\* the stream; ProcessItem() what has no handler.
RejectStream ==
    /\ result = Parsing
    /\ read' = read
    /\ \/ \E i \in Items : i.header = LongItem /\ Reject("unsupported")
       \/ Reject("more_needed")

RejectItem(i) ==
    /\ Read(i, Tag(i))
    /\ \/ Tag(i) = "reserved" /\ Type(i) # "reserved" /\ Reject("invalid_tag")
       \/ Type(i) = "reserved" /\ Reject("invalid_item_type")
       \/ /\ \E n \in 4..Len(LocalTags) : Tag(i) = LocalTags[n] /\ Tag(i) # "reserved"
          /\ Reject("unsupported")

-------------------------------------------------------------------------------
(* Global items.                                                           *)

Set(entry, value) ==
    /\ table' = [table EXCEPT ![entry] = value]
    /\ Accept
    /\ UNCHANGED <<stack, localVars, collVars, report_ids, fieldVars>>

\* An entry of limited range.
SetUpTo(limit, code, entry, i) ==
    \/ i.data > limit /\ Reject(code)
    \/ i.data <= limit /\ Set(entry, i.data)

SetUsagePage(i) == Read(i, "UsagePage") /\ SetUpTo(65535, "invalid_range", "page", i)
SetReportSize(i) == Read(i, "ReportSize") /\ SetUpTo(255, "invalid_range", "bit_sz", i)
SetReportCount(i) == Read(i, "ReportCount") /\ SetUpTo(65535, "no_memory", "report_count", i)

\* A maximum is signed if the minimum, as it is now, is negative.
MaximumFor(min, i) == IF table[min] >= 0 THEN i.data ELSE SignedData(i)

SetLogicalMin(i) == Read(i, "LogicalMinimum") /\ Set("logical_min", SignedData(i))
SetLogicalMax(i) ==
    Read(i, "LogicalMaximum") /\ Set("logical_max", MaximumFor("logical_min", i))
SetPhysicalMin(i) == Read(i, "PhysicalMinimum") /\ Set("physical_min", SignedData(i))
SetPhysicalMax(i) ==
    Read(i, "PhysicalMaximum") /\ Set("physical_max", MaximumFor("physical_min", i))

SetUnit(i) == Read(i, "Unit") /\ Set("unit", i.data)
SetUnitExp(i) ==
    /\ Read(i, "UnitExponent")
    /\ LET byte == i.data % 256 IN Set("exp", IF byte > 7 THEN byte - 16 ELSE byte)

\* report_id_has_items()
HasItems(k) == \E t \in NodeTypes : counts[k][t] # 0

\* Looks for the identifier, or allocates it.
UseReportId(id) ==
    \/ \E k \in DOMAIN report_ids :
          /\ report_ids[k] = id
          /\ table' = [table EXCEPT !["report_ids_index"] = k]
          /\ UNCHANGED <<report_ids, counts>>
    \/ /\ \A k \in DOMAIN report_ids : report_ids[k] # id
       /\ report_ids' = Append(report_ids, id)
       /\ counts' = Append(counts, [t \in NodeTypes |-> 0])
       /\ table' = [table EXCEPT !["report_ids_index"] = Len(report_ids) + 1]

SetReportId(i) ==
    /\ Read(i, "ReportId")
    /\ \/ i.data = 0 /\ Reject("invalid_id")
       \/ i.data > 255 /\ Reject("invalid_range")
       \/ i.data \in 1..255 /\ HasItems(1) /\ Reject("missing_id")
       \/ /\ i.data \in 1..255 /\ ~HasItems(1)
          /\ UseReportId(i.data)
          /\ Accept
          /\ UNCHANGED <<stack, localVars, collVars, fields, enclosing>>

Push(i) ==
    /\ Read(i, "Push")
    /\ stack' = PushBack(stack, table, MaxStack)
    /\ Accept
    /\ UNCHANGED <<table, localVars, collVars, report_ids, fieldVars>>

Pop(i) ==
    /\ Read(i, "Pop")
    /\ \/ stack = <<>> /\ Reject("unexpected_pop")
       \/ /\ stack # <<>>
          /\ table' = Last(stack)
          /\ stack' = Front(stack)
          /\ Accept
          /\ UNCHANGED <<localVars, collVars, report_ids, fieldVars>>

-------------------------------------------------------------------------------
(* Local items.                                                            *)

AddUsage(i) ==
    /\ Read(i, "Usage")
    /\ usages' = PushBack(usages, i.data, MaxUsages)
    /\ declared' = Append(declared, i)
    /\ Accept
    /\ UNCHANGED <<globalVars, usage_range, collVars, report_ids, fieldVars>>

SetUsageBound(i, bound) ==
    \/ i.data > 65535 /\ Reject("unsupported")
    \/ /\ i.data <= 65535
       /\ usage_range' = [usage_range EXCEPT ![bound] = i.data]
       /\ declared' = Append(declared, i)
       /\ Accept
       /\ UNCHANGED <<globalVars, usages, collVars, report_ids, fieldVars>>

SetUsageMin(i) == Read(i, "UsageMinimum") /\ SetUsageBound(i, 1)
SetUsageMax(i) == Read(i, "UsageMaximum") /\ SetUsageBound(i, 2)

\* Mutant of ResetUsage: the usages are dropped, the range is not.
ResetUsageList ==
    /\ usages' = <<>> /\ usage_range' = usage_range
    /\ declared' = <<>>

\* After every main item.
ResetUsage ==
    /\ usages' = <<>> /\ usage_range' = <<0, 0>>
    /\ declared' = <<>>

-------------------------------------------------------------------------------
(* Collections.                                                            *)

Application == 1
Vendor == 8  \* the last type of a collection

StartCollection(i) ==
    /\ Read(i, "Collection")
    /\ \/ i.data > Vendor /\ Reject("invalid_item_value")
       \/ i.data <= Vendor /\ Len(coll) >= MaxCollections /\ Reject("overflow")
       \/ /\ i.data <= Vendor /\ Len(coll) < MaxCollections
          /\ coll' = Append(coll, [type   |-> i.data,
                                   usage  |-> <<table["page"],
                                                IF usages = <<>> THEN 0 ELSE usages[1]>>,
                                   parent |-> parent_coll])
          /\ parent_coll' = Len(coll) + 1
          /\ open' = Append(open, Len(coll) + 1)
          /\ ResetUsage
          /\ Accept
          /\ UNCHANGED <<globalVars, report_ids, fieldVars>>

\* Mutant of EndCollection: back to the collection before, not to the enclosing one.
EndCollectionByIndex(i) ==
    /\ Read(i, "EndCollection")
    /\ i.data = 0 /\ parent_coll # 0
    /\ parent_coll' = parent_coll - 1
    /\ open' = Front(open)
    /\ ResetUsage
    /\ Accept
    /\ UNCHANGED <<globalVars, coll, report_ids, fieldVars>>

EndCollection(i) ==
    /\ Read(i, "EndCollection")
    /\ \/ i.data # 0 /\ Reject("invalid_item_value")
       \/ i.data = 0 /\ parent_coll = 0 /\ Reject("invalid_tag")
       \/ /\ i.data = 0 /\ parent_coll # 0
          /\ parent_coll' = coll[parent_coll].parent
          /\ open' = Front(open)
          /\ ResetUsage
          /\ Accept
          /\ UNCHANGED <<globalVars, coll, report_ids, fieldVars>>

-------------------------------------------------------------------------------
(* Fields.                                                                 *)

ValidRanges ==
    /\ usage_range[1] <= usage_range[2]
    /\ table["logical_min"] <= table["logical_max"]

\* Bit 1 of the data is clear for an array (expand_bitfield()).
IsArray(i) == (i.data \div 2) % 2 = 0

\* What the n-th call of next_usage() gets from the list, when it is not empty: an
\* array does not advance; past the end it repeats last_usage_, which is what the
\* last call within the list has got.
NextUsage(i, n) ==
    LET index == IF IsArray(i) THEN 1 ELSE n
    IN  IF index <= Len(usages) THEN usages[index] ELSE Last(usages)

\* The same from the range, which takes precedence.
NextInRange(i, n) ==
    LET usage == usage_range[1] + IF IsArray(i) THEN 0 ELSE n - 1
    IN  IF usage > usage_range[2] THEN usage_range[2] ELSE usage

UsageOf(i, n) ==
    IF usage_range # <<0, 0>> THEN <<table["page"], NextInRange(i, n)>>
    ELSE IF usages # <<>> THEN <<table["page"], NextUsage(i, n)>>
    ELSE <<0, 0>>

\* Physical limits that are both 0 mean the logical ones.
PhysicalRange ==
    LET physical == <<table["physical_min"], table["physical_max"]>>
    IN  IF physical = <<0, 0>> THEN <<table["logical_min"], table["logical_max"]>>
        ELSE physical

\* Mutant of LastStarted: the first collection is the application.
FirstStarted == 1

\* curr_col, the collection of a field: the one that was started last.
LastStarted == Len(coll)

\* The n-th field of a main item.
Field(i, n) ==
    [report_id |-> report_ids[table["report_ids_index"]],
     type      |-> Tag(i),
     array     |-> IsArray(i),
     usage     |-> UsageOf(i, n),
     logical   |-> <<table["logical_min"], table["logical_max"]>>,
     physical  |-> PhysicalRange,
     unit      |-> <<table["unit"], table["exp"]>>,
     bit_sz    |-> table["bit_sz"],
     col       |-> LastStarted]

Enclosing == IF open = <<>> THEN 0 ELSE Last(open)

\* How many of the fields of a main item there is room for.
Room ==
    IF Len(fields) + table["report_count"] <= MaxFields THEN table["report_count"]
    ELSE MaxFields - Len(fields)

\* Mutant of CountFields: a main item counts once.
CountItem(type) ==
    counts' = [counts EXCEPT ![table["report_ids_index"]][type] = @ + 1]

\* Every field counts, whether there was room for it or not.
CountFields(type) ==
    counts' = [counts EXCEPT ![table["report_ids_index"]][type] = @ + table["report_count"]]

AddField(i) ==
    /\ Tag(i) \in NodeTypes
    /\ Read(i, Tag(i))
    /\ \/ coll = <<>> /\ Reject("unexpected_item")
       \/ coll # <<>> /\ ~ValidRanges /\ Reject("invalid_range")
       \/ /\ coll # <<>> /\ ValidRanges
          /\ fields' = fields \o [n \in 1..Room |-> Field(i, n)]
          /\ enclosing' = enclosing \o [n \in 1..Room |-> Enclosing]
          /\ CountFields(Tag(i))
          /\ ResetUsage
          /\ Accept
          /\ UNCHANGED <<globalVars, collVars, report_ids>>

-------------------------------------------------------------------------------
(* Finish(): what has been collected is packed.  From then on nothing      *)
(* changes, so that the operators below say what has been packed.          *)

NoReportId == Len(report_ids) = 1

\* Mutant of Reports: the null identifier is kept.
AllReports == DOMAIN report_ids

\* The entries of report_ids that get a report: the null one only if there is no other.
Reports == IF NoReportId THEN {1} ELSE 2..Len(report_ids)

HeldAt(k, type) ==
    {n \in DOMAIN fields : fields[n].report_id = report_ids[k] /\ fields[n].type = type}

\* All fields of a report.
AllHeldAt(k) == {n \in DOMAIN fields : fields[n].report_id = report_ids[k]}

\* ix: how many fields have been packed when it is report k's turn.
Packed(k) ==
    SumFunctionOnSet([j \in Reports |-> Cardinality(AllHeldAt(j))], {j \in Reports : j < k})

\* Mutant of Start: the outputs follow the outputs that are counted, not the inputs.
StartAfterOutputs(k, type) ==
    CASE type = "Input"   -> Packed(k)
      [] type = "Output"  -> Packed(k) + counts[k]["Output"]
      [] type = "Feature" -> Packed(k) + counts[k]["Input"] + counts[k]["Output"]

\* Where input_fields, output_fields and feature_fields of a report start.
Start(k, type) ==
    CASE type = "Input"   -> Packed(k)
      [] type = "Output"  -> Packed(k) + counts[k]["Input"]
      [] type = "Feature" -> Packed(k) + counts[k]["Input"] + counts[k]["Output"]

\* attr.offset of the report's field in place n of fields_: behind its fields of the
\* same type in earlier places.
Offset(k, type, n) ==
    (IF NoReportId THEN 0 ELSE 8)
    + SumFunctionOnSet([m \in DOMAIN fields |-> fields[m].bit_sz],
                       {m \in HeldAt(k, type) : m < n})

ByteSize(k, type) ==
    IF HeldAt(k, type) = {} THEN 0 ELSE (Offset(k, type, Len(fields) + 1) + 7) \div 8

\* GetReportSizeFromFirstByte() (descriptor.cpp): the first report that matches.
SizeFromFirstByte(type, byte) ==
    LET matching == {k \in Reports : report_ids[k] \in {byte, 0}}
    IN  IF matching = {} THEN 0
        ELSE ByteSize(CHOOSE k \in matching : \A j \in matching : k <= j, type)

HasRoom(k, type) == Cardinality(HeldAt(k, type)) <= counts[k][type]

Finish ==
    /\ result = Parsing
    /\ result' = IF coll = <<>> THEN "more_needed"
                 ELSE IF \E k \in Reports, t \in NodeTypes : ~HasRoom(k, t) THEN "overflow"
                 ELSE "ok"
    /\ UNCHANGED <<read, globalVars, localVars, collVars, report_ids, fieldVars>>

\* GetAppCollection(): the nearest application collection above a collection.
GetAppCollection ==
    LET app[c \in 0..Len(coll)] ==
            IF c = 0 \/ coll[c].type = Application THEN c ELSE app[coll[c].parent]
    IN  app

-------------------------------------------------------------------------------
MainItem(i) == StartCollection(i) \/ EndCollection(i) \/ AddField(i)

GlobalItem(i) ==
    \/ SetUsagePage(i) \/ SetReportSize(i) \/ SetReportCount(i) \/ SetReportId(i)
    \/ SetLogicalMin(i) \/ SetLogicalMax(i) \/ SetPhysicalMin(i) \/ SetPhysicalMax(i)
    \/ SetUnit(i) \/ SetUnitExp(i) \/ Push(i) \/ Pop(i)

LocalItem(i) == AddUsage(i) \/ SetUsageMin(i) \/ SetUsageMax(i)

Next ==
    \/ \E i \in Items : MainItem(i) \/ GlobalItem(i) \/ LocalItem(i) \/ RejectItem(i)
    \/ RejectStream
    \/ Finish

Spec == Init /\ [][Next]_vars

-------------------------------------------------------------------------------
(* Properties.                                                             *)

Results ==
    {Parsing, "ok", "no_memory", "more_needed", "unsupported", "invalid_tag",
     "invalid_item_type", "invalid_item_value", "invalid_range", "overflow",
     "unexpected_item", "unexpected_pop", "invalid_id", "missing_id"}

Table == {f \in [Entries -> Int] : f["report_count"] >= 0 /\ f["report_ids_index"] >= 1}
Index == 0..MaxCollections
Collection == [type : 0..Vendor, usage : Int \X Nat, parent : Index]
FieldSpace ==
    [report_id : 0..255, type : NodeTypes, array : BOOLEAN, usage : Int \X Int,
     logical : Int \X Int, physical : Int \X Int, unit : Int \X Int, bit_sz : Int,
     col : Index]

GlobalOK == table \in Table /\ stack \in Seq(Table) /\ Len(stack) <= MaxStack

LocalOK ==
    /\ usages \in Seq(Nat) /\ Len(usages) <= MaxUsages
    /\ usage_range \in Nat \X Nat
    /\ declared \in Seq(Items)

CollOK ==
    /\ coll \in Seq(Collection) /\ Len(coll) <= MaxCollections
    /\ parent_coll \in 0..Len(coll)
    /\ open \in Seq(1..Len(coll))

FieldOK ==
    /\ report_ids \in Seq(0..255)
    /\ counts \in Seq([NodeTypes -> Nat])
    /\ fields \in Seq(FieldSpace) /\ Len(fields) <= MaxFields
    /\ enclosing \in Seq(Index)

TypeOK ==
    /\ read \in 0..MaxItems
    /\ result \in Results
    /\ GlobalOK /\ LocalOK /\ CollOK /\ FieldOK

\* The pointer parent_coll_ and the parents it leads to are the collections that the
\* stream has opened and not closed, innermost first, although no stack is kept
\* (start_collection, end_collection): so is what Collection::parent promises.
NestingKept ==
    /\ parent_coll = Enclosing
    /\ \A n \in DOMAIN open : coll[open[n]].parent = IF n = 1 THEN 0 ELSE open[n - 1]
    /\ \A c \in DOMAIN coll : coll[c].parent < c

\* How many fields the stream has declared: fields_.push_back() may have dropped some of
\* them, the counts have not.
DeclaredFields ==
    SumFunction([k \in DOMAIN report_ids |->
                    counts[k]["Input"] + counts[k]["Output"] + counts[k]["Feature"]])

\* The fields that some report of the descriptor holds: all but those of an erased null
\* report.
Kept == {n \in DOMAIN fields : \E k \in Reports : n \in AllHeldAt(k)}

\* Where Finish() puts the fields of a report.
Slots(k, t) == Start(k, t) .. (Start(k, t) + Cardinality(HeldAt(k, t)) - 1)

\* Whichever way ReportId, Push and Pop have switched between the reports, Finish() puts
\* no two fields in one place and leaves no gap, although the order of the fields in the
\* stream is another one: as long as the stream declares no more than
\* kMaxReportFieldsCount fields.
ReportsTile ==
    DeclaredFields <= MaxFields =>
        LET arrays == Reports \X NodeTypes
        IN  /\ UNION {Slots(a[1], a[2]) : a \in arrays} = 0 .. (Cardinality(Kept) - 1)
            /\ \A a, b \in arrays :
                  a # b => Slots(a[1], a[2]) \cap Slots(b[1], b[2]) = {}

\* parser.cpp:192: "There are 3 arrays in order: [...] - all reports fields": the reports'
\* fields fill the array that is allocated for the fields that have been collected.
AllFieldsPacked ==
    result = "ok" =>
        UNION {Slots(k, t) : k \in Reports, t \in NodeTypes} = 0 .. (Len(fields) - 1)

\* The bits of the fields of a report that starts with this byte.
BitsAfter(byte, type) ==
    SumFunction([n \in DOMAIN fields |->
                    IF fields[n].type = type /\ fields[n].report_id = byte
                    THEN fields[n].bit_sz ELSE 0])

\* The first bytes to ask for: all identifiers, among them 0, and one that is none.
Bytes == Range(report_ids) \cup {255}

\* A report's first byte is enough to know its size: the identifier, if there are
\* identifiers, and the fields, in the least number of bytes; 0 for a byte that
\* starts no report (Finish() and GetReportSizeFromFirstByte()).
FirstByteFindsSize ==
    result = "ok" => \A byte \in Bytes, t \in NodeTypes :
        LET size == SizeFromFirstByte(t, byte)
            id == IF NoReportId THEN 0 ELSE byte
            here == {n \in DOMAIN fields : fields[n].type = t /\ fields[n].report_id = id}
            bits == BitsAfter(id, t) + IF NoReportId THEN 0 ELSE 8
        IN  IF (byte = 0 /\ ~NoReportId) \/ here = {} THEN size = 0
            ELSE 8 * size >= bits /\ 8 * (size - 1) < bits

\* A field refers to the collection that was started last, which may be closed by
\* then.  Still GetAppCollection() finds the application collection the field was
\* declared in, provided that application collections are not inside others.
SameApplication ==
    (\A c \in DOMAIN coll : coll[c].type = Application => coll[c].parent = 0) =>
        \A n \in DOMAIN fields :
            enclosing[n] # 0 =>
                GetAppCollection[fields[n].col] = GetAppCollection[enclosing[n]]

\* What the local items since the last main item declare: the data of the last one
\* with a tag,
ItemsTagged(tag) == {n \in DOMAIN declared : Tag(declared[n]) = tag}
Said(tag) ==
    IF ItemsTagged(tag) = {} THEN 0 ELSE declared[Max(ItemsTagged(tag))].data

\* and of the n-th usage, of which the list keeps the first ones.
Rank(m) == Cardinality({l \in ItemsTagged("Usage") : l <= m})
Listed(n) == declared[CHOOSE m \in ItemsTagged("Usage") : Rank(m) = n].data
ListLen == Min({Cardinality(ItemsTagged("Usage")), MaxUsages})

\* The usage of the n-th field of a main item, by the comment above UsageIterator:
\* from the range or else the list, the last one for what is left over, an array
\* always the first, and nothing of what was declared for an earlier main item.
DeclaredUsage(n, array) ==
    LET wanted == IF array THEN 1 ELSE n
        width == Said("UsageMaximum") - Said("UsageMinimum") + 1
    IN  IF Said("UsageMaximum") # 0 \/ Said("UsageMinimum") # 0
        THEN Said("UsageMinimum") + (IF wanted <= width THEN wanted ELSE width) - 1
        ELSE IF ListLen = 0 THEN 0
        ELSE Listed(IF wanted <= ListLen THEN wanted ELSE ListLen)

UsagesAssigned ==
    [][\A n \in (Len(fields) + 1)..Len(fields') :
          fields'[n].usage[2] = DeclaredUsage(n - Len(fields), fields'[n].array)]_vars
================================================================================
