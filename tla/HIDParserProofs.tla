---------------------------- MODULE HIDParserProofs -----------------------------
(***************************************************************************)
(* Proofs about HIDParser, for every set of items, all limits and streams  *)
(* of every length.                                                        *)
(*                                                                         *)
(* IInv is the inductive invariant of the first three theorems.  The       *)
(* others add to it what they need: AncestryInv where the collections are, *)
(* from which the application of a field follows by induction on the       *)
(* depth, DeclaredInv what the local items have said, NullIdFirst which    *)
(* report is the null one, CountsExact that counts and fields agree until  *)
(* a field is dropped.  What Finish() packs is counted with sums over      *)
(* sets, whose laws are proved here too.  Induction is over the members of *)
(* Nat and of the subsets of a finite set that are in a given set.         *)
(***************************************************************************)
EXTENDS HIDParser, FiniteSetTheorems, SequenceTheorems, WellFoundedInduction, TLAPS

\* The entries of report_ids_ are told apart by their identifiers, and whatever
\* refers to one, an index or a field, refers to one that is there.
IdsInv ==
    /\ Len(counts) = Len(report_ids)
    /\ \A j, k \in DOMAIN report_ids : report_ids[j] = report_ids[k] => j = k
    /\ table["report_ids_index"] \in DOMAIN report_ids
    /\ \A n \in DOMAIN stack : stack[n]["report_ids_index"] \in DOMAIN report_ids
    /\ \A n \in DOMAIN fields :
          \E k \in DOMAIN report_ids : fields[n].report_id = report_ids[k]

\* A report counts at least the fields that carry its identifier; it counts more when
\* fields have been dropped.
CountsCover == \A k \in DOMAIN report_ids, t \in NodeTypes : HasRoom(k, t)

IInv == TypeOK /\ NestingKept /\ IdsInv /\ CountsCover

-------------------------------------------------------------------------------
(* Sequences.                                                              *)

\* What Front returns.
LEMMA FrontProperties ==
    ASSUME NEW S, NEW s \in Seq(S), s # <<>>
    PROVE  /\ Front(s) \in Seq(S)
           /\ Len(Front(s)) = Len(s) - 1
           /\ \A n \in 1..(Len(s) - 1) : Front(s)[n] = s[n]
<1>1. Len(s) \in Nat \ {0}
  OBVIOUS
<1>2. Front(s) = SubSeq(s, 1, Len(s) - 1)
  BY DEF Front
<1>3. \A n \in 1..(Len(s) - 1) : s[n] \in S
  BY <1>1
<1>4. /\ SubSeq(s, 1, Len(s) - 1) \in Seq(S)
      /\ Len(SubSeq(s, 1, Len(s) - 1)) = IF 1 <= Len(s) - 1 THEN (Len(s) - 1) - 1 + 1 ELSE 0
      /\ \A n \in 1..((Len(s) - 1) - 1 + 1) : SubSeq(s, 1, Len(s) - 1)[n] = s[1 + n - 1]
  BY <1>1, <1>3, SubSeqProperties
<1>5. Len(SubSeq(s, 1, Len(s) - 1)) = Len(s) - 1
  <2>1. \A a \in Nat \ {0} : \A b : b = (IF 1 <= a - 1 THEN (a - 1) - 1 + 1 ELSE 0) => b = a - 1
    OBVIOUS
  <2> QED
    BY <1>1, <1>4, <2>1, Zenon
<1>6. \A n \in 1..(Len(s) - 1) : SubSeq(s, 1, Len(s) - 1)[n] = s[n]
  BY <1>1, <1>4
<1> QED
  BY <1>2, <1>4, <1>5, <1>6, Zenon

\* What Last returns.
LEMMA LastProperties ==
    ASSUME NEW S, NEW s \in Seq(S), s # <<>>
    PROVE  Len(s) \in Nat \ {0} /\ Last(s) = s[Len(s)] /\ Last(s) \in S
<1>1. Len(s) \in 1..Len(s)
  OBVIOUS
<1> QED
  BY <1>1 DEF Last

\* A LimitedVector keeps its limit and adds at most one element at the end.
LEMMA PushBackProperties ==
    ASSUME NEW S, NEW s \in Seq(S), NEW x \in S, NEW max \in Nat, Len(s) <= max
    PROVE  /\ PushBack(s, x, max) \in Seq(S)
           /\ Len(PushBack(s, x, max)) <= max
           /\ \A n \in 1..Len(PushBack(s, x, max)) :
                 PushBack(s, x, max)[n] = x \/ (n \in 1..Len(s) /\ PushBack(s, x, max)[n] = s[n])
<1>1. CASE Len(s) < max
  BY <1>1 DEF PushBack
<1>2. CASE ~(Len(s) < max)
  BY <1>2 DEF PushBack
<1> QED
  BY <1>1, <1>2

-------------------------------------------------------------------------------
(* Items, and what a step leaves alone.                                    *)

\* The data of an item, signed or not, is a number.
LEMMA ItemTyped ==
    ASSUME NEW i \in Items
    PROVE  i.data \in Nat /\ SignedData(i) \in Int
<1>1. i.data \in Nat /\ i.header \in 0..255
  BY ItemsAssumption
<1>2. Size(i) \in Nat
  BY <1>1 DEF Size
<1>3. CASE Size(i) = 0
  BY <1>1, <1>3 DEF SignedData
<1>4. CASE Size(i) # 0
  <2>1. 8 * Size(i) - 1 \in Nat
    BY <1>2, <1>4
  <2>2. 2 ^ (8 * Size(i) - 1) \in Int
    BY <2>1
  <2> QED
    BY <1>1, <1>4, <2>2 DEF SignedData
<1> QED
  BY <1>1, <1>3, <1>4

\* The parts of the invariant depend on the variables they are about.
LEMMA Frames ==
    ASSUME IInv
    PROVE  /\ UNCHANGED globalVars => GlobalOK'
           /\ UNCHANGED localVars => LocalOK'
           /\ UNCHANGED collVars => CollOK' /\ NestingKept'
           /\ UNCHANGED <<report_ids, fieldVars>> => FieldOK' /\ CountsCover'
           /\ UNCHANGED <<globalVars, report_ids, fieldVars>> => IdsInv'
<1>1. UNCHANGED globalVars => GlobalOK'
  BY DEF IInv, TypeOK, GlobalOK, globalVars
<1>2. UNCHANGED localVars => LocalOK'
  BY DEF IInv, TypeOK, LocalOK, localVars
<1>3. UNCHANGED collVars => CollOK'
  BY DEF IInv, TypeOK, CollOK, collVars
<1>4. UNCHANGED collVars => NestingKept'
  BY DEF IInv, NestingKept, Enclosing, collVars
<1>5. UNCHANGED <<report_ids, fieldVars>> => FieldOK'
  BY DEF IInv, TypeOK, FieldOK, fieldVars
<1>6. UNCHANGED <<report_ids, fieldVars>> => CountsCover'
  BY DEF IInv, CountsCover, HasRoom, HeldAt, fieldVars
<1>7. UNCHANGED <<globalVars, report_ids, fieldVars>> => IdsInv'
  BY DEF IInv, IdsInv, globalVars, fieldVars
<1> QED
  BY <1>1, <1>2, <1>3, <1>4, <1>5, <1>6, <1>7

\* A step that reads an item keeps the bound.
LEMMA ReadBound ==
    ASSUME IInv, NEW i, NEW tag, Read(i, tag)
    PROVE  read' \in 0..MaxItems
BY LimitsAssumption DEF IInv, TypeOK, Read

\* Rejecting an item or a stream changes the result only.
LEMMA RejectKeeps ==
    ASSUME IInv, NEW code \in Results, Reject(code), read' \in 0..MaxItems
    PROVE  IInv'
<1>1. result' \in Results
  BY DEF Reject
<1> QED
  BY <1>1, Frames DEF Reject, IInv, TypeOK

\* Setting an entry of the state table, other than the report.
LEMMA SetKeeps ==
    ASSUME IInv, read' \in 0..MaxItems,
           NEW entry \in Entries \ {"report_ids_index"}, NEW value \in Int,
           entry = "report_count" => value >= 0, Set(entry, value)
    PROVE  IInv'
<1>1. table \in Table /\ result \in Results
  BY DEF IInv, TypeOK, GlobalOK
<1>2. table' \in Table /\ table'["report_ids_index"] = table["report_ids_index"]
  BY <1>1 DEF Set, Table, Entries
<1>3. GlobalOK'
  BY <1>2 DEF IInv, TypeOK, GlobalOK, Set
<1>4. IdsInv'
  BY <1>2 DEF IInv, IdsInv, Set, fieldVars
<1> QED
  BY <1>1, <1>3, <1>4, Frames DEF Set, Accept, IInv, TypeOK

\* The same for an entry with a limit.
LEMMA SetUpToKeeps ==
    ASSUME IInv, read' \in 0..MaxItems, NEW i \in Items, NEW limit \in Nat,
           NEW code \in Results, NEW entry \in Entries \ {"report_ids_index"},
           SetUpTo(limit, code, entry, i)
    PROVE  IInv'
<1>1. i.data \in Nat
  BY ItemTyped
<1>2. CASE Reject(code)
  BY <1>2, RejectKeeps
<1>3. CASE Set(entry, i.data)
  BY <1>1, <1>3, SetKeeps
<1> QED
  BY <1>2, <1>3 DEF SetUpTo

-------------------------------------------------------------------------------
(* Reports and the state stack.                                            *)

\* A known identifier is selected; a new one gets an entry without fields.
LEMMA UseReportIdKeeps ==
    ASSUME IInv, NEW id \in 1..255, UseReportId(id),
           UNCHANGED <<stack, fields, enclosing>>
    PROVE  GlobalOK' /\ FieldOK' /\ IdsInv' /\ CountsCover'
<1> DEFINE last == Len(report_ids) + 1
           zero == [t \in NodeTypes |-> 0]
<1>1. /\ table \in Table /\ report_ids \in Seq(0..255) /\ counts \in Seq([NodeTypes -> Nat])
      /\ Len(counts) = Len(report_ids) /\ Len(report_ids) \in Nat
  BY DEF IInv, TypeOK, GlobalOK, FieldOK, IdsInv
<1>2. ASSUME NEW k \in Nat \ {0}, table' = [table EXCEPT !["report_ids_index"] = k]
      PROVE  GlobalOK' /\ table'["report_ids_index"] = k
  <2>1. table \in [Entries -> Int] /\ table["report_count"] >= 0
    BY <1>1 DEF Table
  <2>2. k \in Int /\ k >= 1
    OBVIOUS
  <2>3. "report_ids_index" \in Entries
    BY DEF Entries
  <2>4. table' \in [Entries -> Int]
    BY <1>2, <2>1, <2>2, <2>3
  <2>5. table'["report_ids_index"] = k
    BY <1>2, <2>1, <2>3
  <2>6. table'["report_count"] = table["report_count"]
    BY <1>2, <2>1, <2>3 DEF Entries
  <2>7. table' \in Table
    BY <2>1, <2>2, <2>4, <2>5, <2>6 DEF Table
  <2> QED
    BY <2>5, <2>7 DEF IInv, TypeOK, GlobalOK
<1>3. CASE \E k \in DOMAIN report_ids :
              /\ report_ids[k] = id
              /\ table' = [table EXCEPT !["report_ids_index"] = k]
              /\ UNCHANGED <<report_ids, counts>>
  <2>1. PICK k \in DOMAIN report_ids :
              /\ table' = [table EXCEPT !["report_ids_index"] = k]
              /\ UNCHANGED <<report_ids, counts>>
    BY <1>3
  <2>2. k \in Nat \ {0}
    BY <1>1
  <2>3. GlobalOK' /\ table'["report_ids_index"] = k
    BY <1>2, <2>1, <2>2
  <2>4. IdsInv'
    BY <2>1, <2>3 DEF IInv, IdsInv
  <2>5. FieldOK' /\ CountsCover'
    BY <2>1, Frames DEF fieldVars
  <2> QED
    BY <2>3, <2>4, <2>5
<1>4. CASE /\ \A k \in DOMAIN report_ids : report_ids[k] # id
           /\ report_ids' = Append(report_ids, id)
           /\ counts' = Append(counts, zero)
           /\ table' = [table EXCEPT !["report_ids_index"] = last]
  <2>0. last \in Nat \ {0} /\ table' = [table EXCEPT !["report_ids_index"] = last]
    BY <1>1, <1>4
  <2>1. GlobalOK' /\ table'["report_ids_index"] = last
    BY <1>2, <2>0
  <2>2. /\ report_ids' \in Seq(0..255) /\ Len(report_ids') = last
        /\ \A k \in 1..Len(report_ids) : report_ids'[k] = report_ids[k]
        /\ report_ids'[last] = id
    BY <1>1, <1>4
  <2>3. zero \in [NodeTypes -> Nat] /\ \A t \in NodeTypes : zero[t] = 0
    OBVIOUS
  <2> HIDE DEF zero
  <2>4. /\ counts' \in Seq([NodeTypes -> Nat]) /\ Len(counts') = last
        /\ \A k \in 1..Len(report_ids) : counts'[k] = counts[k]
        /\ counts'[last] = zero
    BY <1>1, <1>4, <2>3
  <2>5. FieldOK'
    BY <2>2, <2>4 DEF IInv, TypeOK, FieldOK
  <2>6. \A n \in DOMAIN fields : fields[n].report_id # id
    BY <1>4 DEF IInv, IdsInv
  <2>7. IdsInv'
    <3>1. \A j, k \in 1..last : report_ids'[j] = report_ids'[k] => j = k
      <4>1. DOMAIN report_ids = 1..Len(report_ids)
        BY <1>1
      <4>2. \A j \in 1..last : j = last \/ j \in DOMAIN report_ids
        BY <1>1, <4>1
      <4>3. \A j \in DOMAIN report_ids : report_ids'[j] = report_ids[j] /\ report_ids[j] # id
        BY <1>4, <2>2, <4>1
      <4>4. \A j, k \in DOMAIN report_ids : report_ids[j] = report_ids[k] => j = k
        BY DEF IInv, IdsInv
      <4> QED
        BY <2>2, <4>2, <4>3, <4>4
    <3>2. \A n \in DOMAIN stack : stack[n]["report_ids_index"] \in 1..last
      BY <1>1 DEF IInv, IdsInv
    <3>3. \A n \in DOMAIN fields :
             \E k \in 1..last : fields[n].report_id = report_ids'[k]
      <4>1. DOMAIN report_ids = 1..Len(report_ids) /\ 1..Len(report_ids) \subseteq 1..last
        BY <1>1
      <4> QED
        BY <2>2, <4>1 DEF IInv, IdsInv
    <3>4. last \in 1..last /\ DOMAIN report_ids' = 1..last
      BY <1>1, <2>2
    <3> QED
      BY <2>1, <2>2, <2>4, <3>1, <3>2, <3>3, <3>4 DEF IdsInv
  <2>8. ASSUME NEW k \in DOMAIN report_ids', NEW t \in NodeTypes
        PROVE  HasRoom(k, t)'
    <3>1. CASE k = last
      <4>1. HeldAt(k, t)' = {}
        BY <2>2, <2>6, <3>1 DEF HeldAt
      <4> QED
        BY <4>1, <3>1, <2>3, <2>4, FS_EmptySet DEF HasRoom
    <3>2. CASE k \in DOMAIN report_ids
      <4>1. HeldAt(k, t)' = HeldAt(k, t) /\ counts'[k] = counts[k]
        BY <1>1, <2>2, <2>4, <3>2 DEF HeldAt
      <4> QED
        BY <3>2, <4>1 DEF IInv, CountsCover, HasRoom
    <3> QED
      BY <1>1, <2>2, <3>1, <3>2
  <2> QED
    BY <2>1, <2>5, <2>7, <2>8 DEF CountsCover
<1> QED
  BY <1>3, <1>4 DEF UseReportId

\* set_report_id()
LEMMA SetReportIdKeeps ==
    ASSUME IInv, NEW i \in Items, SetReportId(i)
    PROVE  IInv'
<1>1. read' \in 0..MaxItems
  BY ReadBound DEF SetReportId
<1>2. CASE \E code \in Results : Reject(code)
  BY <1>1, <1>2, RejectKeeps
<1>3. CASE /\ i.data \in 1..255 /\ UseReportId(i.data) /\ Accept
           /\ UNCHANGED <<stack, localVars, collVars, fields, enclosing>>
  <2>1. GlobalOK' /\ FieldOK' /\ IdsInv' /\ CountsCover'
    BY <1>3, UseReportIdKeeps
  <2> QED
    BY <1>1, <1>3, <2>1, Frames DEF IInv, TypeOK, Accept
<1> QED
  BY <1>2, <1>3 DEF SetReportId, Results

\* push()
LEMMA PushKeeps ==
    ASSUME IInv, NEW i \in Items, Push(i)
    PROVE  IInv'
<1>1. read' \in 0..MaxItems
  BY ReadBound DEF Push
<1>2. table \in Table /\ stack \in Seq(Table) /\ Len(stack) <= MaxStack /\ MaxStack \in Nat
  BY LimitsAssumption DEF IInv, TypeOK, GlobalOK
<1>3. stack' = PushBack(stack, table, MaxStack) /\ table' = table
  BY DEF Push
<1>4. GlobalOK'
  BY <1>2, <1>3, PushBackProperties DEF GlobalOK
<1>5. \A n \in 1..Len(stack') : stack'[n] = table \/ (n \in 1..Len(stack) /\ stack'[n] = stack[n])
  BY <1>2, <1>3, PushBackProperties
<1>6. \A n \in DOMAIN stack' : stack'[n]["report_ids_index"] \in DOMAIN report_ids
  <2>1. DOMAIN stack' = 1..Len(stack') /\ DOMAIN stack = 1..Len(stack)
    BY <1>2, <1>4 DEF GlobalOK
  <2> QED
    BY <1>5, <2>1 DEF IInv, IdsInv
<1>7. IdsInv'
  BY <1>3, <1>6 DEF IInv, IdsInv, Push, fieldVars
<1> QED
  BY <1>1, <1>4, <1>7, Frames DEF Push, Accept, IInv, TypeOK

\* pop()
LEMMA PopKeeps ==
    ASSUME IInv, NEW i \in Items, Pop(i)
    PROVE  IInv'
<1>1. read' \in 0..MaxItems
  BY ReadBound DEF Pop
<1>2. CASE Reject("unexpected_pop")
  BY <1>1, <1>2, RejectKeeps DEF Results
<1>3. CASE /\ stack # <<>> /\ table' = Last(stack) /\ stack' = Front(stack) /\ Accept
           /\ UNCHANGED <<localVars, collVars, report_ids, fieldVars>>
  <2>1. stack \in Seq(Table) /\ Len(stack) <= MaxStack
    BY DEF IInv, TypeOK, GlobalOK
  <2>2. Len(stack) \in Nat \ {0} /\ table' = stack[Len(stack)] /\ table' \in Table
    BY <1>3, <2>1, LastProperties
  <2>3. /\ stack' \in Seq(Table) /\ Len(stack') = Len(stack) - 1
        /\ \A n \in 1..(Len(stack) - 1) : stack'[n] = stack[n]
    BY <1>3, <2>1, FrontProperties
  <2>4. GlobalOK'
    BY <2>1, <2>2, <2>3, LimitsAssumption DEF GlobalOK
  <2>5. \A n \in DOMAIN stack' : stack'[n]["report_ids_index"] \in DOMAIN report_ids
    BY <2>1, <2>2, <2>3 DEF IInv, IdsInv
  <2>6. table'["report_ids_index"] \in DOMAIN report_ids
    BY <2>1, <2>2 DEF IInv, IdsInv
  <2>7. IdsInv'
    BY <1>3, <2>5, <2>6 DEF IInv, IdsInv, fieldVars
  <2> QED
    BY <1>1, <1>3, <2>4, <2>7, Frames DEF IInv, TypeOK, Accept
<1> QED
  BY <1>2, <1>3 DEF Pop

-------------------------------------------------------------------------------
(* Local items and collections.                                            *)

\* reset_usage()
LEMMA ResetUsageKeeps ==
    ASSUME ResetUsage
    PROVE  LocalOK'
<1>1. usages' \in Seq(Nat) /\ Len(usages') <= MaxUsages
  BY LimitsAssumption DEF ResetUsage
<1>2. usage_range' \in Nat \X Nat /\ declared' \in Seq(Items)
  BY DEF ResetUsage
<1> QED
  BY <1>1, <1>2 DEF LocalOK

\* add_usage()
LEMMA AddUsageKeeps ==
    ASSUME IInv, NEW i \in Items, AddUsage(i)
    PROVE  IInv'
<1>1. read' \in 0..MaxItems
  BY ReadBound DEF AddUsage
<1>2. LocalOK /\ i.data \in Nat /\ MaxUsages \in Nat
  BY ItemTyped, LimitsAssumption DEF IInv, TypeOK
<1>3. usages' \in Seq(Nat) /\ Len(usages') <= MaxUsages
  BY <1>2, PushBackProperties DEF AddUsage, LocalOK
<1>4. LocalOK'
  BY <1>2, <1>3 DEF AddUsage, LocalOK
<1> QED
  BY <1>1, <1>4, Frames DEF AddUsage, Accept, IInv, TypeOK

\* set_usage_min() and set_usage_max()
LEMMA SetUsageBoundKeeps ==
    ASSUME IInv, NEW i \in Items, read' \in 0..MaxItems, NEW bound \in {1, 2},
           SetUsageBound(i, bound)
    PROVE  IInv'
<1>1. CASE Reject("unsupported")
  BY <1>1, RejectKeeps DEF Results
<1>2. CASE /\ usage_range' = [usage_range EXCEPT ![bound] = i.data]
           /\ declared' = Append(declared, i)
           /\ Accept
           /\ UNCHANGED <<globalVars, usages, collVars, report_ids, fieldVars>>
  <2>1. LocalOK /\ i.data \in Nat
    BY ItemTyped DEF IInv, TypeOK
  <2>2. usage_range' \in Nat \X Nat
    BY <1>2, <2>1 DEF LocalOK
  <2>3. LocalOK'
    BY <1>2, <2>1, <2>2 DEF LocalOK
  <2> QED
    BY <1>2, <2>3, Frames DEF Accept, IInv, TypeOK
<1> QED
  BY <1>1, <1>2 DEF SetUsageBound

\* start_collection(): the new collection is inside the open one and is open now.
LEMMA StartCollectionKeeps ==
    ASSUME IInv, NEW i \in Items, StartCollection(i)
    PROVE  IInv'
<1> DEFINE new == [type   |-> i.data,
                   usage  |-> <<table["page"], IF usages = <<>> THEN 0 ELSE usages[1]>>,
                   parent |-> parent_coll]
           here == Len(coll) + 1
<1>1. read' \in 0..MaxItems
  BY ReadBound DEF StartCollection
<1>2. CASE \E code \in Results : Reject(code)
  BY <1>1, <1>2, RejectKeeps
<1>3. CASE /\ i.data <= Vendor /\ Len(coll) < MaxCollections
           /\ coll' = Append(coll, new)
           /\ parent_coll' = here
           /\ open' = Append(open, here)
           /\ ResetUsage
           /\ Accept
           /\ UNCHANGED <<globalVars, report_ids, fieldVars>>
  <2>1. /\ coll \in Seq(Collection) /\ Len(coll) \in Nat /\ parent_coll \in 0..Len(coll)
        /\ open \in Seq(1..Len(coll)) /\ MaxCollections \in Nat
    BY LimitsAssumption DEF IInv, TypeOK, CollOK
  <2>2. new \in Collection
    <3>1. table["page"] \in Int
      BY DEF IInv, TypeOK, GlobalOK, Table, Entries
    <3>2. (IF usages = <<>> THEN 0 ELSE usages[1]) \in Nat
      BY DEF IInv, TypeOK, LocalOK
    <3>3. i.data \in 0..Vendor /\ parent_coll \in Index
      <4>1. i.data \in Nat
        BY ItemTyped
      <4>2. i.data <= Vendor
        BY <1>3
      <4> HIDE DEF new, here
      <4>3. i.data \in 0..Vendor
        BY <4>1, <4>2 DEF Vendor
      <4>4. parent_coll \in Index
        BY <1>3, <2>1 DEF Index
      <4> QED
        BY <4>3, <4>4
    <3> QED
      BY <3>1, <3>2, <3>3 DEF Collection
  <2>3. new.parent = parent_coll
    OBVIOUS
  <2> HIDE DEF new
  <2>4. /\ coll' \in Seq(Collection) /\ Len(coll') = here
        /\ \A c \in 1..Len(coll) : coll'[c] = coll[c]
        /\ coll'[here] = new
    BY <1>3, <2>1, <2>2
  <2>5. /\ open' \in Seq(1..here) /\ Len(open') = Len(open) + 1 /\ Len(open) \in Nat
        /\ \A n \in 1..Len(open) : open'[n] = open[n] /\ open[n] \in 1..Len(coll)
        /\ open'[Len(open) + 1] = here /\ open' # <<>>
    <3>1. open \in Seq(1..here) /\ here \in 1..here
      BY <2>1
    <3> QED
      <4>1. open' = Append(open, here)
        BY <1>3
      <4>2. open' \in Seq(1..here) /\ Len(open') = Len(open) + 1 /\ Len(open) \in Nat
        BY <3>1, <4>1
      <4>3. \A n \in 1..Len(open) : open'[n] = open[n]
        BY <3>1, <4>1
      <4>4. \A n \in 1..Len(open) : open[n] \in 1..Len(coll)
        BY <2>1
      <4>5. open'[Len(open) + 1] = here
        BY <3>1, <4>1
      <4>6. open' # <<>>
        BY <4>2
      <4> QED
        BY <4>2, <4>3, <4>4, <4>5, <4>6
  <2>6. CollOK'
    BY <1>3, <2>1, <2>4, <2>5 DEF CollOK
  <2>7. NestingKept'
    <3>1. (parent_coll = Enclosing)'
      BY <1>3, <2>5, LastProperties DEF Enclosing
    <3>2. ASSUME NEW n \in 1..Len(open)
          PROVE  coll'[open'[n]].parent = IF n = 1 THEN 0 ELSE open'[n - 1]
      <4>1. coll'[open'[n]].parent = coll[open[n]].parent
        BY <2>4, <2>5
      <4>2. n # 1 => open'[n - 1] = open[n - 1]
        <5>1. n # 1 => n - 1 \in 1..Len(open)
          BY <2>5
        <5> QED
          BY <2>5, <5>1
      <4> QED
        BY <2>1, <4>1, <4>2 DEF IInv, NestingKept
    <3>3. coll'[here].parent = IF Len(open) = 0 THEN 0 ELSE open'[Len(open)]
      <4>1. parent_coll = IF Len(open) = 0 THEN 0 ELSE open[Len(open)]
        BY <2>1, LastProperties DEF IInv, NestingKept, Enclosing
      <4> QED
        BY <2>3, <2>4, <2>5, <4>1
    <3>4. ASSUME NEW n \in DOMAIN open'
          PROVE  coll'[open'[n]].parent = IF n = 1 THEN 0 ELSE open'[n - 1]
      <4>1. CASE n \in 1..Len(open)
        BY <3>2, <4>1
      <4>2. CASE n = Len(open) + 1
        BY <2>5, <3>3, <4>2
      <4>3. n \in 1..(Len(open) + 1)
        BY <2>5
      <4> QED
        BY <2>5, <4>1, <4>2, <4>3
    <3>5. ASSUME NEW c \in DOMAIN coll' PROVE coll'[c].parent < c
      <4>1. CASE c \in 1..Len(coll)
        BY <2>1, <2>4, <4>1 DEF IInv, NestingKept
      <4>2. CASE c = here
        BY <2>1, <2>3, <2>4, <4>2
      <4> QED
        BY <2>1, <2>4, <4>1, <4>2
    <3> QED
      BY <3>1, <3>4, <3>5 DEF NestingKept
  <2> QED
    BY <1>1, <1>3, <2>6, <2>7, Frames, ResetUsageKeeps DEF Accept, IInv, TypeOK
<1> QED
  BY <1>2, <1>3 DEF StartCollection, Results

\* end_collection(): the open collection's parent is the one that was open before.
LEMMA EndCollectionKeeps ==
    ASSUME IInv, NEW i \in Items, EndCollection(i)
    PROVE  IInv'
<1>1. read' \in 0..MaxItems
  BY ReadBound DEF EndCollection
<1>2. CASE \E code \in Results : Reject(code)
  BY <1>1, <1>2, RejectKeeps
<1>3. CASE /\ parent_coll # 0
           /\ parent_coll' = coll[parent_coll].parent
           /\ open' = Front(open)
           /\ ResetUsage
           /\ Accept
           /\ UNCHANGED <<globalVars, coll, report_ids, fieldVars>>
  <2>1. /\ coll \in Seq(Collection) /\ parent_coll \in 1..Len(coll) /\ Len(coll) \in Nat
        /\ open \in Seq(1..Len(coll))
    BY <1>3 DEF IInv, TypeOK, CollOK
  <2>2. open # <<>> /\ parent_coll = Last(open)
    BY <1>3 DEF IInv, NestingKept, Enclosing
  <2>3. Len(open) \in Nat \ {0} /\ parent_coll = open[Len(open)]
    BY <2>1, <2>2, LastProperties
  <2>4. /\ open' \in Seq(1..Len(coll)) /\ Len(open') = Len(open) - 1
        /\ \A n \in 1..(Len(open) - 1) : open'[n] = open[n]
    BY <1>3, <2>1, <2>2, FrontProperties
  <2>5. parent_coll' = IF Len(open) = 1 THEN 0 ELSE open[Len(open) - 1]
    <3>1. Len(open) \in DOMAIN open
      BY <2>1, <2>3
    <3>2. coll[open[Len(open)]].parent =
             IF Len(open) = 1 THEN 0 ELSE open[Len(open) - 1]
      BY <3>1 DEF IInv, NestingKept
    <3> QED
      BY <1>3, <2>3, <3>2
  <2>6. parent_coll' = IF Len(open') = 0 THEN 0 ELSE open'[Len(open')]
    BY <2>3, <2>4, <2>5
  <2>7. (parent_coll = Enclosing)'
    <3>1. CASE open' = <<>>
      BY <2>6, <3>1 DEF Enclosing
    <3>2. CASE open' # <<>>
      BY <2>4, <2>6, <3>2, LastProperties DEF Enclosing
    <3> QED
      BY <3>1, <3>2
  <2>8. parent_coll' \in 0..Len(coll)
    <3>1. CASE Len(open') = 0
      BY <2>1, <2>6, <3>1
    <3>2. CASE Len(open') # 0
      <4>1. Len(open') \in 1..Len(open')
        BY <2>4, <3>2
      <4>2. open'[Len(open')] \in 1..Len(coll)
        BY <2>4, <4>1
      <4> QED
        BY <2>1, <2>6, <3>2, <4>2
    <3> QED
      BY <3>1, <3>2
  <2>9. CollOK'
    BY <1>3, <2>4, <2>8 DEF CollOK, IInv, TypeOK
  <2>10. NestingKept'
    <3>1. \A n \in DOMAIN open' :
             coll'[open'[n]].parent = IF n = 1 THEN 0 ELSE open'[n - 1]
      <4> SUFFICES ASSUME NEW n \in 1..(Len(open) - 1)
                   PROVE  coll[open'[n]].parent = IF n = 1 THEN 0 ELSE open'[n - 1]
        <5>1. DOMAIN open' = 1..(Len(open) - 1)
          BY <2>3, <2>4
        <5>2. coll' = coll
          BY <1>3
        <5> QED
          BY <5>1, <5>2
      <4>1. n \in DOMAIN open /\ open'[n] = open[n]
        BY <2>1, <2>3, <2>4
      <4>2. n # 1 => open'[n - 1] = open[n - 1]
        <5>1. n # 1 => n - 1 \in 1..(Len(open) - 1)
          BY <2>3
        <5> QED
          BY <2>4, <5>1
      <4>3. coll[open[n]].parent = IF n = 1 THEN 0 ELSE open[n - 1]
        BY <4>1 DEF IInv, NestingKept
      <4> QED
        BY <4>1, <4>2, <4>3
    <3>2. \A c \in DOMAIN coll' : coll'[c].parent < c
      BY <1>3 DEF IInv, NestingKept
    <3> QED
      BY <2>7, <3>1, <3>2 DEF NestingKept
  <2> QED
    BY <1>1, <1>3, <2>9, <2>10, Frames, ResetUsageKeeps DEF Accept, IInv, TypeOK
<1> QED
  BY <1>2, <1>3 DEF EndCollection, Results

-------------------------------------------------------------------------------
(* Fields.                                                                 *)

\* There is room for at most as many fields as the main item declares.
LEMMA RoomBound ==
    ASSUME IInv
    PROVE  /\ Room \in Nat /\ Room <= table["report_count"] /\ Len(fields) + Room <= MaxFields
           /\ table["report_count"] \in Nat /\ Len(fields) \in Nat
<1>1. /\ table["report_count"] \in Int /\ table["report_count"] >= 0
      /\ Len(fields) \in Nat /\ Len(fields) <= MaxFields /\ MaxFields \in Nat
  BY LimitsAssumption DEF IInv, TypeOK, GlobalOK, FieldOK, Table, Entries
<1> QED
  BY <1>1 DEF Room

\* The usage of a field.
LEMMA UsageTyped ==
    ASSUME IInv, NEW i \in Items, NEW n \in Nat \ {0}
    PROVE  UsageOf(i, n) \in Int \X Int
<1>1. /\ usages \in Seq(Nat) /\ usage_range \in Nat \X Nat /\ table["page"] \in Int
  BY DEF IInv, TypeOK, GlobalOK, LocalOK, Table, Entries
<1>2. NextInRange(i, n) \in Int
  BY <1>1 DEF NextInRange
<1>3. ASSUME usages # <<>> PROVE NextUsage(i, n) \in Int
  <2>1. Last(usages) \in Nat
    BY <1>1, <1>3, LastProperties
  <2>2. CASE IsArray(i)
    BY <1>1, <2>1, <2>2 DEF NextUsage
  <2>3. CASE ~IsArray(i)
    BY <1>1, <2>1, <2>3 DEF NextUsage
  <2> QED
    BY <2>2, <2>3
<1> QED
  BY <1>1, <1>2, <1>3 DEF UsageOf

\* The fields that a main item adds, of its type and for the current report.
LEMMA FieldTyped ==
    ASSUME IInv, NEW i \in Items, Tag(i) \in NodeTypes, NEW n \in Nat \ {0}
    PROVE  /\ Field(i, n) \in FieldSpace
           /\ Field(i, n).report_id = report_ids[table["report_ids_index"]]
           /\ Field(i, n).type = Tag(i)
<1>1. report_ids[table["report_ids_index"]] \in 0..255
  <2>1. report_ids \in Seq(0..255)
    BY DEF IInv, TypeOK, FieldOK
  <2>2. table["report_ids_index"] \in DOMAIN report_ids
    BY DEF IInv, IdsInv
  <2> QED
    BY <2>1, <2>2
<1>2. \A e \in Entries : table[e] \in Int
  BY DEF IInv, TypeOK, GlobalOK, Table
<1>3. /\ table["logical_min"] \in Int /\ table["logical_max"] \in Int
      /\ table["physical_min"] \in Int /\ table["physical_max"] \in Int
      /\ table["unit"] \in Int /\ table["exp"] \in Int /\ table["bit_sz"] \in Int
  BY <1>2 DEF Entries
<1>4. PhysicalRange \in Int \X Int
  BY <1>3 DEF PhysicalRange
<1>5. LastStarted \in Index
  BY LimitsAssumption DEF IInv, TypeOK, CollOK, Index, LastStarted
<1>6. IsArray(i) \in BOOLEAN
  BY DEF IsArray
<1>7. UsageOf(i, n) \in Int \X Int
  BY UsageTyped
<1>8. /\ <<table["logical_min"], table["logical_max"]>> \in Int \X Int
      /\ <<table["unit"], table["exp"]>> \in Int \X Int
  BY <1>3
<1>9. Field(i, n) \in FieldSpace
  BY <1>1, <1>3, <1>4, <1>5, <1>6, <1>7, <1>8 DEF Field, FieldSpace
<1>10. /\ Field(i, n).report_id = report_ids[table["report_ids_index"]]
       /\ Field(i, n).type = Tag(i)
  BY DEF Field
<1> QED
  BY <1>9, <1>10

\* What add_field() adds: fields of the current report as far as there is room for them,
\* and to its count all of them.
LEMMA AddFieldAdds ==
    ASSUME IInv, NEW i \in Items, Tag(i) \in NodeTypes,
           fields' = fields \o [n \in 1..Room |-> Field(i, n)],
           CountFields(Tag(i)), UNCHANGED report_ids
    PROVE  /\ Room \in Nat /\ Room <= table["report_count"]
           /\ Len(fields) \in Nat /\ Len(fields) + Room <= MaxFields
           /\ table["report_count"] \in Nat /\ table["report_ids_index"] \in DOMAIN report_ids
           /\ fields' \in Seq(FieldSpace) /\ Len(fields') = Len(fields) + Room
           /\ \A n \in 1..Len(fields) : fields'[n] = fields[n]
           /\ \A n \in (Len(fields) + 1)..(Len(fields) + Room) :
                 /\ fields'[n].report_id = report_ids[table["report_ids_index"]]
                 /\ fields'[n].type = Tag(i)
           /\ counts' \in Seq([NodeTypes -> Nat]) /\ Len(counts') = Len(counts)
           /\ \A k \in DOMAIN report_ids, t \in NodeTypes :
                 counts'[k][t] = IF k = table["report_ids_index"] /\ t = Tag(i)
                                 THEN counts[k][t] + table["report_count"] ELSE counts[k][t]
<1> DEFINE old == Len(fields)
           here == table["report_ids_index"]
           added == [n \in 1..Room |-> Field(i, n)]
<1>1. /\ Room \in Nat /\ Room <= table["report_count"] /\ old + Room <= MaxFields
      /\ table["report_count"] \in Nat /\ old \in Nat
  BY RoomBound
<1>2. /\ fields \in Seq(FieldSpace) /\ counts \in Seq([NodeTypes -> Nat])
      /\ enclosing \in Seq(Index) /\ report_ids \in Seq(0..255)
      /\ Len(counts) = Len(report_ids) /\ here \in DOMAIN report_ids
  BY DEF IInv, TypeOK, FieldOK, IdsInv
<1>3. \A n \in 1..Room : /\ Field(i, n) \in FieldSpace
                         /\ Field(i, n).report_id = report_ids[here]
                         /\ Field(i, n).type = Tag(i)
  BY <1>1, FieldTyped
<1>4. /\ added \in Seq(FieldSpace) /\ Len(added) = Room
      /\ \A n \in 1..Room : added[n] = Field(i, n)
  BY <1>1, <1>3
<1> HIDE DEF added
<1>5. /\ fields' \in Seq(FieldSpace) /\ Len(fields') = old + Room
      /\ \A n \in 1..old : fields'[n] = fields[n]
      /\ \A n \in (old + 1)..(old + Room) : fields'[n] = added[n - old]
  <2>1. fields' = fields \o added
    BY DEF added
  <2>2. fields' \in Seq(FieldSpace)
    BY ONLY <1>2, <1>4, <2>1
  <2>3. Len(fields') = old + Room
    <3>1. Len(fields \o added) = Len(fields) + Len(added)
      BY <1>2, <1>4, ConcatProperties
    <3> QED
      BY <1>4, <2>1, <3>1, Zenon
  <2>4. \A n \in 1..(old + Room) :
           fields'[n] = IF n <= old THEN fields[n] ELSE added[n - old]
    BY <1>1, <1>2, <1>4, <2>1
  <2>5. \A n \in 1..old : fields'[n] = fields[n]
    BY <1>1, <2>4
  <2>6. \A n \in (old + 1)..(old + Room) : fields'[n] = added[n - old]
    BY <1>1, <2>4
  <2> QED
    BY <2>2, <2>3, <2>5, <2>6
<1>6. \A n \in (old + 1)..(old + Room) : /\ fields'[n].report_id = report_ids[here]
                                         /\ fields'[n].type = Tag(i)
  BY <1>1, <1>3, <1>4, <1>5
<1>7. /\ counts' \in Seq([NodeTypes -> Nat]) /\ Len(counts') = Len(counts)
      /\ \A k \in DOMAIN report_ids, t \in NodeTypes :
            counts'[k][t] = IF k = here /\ t = Tag(i)
                            THEN counts[k][t] + table["report_count"] ELSE counts[k][t]
  <2>1. DOMAIN counts = DOMAIN report_ids /\ counts[here] \in [NodeTypes -> Nat]
    BY <1>2
  <2>2. counts' = [counts EXCEPT ![here][Tag(i)] = @ + table["report_count"]]
    BY DEF CountFields
  <2>3. [counts[here] EXCEPT ![Tag(i)] = @ + table["report_count"]] \in [NodeTypes -> Nat]
    <3>1. counts[here][Tag(i)] + table["report_count"] \in Nat
      BY <1>1, <2>1
    <3> HIDE DEF here
    <3> QED
      BY <2>1, <3>1
  <2>4. counts' = [counts EXCEPT ![here] =
                      [counts[here] EXCEPT ![Tag(i)] = @ + table["report_count"]]]
    BY <2>2
  <2>5. counts' \in Seq([NodeTypes -> Nat]) /\ Len(counts') = Len(counts)
    BY <1>2, <2>3, <2>4
  <2>6. ASSUME NEW k \in DOMAIN report_ids, NEW t \in NodeTypes
        PROVE  counts'[k][t] = IF k = here /\ t = Tag(i)
                            THEN counts[k][t] + table["report_count"] ELSE counts[k][t]
    BY <1>2, <2>1, <2>4
  <2> QED
    BY <2>5, <2>6
<1> QED
  BY <1>1, <1>2, <1>5, <1>6, <1>7

\* By how much the fields of a report become more.
LEMMA HeldAdded ==
    ASSUME IInv, NEW i \in Items, Tag(i) \in NodeTypes,
           fields' = fields \o [n \in 1..Room |-> Field(i, n)],
           CountFields(Tag(i)), UNCHANGED report_ids,
           NEW k \in DOMAIN report_ids, NEW t \in NodeTypes
    PROVE  /\ Cardinality(HeldAt(k, t)) \in Nat
           /\ Cardinality(HeldAt(k, t)') =
                 Cardinality(HeldAt(k, t))
                 + (IF k = table["report_ids_index"] /\ t = Tag(i) THEN Room ELSE 0)
<1> DEFINE H == HeldAt(k, t)
           old == Len(fields)
           here == table["report_ids_index"]
           N == (old + 1)..(old + Room)
<1>1. /\ Room \in Nat /\ old \in Nat /\ here \in DOMAIN report_ids
      /\ fields' \in Seq(FieldSpace) /\ Len(fields') = old + Room
      /\ \A n \in 1..old : fields'[n] = fields[n]
      /\ \A n \in N : fields'[n].report_id = report_ids[here] /\ fields'[n].type = Tag(i)
  BY AddFieldAdds
<1>2. DOMAIN fields = 1..old /\ DOMAIN fields' = 1..(old + Room)
  BY <1>1 DEF IInv, TypeOK, FieldOK
<1>3. IsFiniteSet(H) /\ Cardinality(H) \in Nat
  <2>1. H \subseteq 1..old
    BY <1>2 DEF HeldAt
  <2>2. IsFiniteSet(1..old)
    BY <1>1, FS_Interval
  <2> QED
    BY <2>1, <2>2, FS_Subset, FS_CardinalityType
<1>4. \A n : n \in 1..(old + Room) <=> n \in 1..old \/ n \in N
  BY <1>1
<1>5. CASE k = here /\ t = Tag(i)
  <2>1. HeldAt(k, t)' = H \cup N
    <3>1. HeldAt(k, t)' = {n \in 1..(old + Room) : fields'[n].report_id = report_ids[k]
                                                  /\ fields'[n].type = t}
      BY <1>2 DEF HeldAt
    <3>2. \A n \in 1..old : n \in HeldAt(k, t)' <=> n \in H
      BY <1>1, <1>2, <1>4, <3>1 DEF HeldAt
    <3>3. \A n \in N : n \in HeldAt(k, t)'
      BY <1>1, <1>4, <1>5, <3>1
    <3>4. H \subseteq 1..old /\ HeldAt(k, t)' \subseteq 1..(old + Room)
      BY <1>2, <3>1 DEF HeldAt
    <3> HIDE DEF H
    <3> QED
      BY <1>4, <3>2, <3>3, <3>4
  <2>2. H \cap N = {}
    BY <1>1, <1>2 DEF HeldAt
  <2>3. IsFiniteSet(N) /\ Cardinality(N) = Room
    <3>1. /\ IsFiniteSet(N)
          /\ Cardinality(N) = IF old + 1 > old + Room THEN 0 ELSE (old + Room) - (old + 1) + 1
      <4>1. old + 1 \in Int /\ old + Room \in Int
        BY <1>1
      <4> QED
        BY <4>1, FS_Interval
    <3> QED
      BY <1>1, <3>1
  <2>4. Cardinality(H \cup N) = Cardinality(H) + Cardinality(N) - Cardinality(H \cap N)
    BY <1>3, <2>3, FS_Union
  <2>5. Cardinality(H \cap N) = 0
    BY <2>2, FS_EmptySet
  <2> QED
    BY <1>1, <1>3, <1>5, <2>1, <2>3, <2>4, <2>5
<1>6. CASE ~(k = here /\ t = Tag(i))
  <2>1. \A n \in N : ~(fields'[n].report_id = report_ids[k] /\ fields'[n].type = t)
    BY <1>1, <1>6 DEF IInv, IdsInv
  <2>2. HeldAt(k, t)' = H
    BY <1>1, <1>2, <1>4, <2>1 DEF HeldAt
  <2> QED
    BY <1>3, <1>6, <2>2
<1> QED
  BY <1>5, <1>6

\* add_field(): every new field is counted for the identifier and the type it has.
LEMMA AddFieldKeeps ==
    ASSUME IInv, NEW i \in Items, AddField(i)
    PROVE  IInv'
<1> DEFINE old == Len(fields)
           here == table["report_ids_index"]
           added == [n \in 1..Room |-> Field(i, n)]
<1>1. read' \in 0..MaxItems
  BY ReadBound DEF AddField
<1>2. CASE \E code \in Results : Reject(code)
  BY <1>1, <1>2, RejectKeeps
<1>3. CASE /\ Tag(i) \in NodeTypes
           /\ fields' = fields \o added
           /\ enclosing' = enclosing \o [n \in 1..Room |-> Enclosing]
           /\ CountFields(Tag(i))
           /\ ResetUsage
           /\ Accept
           /\ UNCHANGED <<globalVars, collVars, report_ids>>
  <2>1. /\ Room \in Nat /\ Room <= table["report_count"] /\ old + Room <= MaxFields
        /\ table["report_count"] \in Nat /\ old \in Nat
    BY <1>3, AddFieldAdds
  <2>2. /\ fields \in Seq(FieldSpace) /\ counts \in Seq([NodeTypes -> Nat])
        /\ enclosing \in Seq(Index) /\ report_ids \in Seq(0..255)
        /\ Len(counts) = Len(report_ids) /\ here \in DOMAIN report_ids
    BY DEF IInv, TypeOK, FieldOK, IdsInv
  <2>5. /\ fields' \in Seq(FieldSpace) /\ Len(fields') = old + Room
        /\ \A n \in 1..old : fields'[n] = fields[n]
        /\ \A n \in (old + 1)..(old + Room) : fields'[n].report_id = report_ids[here]
    BY <1>3, AddFieldAdds
  <2>7. enclosing' \in Seq(Index)
    <3>1. Enclosing \in Index
      BY LimitsAssumption DEF IInv, NestingKept, TypeOK, CollOK, Index
    <3>2. [n \in 1..Room |-> Enclosing] \in Seq(Index)
      BY <2>1, <3>1
    <3> QED
      BY <1>3, <2>2, <3>2
  <2>8. /\ counts' \in Seq([NodeTypes -> Nat]) /\ Len(counts') = Len(counts)
        /\ \A k \in DOMAIN report_ids, t \in NodeTypes :
              counts'[k][t] = IF k = here /\ t = Tag(i)
                              THEN counts[k][t] + table["report_count"] ELSE counts[k][t]
    BY <1>3, AddFieldAdds
  <2>9. FieldOK'
    BY <1>3, <2>1, <2>2, <2>5, <2>7, <2>8 DEF FieldOK
  <2>10. \A n \in DOMAIN fields' : \E k \in DOMAIN report_ids : fields'[n].report_id = report_ids[k]
    <3> SUFFICES ASSUME NEW n \in DOMAIN fields'
                 PROVE  \E k \in DOMAIN report_ids : fields'[n].report_id = report_ids[k]
      OBVIOUS
    <3>1. n \in 1..old \/ n \in (old + 1)..(old + Room)
      BY <2>1, <2>5
    <3>2. CASE n \in 1..old
      BY <2>2, <2>5, <3>2 DEF IInv, IdsInv
    <3>3. CASE n \in (old + 1)..(old + Room)
      BY <2>2, <2>5, <3>3
    <3> QED
      BY <3>1, <3>2, <3>3
  <2>11. IdsInv'
    BY <1>3, <2>8, <2>10 DEF IInv, IdsInv, globalVars
  <2>12. ASSUME NEW k \in DOMAIN report_ids, NEW t \in NodeTypes
         PROVE  HasRoom(k, t)'
    <3>1. /\ Cardinality(HeldAt(k, t)) \in Nat
          /\ Cardinality(HeldAt(k, t)') =
                Cardinality(HeldAt(k, t)) + (IF k = here /\ t = Tag(i) THEN Room ELSE 0)
      BY <1>3, HeldAdded
    <3>2. Cardinality(HeldAt(k, t)) <= counts[k][t] /\ counts[k][t] \in Nat
      BY <2>2 DEF IInv, CountsCover, HasRoom
    <3> QED
      BY <2>1, <2>8, <3>1, <3>2 DEF HasRoom
  <2>13. CountsCover'
    BY <1>3, <2>12 DEF CountsCover
  <2> QED
    BY <1>1, <1>3, <2>9, <2>11, <2>13, Frames, ResetUsageKeeps DEF Accept, IInv, TypeOK
<1> QED
  BY <1>2, <1>3 DEF AddField, Results

-------------------------------------------------------------------------------
(* The invariant and the theorems.                                         *)

\* A new parser: one report, the null one, and nothing else.
LEMMA InitEstablishes == Init => IInv
<1> SUFFICES ASSUME Init PROVE IInv
  OBVIOUS
<1> DEFINE zero == [t \in NodeTypes |-> 0]
<1>1. table \in Table /\ table["report_ids_index"] = 1
  <2>1. table = [e \in Entries |-> IF e = "report_ids_index" THEN 1 ELSE 0]
    BY DEF Init
  <2> QED
    BY <2>1 DEF Table, Entries
<1>2. GlobalOK
  BY <1>1, LimitsAssumption DEF Init, GlobalOK
<1>3. LocalOK
  BY LimitsAssumption DEF Init, LocalOK
<1>4. CollOK
  BY LimitsAssumption DEF Init, CollOK
<1>5. zero \in [NodeTypes -> Nat] /\ \A t \in NodeTypes : zero[t] = 0
  OBVIOUS
<1>6. counts = <<zero>> /\ report_ids = <<0>> /\ fields = <<>>
  BY DEF Init
<1> HIDE DEF zero
<1>7. FieldOK
  <2>1. counts \in Seq([NodeTypes -> Nat]) /\ report_ids \in Seq(0..255)
    BY <1>5, <1>6
  <2>2. fields \in Seq(FieldSpace) /\ enclosing \in Seq(Index)
    BY DEF Init
  <2>3. Len(fields) <= MaxFields
    BY LimitsAssumption, <1>6
  <2> QED
    BY <2>1, <2>2, <2>3 DEF FieldOK
<1>8. NestingKept
  BY DEF Init, NestingKept, Enclosing
<1>9. IdsInv
  BY <1>1, <1>6 DEF Init, IdsInv
<1>10. CountsCover
  <2> SUFFICES ASSUME NEW k \in DOMAIN report_ids, NEW t \in NodeTypes PROVE HasRoom(k, t)
    BY DEF CountsCover
  <2>1. k = 1 /\ counts[k][t] = 0
    BY <1>5, <1>6
  <2>2. HeldAt(k, t) = {}
    BY <1>6 DEF HeldAt
  <2> QED
    BY <2>1, <2>2, FS_EmptySet DEF HasRoom
<1>11. read \in 0..MaxItems /\ result \in Results
  BY LimitsAssumption DEF Init, Results
<1> QED
  BY <1>2, <1>3, <1>4, <1>7, <1>8, <1>9, <1>10, <1>11 DEF IInv, TypeOK

\* Finish() changes the result only.
LEMMA FinishKeeps ==
    ASSUME IInv, Finish
    PROVE  IInv'
<1>1. result' \in Results /\ read' = read
  BY DEF Finish, Results
<1> QED
  BY <1>1, Frames DEF Finish, IInv, TypeOK

\* Every global item keeps the invariant.
LEMMA GlobalItemKeeps ==
    ASSUME IInv, NEW i \in Items, GlobalItem(i)
    PROVE  IInv'
<1>1. i.data \in Nat /\ SignedData(i) \in Int
  BY ItemTyped
<1>2. \A e \in Entries : table[e] \in Int
  BY DEF IInv, TypeOK, GlobalOK, Table
<1>3. CASE SetUsagePage(i)
  BY <1>3, ReadBound, SetUpToKeeps DEF SetUsagePage, Results, Entries
<1>4. CASE SetReportSize(i)
  BY <1>4, ReadBound, SetUpToKeeps DEF SetReportSize, Results, Entries
<1>5. CASE SetReportCount(i)
  BY <1>5, ReadBound, SetUpToKeeps DEF SetReportCount, Results, Entries
<1>6. CASE SetReportId(i)
  BY <1>6, SetReportIdKeeps
<1>7. CASE SetLogicalMin(i)
  BY <1>1, <1>7, ReadBound, SetKeeps DEF SetLogicalMin, Entries
<1>8. CASE SetLogicalMax(i)
  <2>1. MaximumFor("logical_min", i) \in Int
    BY <1>1 DEF MaximumFor
  <2> QED
    BY <1>8, <2>1, ReadBound, SetKeeps DEF SetLogicalMax, Entries
<1>9. CASE SetPhysicalMin(i)
  BY <1>1, <1>9, ReadBound, SetKeeps DEF SetPhysicalMin, Entries
<1>10. CASE SetPhysicalMax(i)
  <2>1. MaximumFor("physical_min", i) \in Int
    BY <1>1 DEF MaximumFor
  <2> QED
    BY <1>10, <2>1, ReadBound, SetKeeps DEF SetPhysicalMax, Entries
<1>11. CASE SetUnit(i)
  BY <1>1, <1>11, ReadBound, SetKeeps DEF SetUnit, Entries
<1>12. CASE SetUnitExp(i)
  <2> DEFINE byte == i.data % 256
  <2>1. (IF byte > 7 THEN byte - 16 ELSE byte) \in Int
    BY <1>1
  <2> QED
    BY <1>12, <2>1, ReadBound, SetKeeps DEF SetUnitExp, Entries
<1>13. CASE Push(i)
  BY <1>13, PushKeeps
<1>14. CASE Pop(i)
  BY <1>14, PopKeeps
<1> QED
  BY <1>3, <1>4, <1>5, <1>6, <1>7, <1>8, <1>9, <1>10, <1>11, <1>12, <1>13, <1>14
     DEF GlobalItem

\* Every step keeps the invariant.
LEMMA NextKeeps == IInv /\ [Next]_vars => IInv'
<1> SUFFICES ASSUME IInv, [Next]_vars PROVE IInv'
  OBVIOUS
<1>1. ASSUME NEW i \in Items, MainItem(i) PROVE IInv'
  BY <1>1, StartCollectionKeeps, EndCollectionKeeps, AddFieldKeeps DEF MainItem
<1>2. ASSUME NEW i \in Items, GlobalItem(i) PROVE IInv'
  BY <1>2, GlobalItemKeeps
<1>3. ASSUME NEW i \in Items, LocalItem(i) PROVE IInv'
  <2>1. CASE AddUsage(i)
    BY <2>1, AddUsageKeeps
  <2>2. CASE SetUsageMin(i)
    BY <2>2, ReadBound, SetUsageBoundKeeps DEF SetUsageMin
  <2>3. CASE SetUsageMax(i)
    BY <2>3, ReadBound, SetUsageBoundKeeps DEF SetUsageMax
  <2> QED
    BY <1>3, <2>1, <2>2, <2>3 DEF LocalItem
<1>4. ASSUME NEW i \in Items, RejectItem(i) PROVE IInv'
  <2>1. read' \in 0..MaxItems
    BY <1>4, ReadBound DEF RejectItem
  <2>2. \E code \in Results : Reject(code)
    BY <1>4 DEF RejectItem, Results
  <2> QED
    BY <2>1, <2>2, RejectKeeps
<1>5. CASE RejectStream
  <2>1. read' \in 0..MaxItems
    BY <1>5 DEF RejectStream, IInv, TypeOK
  <2>2. \E code \in Results : Reject(code)
    BY <1>5 DEF RejectStream, Results
  <2> QED
    BY <2>1, <2>2, RejectKeeps
<1>6. CASE Finish
  BY <1>6, FinishKeeps
<1>7. CASE UNCHANGED vars
  <2>1. read' \in 0..MaxItems /\ result' \in Results
    BY <1>7 DEF vars, IInv, TypeOK
  <2> QED
    BY <1>7, <2>1, Frames DEF vars, IInv, TypeOK
<1> QED
  BY <1>1, <1>2, <1>3, <1>4, <1>5, <1>6, <1>7 DEF Next

\* IInv is an invariant.
LEMMA Invariance == Spec => []IInv
<1> QED
  BY InitEstablishes, NextKeeps, PTL DEF Spec

\* Every variable has its type; above all, no vector outgrows its limit and what
\* points to a collection points to one that is there.
THEOREM TypeCorrect == Spec => []TypeOK
<1>1. IInv => TypeOK
  BY DEF IInv
<1> QED
  BY Invariance, <1>1, PTL

\* start_collection() and end_collection() keep track of the nesting of any stream
\* without a stack, and parents are older than children, so that the loop of
\* GetAppCollection() ends.
THEOREM NestingIsKept == Spec => []NestingKept
<1>1. IInv => NestingKept
  BY DEF IInv
<1> QED
  BY Invariance, <1>1, PTL

\* The returns of kParseOverflow in Finish() (parser.cpp:284, 293, 302), which would leak
\* the packed memory, are never taken.  They compare with the counts, so this says nothing
\* about where the fields are put when the counts are too high.
THEOREM FinishNeverOverflows == Spec => [][Finish => result' # "overflow"]_vars
<1>1. IInv /\ Finish => result' # "overflow"
  <2> SUFFICES ASSUME IInv, Finish PROVE result' # "overflow"
    OBVIOUS
  <2>1. Reports \subseteq DOMAIN report_ids
    <3>1. report_ids \in Seq(0..255) /\ Len(report_ids) \in Nat
      BY DEF IInv, TypeOK, FieldOK
    <3> QED
      BY <3>1 DEF Reports, NoReportId
  <2>2. \A k \in Reports, t \in NodeTypes : HasRoom(k, t)
    BY <2>1 DEF IInv, CountsCover
  <2> QED
    BY <2>2 DEF Finish
<1> QED
  BY Invariance, <1>1, PTL

-------------------------------------------------------------------------------
(* Induction. A set takes the place of the predicate.                      *)

LEMMA SetInduction ==
    ASSUME NEW S, 0 \in S, \A n \in Nat : n \in S => n + 1 \in S
    PROVE  Nat \subseteq S
<1> DEFINE T == Nat \ S
<1> DEFINE R == OpToRel(<, Nat)
<1>1. SUFFICES ASSUME T # {} PROVE FALSE
  BY Zenon
<1>2. IsWellFoundedOn(R, Nat)
  BY NatLessThanWellFounded, Zenon
<1>3. \A x, y \in Nat : x < y => <<x, y>> \in R
  BY Zenon DEF OpToRel
<1> HIDE DEF R
<1>4. PICK x \in T : \A y \in T : ~ (<<y, x>> \in R)
  <2>1. T \subseteq Nat
    OBVIOUS
  <2> HIDE DEF T
  <2> QED
    BY <1>1, <1>2, <2>1, WFMin
<1>5. x \in Nat /\ x # 0
  OBVIOUS
<1>6. x - 1 \in Nat /\ x - 1 < x /\ (x - 1) + 1 = x
  BY <1>5
<1>7. x - 1 \notin T
  BY <1>3, <1>4, <1>5, <1>6
<1> QED
  BY <1>5, <1>6, <1>7

-------------------------------------------------------------------------------
(* Ancestors.                                                              *)

\* No collection after c, up to d, has no parent.
NoRootIn(colls, c, d) == \A e \in c + 1 .. d : colls[e].parent # 0

\* The collections that no other one encloses cut coll_ into pieces: a collection and
\* its parent are in the same piece, and so are the open collection and the last one,
\* and the collection a field was declared in and the one it refers to.
AncestryInv ==
    /\ \A c \in DOMAIN coll : coll[c].parent # 0 => NoRootIn(coll, coll[c].parent, c)
    /\ parent_coll # 0 => NoRootIn(coll, parent_coll, Len(coll))
    /\ Len(enclosing) = Len(fields)
    /\ \A n \in DOMAIN fields :
         /\ fields[n].col \in 0 .. Len(coll)
         /\ enclosing[n] # 0 => /\ enclosing[n] <= fields[n].col
                                /\ NoRootIn(coll, enclosing[n], fields[n].col)

LEMMA InitAncestry == Init => AncestryInv
  BY DEF Init, AncestryInv

LEMMA CollectionSteps ==
    ASSUME [Next]_vars
    PROVE  \/ UNCHANGED <<coll, parent_coll, fields, enclosing>>
           \/ \E i \in Items : StartCollection(i) \/ EndCollection(i) \/ AddField(i)
<1> USE DEF Reject, collVars, fieldVars
<1>1. ASSUME NEW i \in Items, GlobalItem(i)
      PROVE  UNCHANGED <<coll, parent_coll, fields, enclosing>>
  BY <1>1 DEF GlobalItem, SetUsagePage, SetReportSize, SetReportCount, SetReportId,
     SetLogicalMin, SetLogicalMax, SetPhysicalMin, SetPhysicalMax, SetUnit, SetUnitExp,
     Push, Pop, SetUpTo, Set
<1>2. ASSUME NEW i \in Items, LocalItem(i)
      PROVE  UNCHANGED <<coll, parent_coll, fields, enclosing>>
  BY <1>2 DEF LocalItem, AddUsage, SetUsageMin, SetUsageMax, SetUsageBound
<1>3. ASSUME NEW i \in Items, RejectItem(i)
      PROVE  UNCHANGED <<coll, parent_coll, fields, enclosing>>
  BY <1>3 DEF RejectItem
<1>4. CASE RejectStream \/ Finish \/ UNCHANGED vars
  BY <1>4 DEF RejectStream, Finish, vars
<1> QED
  BY <1>1, <1>2, <1>3, <1>4 DEF Next, MainItem

LEMMA StartAncestry ==
    ASSUME IInv, AncestryInv, NEW i \in Items, StartCollection(i)
    PROVE  AncestryInv'
<1>1. CASE \E code \in Results : Reject(code)
  BY <1>1 DEF Reject, collVars, fieldVars, AncestryInv, NoRootIn
<1>2. CASE ~(\E code \in Results : Reject(code))
  <2>0. PICK new, here : here = Len(coll) + 1 /\ coll' = Append(coll, new)
                   /\ new.parent = parent_coll /\ parent_coll' = here
                   /\ UNCHANGED <<fields, enclosing>>
    BY <1>2 DEF StartCollection, Results, fieldVars
  <2>1. /\ coll \in Seq(Collection) /\ Len(coll) \in Nat /\ parent_coll \in 0..Len(coll)
        /\ fields \in Seq(FieldSpace)
    BY DEF IInv, TypeOK, CollOK, FieldOK
  <2>2. /\ Len(coll') = here /\ DOMAIN coll' = 1..here /\ DOMAIN coll = 1..Len(coll)
        /\ \A c \in 1..Len(coll) : coll'[c] = coll[c]
        /\ coll'[here].parent = parent_coll
    BY <2>0, <2>1
  <2>3. ASSUME NEW c \in 0..Len(coll), NEW d \in 0..Len(coll), NoRootIn(coll, c, d)
        PROVE  NoRootIn(coll', c, d)
    BY <2>1, <2>2, <2>3 DEF NoRootIn
  <2>4. ASSUME NEW c \in DOMAIN coll', coll'[c].parent # 0
        PROVE  NoRootIn(coll', coll'[c].parent, c)
    <3>1. CASE c \in 1..Len(coll)
      <4>1. coll'[c].parent = coll[c].parent /\ coll[c].parent \in 0..Len(coll)
        <5>1. coll[c] \in Collection /\ coll[c].parent < c
          BY <2>1, <2>2, <3>1 DEF IInv, NestingKept
        <5>2. coll[c].parent \in Nat
          BY <5>1, LimitsAssumption DEF Collection, Index
        <5> QED
          BY <2>1, <2>2, <3>1, <5>1, <5>2
      <4>2. NoRootIn(coll, coll[c].parent, c)
        BY <2>2, <2>4, <3>1, <4>1 DEF AncestryInv
      <4>3. PICK p : p = coll[c].parent
        OBVIOUS
      <4>4. NoRootIn(coll', p, c)
        BY <2>1, <2>3, <3>1, <4>1, <4>2, <4>3
      <4> QED
        BY <4>1, <4>3, <4>4
    <3>2. CASE c = here
      <4>1. coll'[c].parent = parent_coll /\ parent_coll # 0
        BY <2>2, <2>4, <3>2
      <4>2. \A e \in parent_coll + 1 .. Len(coll) : coll[e].parent # 0
        BY <4>1 DEF AncestryInv, NoRootIn
      <4>3. \A e \in parent_coll + 1 .. here : coll'[e].parent # 0
        BY <2>0, <2>1, <2>2, <4>1, <4>2
      <4> QED
        BY <3>2, <4>1, <4>3 DEF NoRootIn
    <3> QED
      BY <2>0, <2>1, <2>2, <3>1, <3>2
  <2>5. NoRootIn(coll', here, here)
    BY <2>0, <2>1 DEF NoRootIn
  <2>6. ASSUME NEW n \in DOMAIN fields
        PROVE  /\ fields[n].col \in 0 .. here
               /\ enclosing[n] # 0 => /\ enclosing[n] <= fields[n].col
                                      /\ NoRootIn(coll', enclosing'[n], fields'[n].col)
    <3>1. PICK c, d : c = enclosing[n] /\ d = fields[n].col
      OBVIOUS
    <3>2. d \in 0..Len(coll) /\ (c # 0 => c <= d /\ NoRootIn(coll, c, d))
      <4>1. /\ fields[n].col \in 0..Len(coll)
            /\ enclosing[n] # 0 => /\ enclosing[n] <= fields[n].col
                                   /\ NoRootIn(coll, enclosing[n], fields[n].col)
        BY DEF AncestryInv
      <4> QED
        BY ONLY <3>1, <4>1
    <3>3. c \in Nat
      BY <2>1, <3>1, LimitsAssumption DEF AncestryInv, IInv, TypeOK, FieldOK, Index
    <3>4. c # 0 => NoRootIn(coll', c, d)
      <4> SUFFICES ASSUME c # 0 PROVE NoRootIn(coll', c, d)
        OBVIOUS
      <4>1. c \in 0..Len(coll)
        BY ONLY <2>1, <3>2, <3>3, c # 0
      <4> QED
        BY <2>3, <3>2, <4>1
    <3>5. c # 0 => NoRootIn(coll', enclosing'[n], fields'[n].col)
      BY <2>0, <3>1, <3>4
    <3>6. d \in 0 .. here
      BY <2>0, <2>1, <3>2
    <3> QED
      BY <3>1, <3>2, <3>5, <3>6
  <2> QED
    BY <2>0, <2>2, <2>4, <2>5, <2>6 DEF AncestryInv
<1> QED
  BY <1>1, <1>2

LEMMA EndAncestry ==
    ASSUME IInv, AncestryInv, NEW i \in Items, EndCollection(i)
    PROVE  AncestryInv'
<1>1. CASE \E code \in Results : Reject(code)
  BY <1>1 DEF Reject, collVars, fieldVars, AncestryInv, NoRootIn
<1>2. CASE ~(\E code \in Results : Reject(code))
  <2>1. /\ parent_coll # 0 /\ parent_coll' = coll[parent_coll].parent
        /\ UNCHANGED <<coll, fields, enclosing>>
    BY <1>2 DEF EndCollection, Results, fieldVars
  <2>2. coll \in Seq(Collection) /\ parent_coll \in 1..Len(coll) /\ Len(coll) \in Nat
    BY <2>1 DEF IInv, TypeOK, CollOK
  <2>3. parent_coll' \in Nat /\ DOMAIN coll = 1..Len(coll)
    <3>1. coll[parent_coll] \in Collection
      BY <2>2
    <3>2. coll[parent_coll].parent \in Nat
      BY <3>1, LimitsAssumption DEF Collection, Index
    <3> QED
      BY <2>1, <2>2, <3>2
  <2>4. ASSUME parent_coll' # 0, NEW e \in parent_coll' + 1 .. Len(coll)
        PROVE  coll[e].parent # 0
    <3>1. \A f \in parent_coll' + 1 .. parent_coll : coll[f].parent # 0
      BY <2>1, <2>2, <2>3, <2>4 DEF AncestryInv, NoRootIn
    <3>2. \A f \in parent_coll + 1 .. Len(coll) : coll[f].parent # 0
      BY <2>1 DEF AncestryInv, NoRootIn
    <3> QED
      <4>1. e \in parent_coll' + 1 .. parent_coll \/ e \in parent_coll + 1 .. Len(coll)
        <5>1. PICK p \in Nat, q \in Nat, L \in Nat :
                 p = parent_coll' /\ q = parent_coll /\ L = Len(coll) /\ q <= L
          <6>1. parent_coll' \in Nat /\ parent_coll \in Nat /\ Len(coll) \in Nat
                /\ parent_coll <= Len(coll)
            BY <2>2, <2>3
          <6> QED
            BY ONLY <6>1
        <5>2. e \in p + 1 .. L => e \in p + 1 .. q \/ e \in q + 1 .. L
          OBVIOUS
        <5> QED
          BY <5>1, <5>2
      <4> QED
        BY <3>1, <3>2, <4>1
  <2> QED
    BY <2>1, <2>4 DEF AncestryInv, NoRootIn
<1> QED
  BY <1>1, <1>2

LEMMA AddAncestry ==
    ASSUME IInv, AncestryInv, NEW i \in Items, AddField(i)
    PROVE  AncestryInv'
<1>1. CASE \E code \in Results : Reject(code)
  BY <1>1 DEF Reject, collVars, fieldVars, AncestryInv, NoRootIn
<1>2. CASE ~(\E code \in Results : Reject(code))
  <2>0. PICK added, more, old, room :
            /\ added = [n \in 1..room |-> Field(i, n)] /\ more = [n \in 1..room |-> Enclosing]
            /\ fields' = fields \o added /\ enclosing' = enclosing \o more
            /\ old = Len(fields) /\ room = Room
    BY <1>2 DEF AddField, Results
  <2>1. UNCHANGED <<coll, parent_coll>> /\ Tag(i) \in NodeTypes
    BY <1>2 DEF AddField, Results, collVars
  <2>2. /\ old \in Nat /\ room \in Nat
        /\ fields \in Seq(FieldSpace) /\ enclosing \in Seq(Index) /\ Len(enclosing) = old
        /\ Enclosing = parent_coll /\ parent_coll \in 0..Len(coll) /\ Len(coll) \in Nat
    BY <2>0, RoomBound DEF IInv, TypeOK, FieldOK, CollOK, NestingKept, AncestryInv
  <2>3. /\ added \in Seq(FieldSpace) /\ Len(added) = room
        /\ \A n \in 1..room : added[n].col = Len(coll)
    <3>1. \A n \in 1..room : Field(i, n) \in FieldSpace /\ Field(i, n).col = Len(coll)
      BY <2>1, <2>2, FieldTyped DEF Field, LastStarted
    <3> QED
      BY <2>0, <2>2, <3>1
  <2>4. /\ more \in Seq(Index) /\ Len(more) = room
        /\ \A n \in 1..room : more[n] = parent_coll
    <3>1. parent_coll \in Index
      BY <2>2, LimitsAssumption DEF IInv, TypeOK, CollOK, Index
    <3> QED
      BY <2>0, <2>2, <3>1
  <2>5. /\ Len(fields') = old + room /\ Len(enclosing') = old + room
        /\ DOMAIN fields' = 1..(old + room) /\ DOMAIN fields = 1..old
        /\ \A n \in 1..old : fields'[n] = fields[n] /\ enclosing'[n] = enclosing[n]
        /\ \A n \in (old + 1)..(old + room) : fields'[n] = added[n - old] /\ enclosing'[n] = more[n - old]
    BY <2>0, <2>2, <2>3, <2>4
  <2>6. ASSUME NEW n \in DOMAIN fields'
        PROVE  /\ fields'[n].col \in 0 .. Len(coll')
               /\ enclosing'[n] # 0 => /\ enclosing'[n] <= fields'[n].col
                                       /\ NoRootIn(coll', enclosing'[n], fields'[n].col)
    <3>1. CASE n \in 1..old
      BY <2>1, <2>5, <3>1 DEF AncestryInv, NoRootIn
    <3>2. CASE n \in (old + 1)..(old + room)
      <4>1. n - old \in 1..room
        BY <2>2, <3>2
      <4>2. fields'[n].col = Len(coll) /\ enclosing'[n] = parent_coll
        BY <2>3, <2>4, <2>5, <3>2, <4>1
      <4> QED
        BY <2>1, <2>2, <4>2 DEF AncestryInv, NoRootIn
    <3> QED
      BY <2>2, <2>5, <3>1, <3>2
  <2> QED
    BY <2>1, <2>5, <2>6 DEF AncestryInv, NoRootIn
<1> QED
  BY <1>1, <1>2

LEMMA AncestryStep ==
    ASSUME IInv, AncestryInv, [Next]_vars
    PROVE  AncestryInv'
<1>1. CASE UNCHANGED <<coll, parent_coll, fields, enclosing>>
  BY <1>1 DEF AncestryInv, NoRootIn
<1> QED
  BY <1>1, CollectionSteps, StartAncestry, EndAncestry, AddAncestry

LEMMA AncestryHolds == Spec => [](IInv /\ AncestryInv)
  BY InitEstablishes, NextKeeps, InitAncestry, AncestryStep, PTL DEF Spec

\* A function that is defined along parents, which come before their children, exists.
LEMMA AlongParents ==
    ASSUME NEW L \in Nat, NEW stop, NEW parent,
           \A c \in 1..L : c \notin stop => parent[c] \in 0 .. c - 1, 0 \in stop
    PROVE  \E g \in [0..L -> 0..L] :
              \A c \in 0..L : g[c] = IF c \in stop THEN c ELSE g[parent[c]]
<1> DEFINE Upto(n) == \E g \in [0..n -> 0..L] :
                         \A c \in 0..n : g[c] = IF c \in stop THEN c ELSE g[parent[c]]
<1> DEFINE S == {n \in Nat : n <= L => Upto(n)}
<1>1. 0 \in S
  <2> DEFINE g == [c \in 0..0 |-> c]
  <2>1. g \in [0..0 -> 0..L] /\ \A c \in 0..0 : g[c] = IF c \in stop THEN c ELSE g[parent[c]]
    OBVIOUS
  <2> HIDE DEF g
  <2>2. Upto(0)
    BY <2>1
  <2> QED
    BY <2>2
<1>2. ASSUME NEW n \in Nat, n \in S PROVE n + 1 \in S
  <2> SUFFICES ASSUME n + 1 <= L PROVE Upto(n + 1)
    OBVIOUS
  <2>1. PICK g \in [0..n -> 0..L] :
           \A c \in 0..n : g[c] = IF c \in stop THEN c ELSE g[parent[c]]
    BY <1>2
  <2> DEFINE h == [c \in 0 .. n + 1 |-> IF c \in stop THEN c ELSE g[parent[c]]]
  <2>2. \A c \in 0 .. n + 1 : c \notin stop => parent[c] \in 0..n
    OBVIOUS
  <2>3. h \in [0 .. n + 1 -> 0..L]
    BY <2>1, <2>2
  <2>4. \A c \in 0..n : h[c] = g[c]
    BY <2>1
  <2>5. \A c \in 0 .. n + 1 : h[c] = IF c \in stop THEN c ELSE h[parent[c]]
    BY <2>2, <2>4
  <2> HIDE DEF h
  <2> QED
    BY <2>3, <2>5
<1> HIDE DEF S
<1>3. Nat \subseteq S
  BY <1>1, <1>2, SetInduction
<1>4. L \in S
  BY <1>3
<1>5. Upto(L)
  BY <1>4 DEF S
<1> QED
  BY <1>5

\* What GetAppCollection() finds.
LEMMA AppUnfolds ==
    ASSUME IInv
    PROVE  \A c \in 0..Len(coll) :
              GetAppCollection[c] = IF c = 0 \/ coll[c].type = Application THEN c
                                    ELSE GetAppCollection[coll[c].parent]
<1>1. coll \in Seq(Collection) /\ Len(coll) \in Nat
  BY DEF IInv, TypeOK, CollOK
<1>2. \A c \in 1..Len(coll) : coll[c].parent \in 0 .. c - 1
  <2> SUFFICES ASSUME NEW c \in 1..Len(coll) PROVE coll[c].parent \in 0 .. c - 1
    OBVIOUS
  <2>1. coll[c].parent < c /\ coll[c] \in Collection
    BY <1>1 DEF IInv, NestingKept
  <2>2. coll[c].parent \in Nat
    BY <2>1, LimitsAssumption DEF Collection, Index
  <2> QED
    BY <2>1, <2>2
<1> DEFINE Is(g) == g = [c \in 0..Len(coll) |-> IF c = 0 \/ coll[c].type = Application THEN c
                                        ELSE g[coll[c].parent]]
<1>3. \E g : Is(g)
  <2>1. PICK L, stop, parent : /\ L = Len(coll)
                               /\ stop = {c \in 0..L : c = 0 \/ coll[c].type = Application}
                               /\ parent = [c \in 1..L |-> coll[c].parent]
    OBVIOUS
  <2>2. /\ L \in Nat /\ 0 \in stop
        /\ \A c \in 1..L : c \notin stop => parent[c] \in 0 .. c - 1
    BY <1>1, <1>2, <2>1
  <2>3. PICK g \in [0..L -> 0..L] :
           \A c \in 0..L : g[c] = IF c \in stop THEN c ELSE g[parent[c]]
    BY <2>2, AlongParents
  <2>4. \A c \in 0..L : /\ c \in stop <=> c = 0 \/ coll[c].type = Application
                        /\ c \notin stop => parent[c] = coll[c].parent
    BY <1>1, <2>1
  <2>5. g = [c \in 0..L |-> IF c = 0 \/ coll[c].type = Application THEN c
                             ELSE g[coll[c].parent]]
    BY <2>3, <2>4
  <2> QED
    BY <2>1, <2>5
<1>4. Is(GetAppCollection)
  BY <1>3, Zenon DEF GetAppCollection
<1> QED
  BY <1>4

\* Where applications are only at the top, the collections of a piece have the same one.
LEMMA SamePiece ==
    ASSUME IInv, AncestryInv,
           \A c \in DOMAIN coll : coll[c].type = Application => coll[c].parent = 0,
           NEW d \in 1..Len(coll), NEW c \in 1..d, NoRootIn(coll, c, d)
    PROVE  GetAppCollection[c] = GetAppCollection[d]
<1>0. PICK L, app : L = Len(coll) /\ app = GetAppCollection
  OBVIOUS
<1>1. L \in Nat /\ DOMAIN coll = 1..L /\ coll \in Seq(Collection)
  BY <1>0 DEF IInv, TypeOK, CollOK
<1> DEFINE Same(e) == \A b \in 1..e : NoRootIn(coll, b, e) => app[b] = app[e]
<1> DEFINE S == {n \in Nat : \A e \in 1..L : e <= n => Same(e)}
<1>2. 0 \in S
  BY <1>1
<1>3. ASSUME NEW n \in Nat, n \in S PROVE n + 1 \in S
  <2> SUFFICES ASSUME n + 1 \in 1..L, NEW b \in 1 .. n + 1, NoRootIn(coll, b, n + 1)
               PROVE  app[b] = app[n + 1]
    BY <1>1, <1>3
  <2>1. CASE b = n + 1
    BY <2>1
  <2>2. CASE b # n + 1
    <3>0. b \in 1..n /\ b \in Nat
      BY <2>2
    <3>1. PICK p : p = coll[n + 1].parent
      OBVIOUS
    <3>2. p # 0
      BY <3>0, <3>1 DEF NoRootIn
    <3>3. p \in 1..n
      <4>1. p < n + 1 /\ coll[n + 1] \in Collection
        BY <1>1, <3>1 DEF IInv, NestingKept
      <4>2. p \in Nat
        BY <3>1, <4>1, LimitsAssumption DEF Collection, Index
      <4> QED
        BY <3>2, <4>1, <4>2
    <3>4. app[n + 1] = app[p]
      BY <1>0, <1>1, <3>1, <3>2, AppUnfolds
    <3>5. NoRootIn(coll, p, n + 1)
      BY <1>1, <3>1, <3>2 DEF AncestryInv
    <3>6. Same(p) /\ Same(b)
      BY <1>1, <1>3, <3>0, <3>3
    <3>7. CASE b <= p
      <4>1. NoRootIn(coll, b, p)
        BY <3>0, <3>3, <3>7 DEF NoRootIn
      <4> QED
        BY <3>0, <3>3, <3>4, <3>6, <3>7, <4>1
    <3>8. CASE p < b
      <4>1. NoRootIn(coll, p, b)
        BY <3>0, <3>3, <3>5, <3>8 DEF NoRootIn
      <4> QED
        BY <3>0, <3>3, <3>4, <3>6, <3>8, <4>1
    <3> QED
      BY <3>0, <3>3, <3>7, <3>8
  <2> QED
    BY <2>1, <2>2
<1> HIDE DEF S
<1>4. Nat \subseteq S
  BY <1>2, <1>3, SetInduction
<1>5. d \in Nat /\ d \in 1..L
  BY <1>0
<1>6. d \in S
  BY <1>4, <1>5
<1>7. Same(d)
  BY <1>5, <1>6 DEF S
<1> QED
  BY <1>0, <1>7

\* GetAppCollection() finds the application of the collection that a field was declared
\* in, by way of the collection that was started last, in any stream in which
\* applications are not inside other collections (parser.cpp, descriptor.h).
THEOREM ApplicationIsFound == Spec => []SameApplication
<1>1. IInv /\ AncestryInv => SameApplication
  <2> SUFFICES ASSUME IInv, AncestryInv,
                      \A c \in DOMAIN coll : coll[c].type = Application => coll[c].parent = 0,
                      NEW n \in DOMAIN fields, enclosing[n] # 0
               PROVE  GetAppCollection[fields[n].col] = GetAppCollection[enclosing[n]]
    BY DEF SameApplication
  <2>1. PICK c, d : c = enclosing[n] /\ d = fields[n].col
    OBVIOUS
  <2>2. d \in 0..Len(coll) /\ c # 0 /\ c <= d /\ NoRootIn(coll, c, d) /\ Len(coll) \in Nat
    BY <2>1 DEF AncestryInv, IInv, TypeOK, CollOK
  <2>3. c \in Nat
    <3>1. enclosing \in Seq(Index) /\ fields \in Seq(FieldSpace) /\ n \in DOMAIN enclosing
      BY DEF IInv, TypeOK, FieldOK, AncestryInv
    <3> QED
      BY <2>1, <3>1, LimitsAssumption DEF Index
  <2>4. d \in 1..Len(coll) /\ c \in 1..d
    BY <2>2, <2>3
  <2> QED
    BY <2>1, <2>2, <2>4, SamePiece
<1> QED
  BY <1>1, AncestryHolds, PTL

-------------------------------------------------------------------------------
(* Usages.                                                                 *)

\* usages_ and usage_range_ are what the local items since the last main item say.
DeclaredInv ==
    /\ usage_range = <<Said("UsageMinimum"), Said("UsageMaximum")>>
    /\ Len(usages) = ListLen
    /\ \A m \in ItemsTagged("Usage") :
          Rank(m) <= MaxUsages => usages[Rank(m)] = declared[m].data
    /\ \A n \in 1 .. Cardinality(ItemsTagged("Usage")) :
          \E m \in ItemsTagged("Usage") : Rank(m) = n

LEMMA MinOfTwo ==
    ASSUME NEW a \in Int, NEW b \in Int
    PROVE  Min({a, b}) = IF a <= b THEN a ELSE b
  BY DEF Min

LEMMA MaxIs ==
    ASSUME NEW T \in SUBSET Nat, NEW m \in T, \A n \in T : n <= m
    PROVE  Max(T) = m
<1>1. \E x \in T : \A y \in T : x >= y
  OBVIOUS
<1>2. Max(T) \in T /\ \A y \in T : Max(T) >= y
  BY <1>1, Zenon DEF Max
<1>3. Max(T) >= m /\ Max(T) <= m /\ Max(T) \in Nat
  BY <1>2
<1> QED
  BY <1>3

\* A set of numbers up to a bound has a greatest one.
LEMMA HasMax ==
    ASSUME NEW L \in Nat, NEW T \in SUBSET (1..L), T # {}
    PROVE  \E m \in T : \A n \in T : n <= m
<1> DEFINE Has(U) == U # {} => \E m \in U : \A n \in U : n <= m
<1> DEFINE S == {n \in Nat : \A U \in SUBSET (1..n) : Has(U)}
<1>1. 0 \in S
  <2>1. \A U \in SUBSET (1..0) : U = {}
    OBVIOUS
  <2> QED
    BY <2>1
<1>2. ASSUME NEW n \in Nat, n \in S PROVE n + 1 \in S
  <2> SUFFICES ASSUME NEW U \in SUBSET (1 .. n + 1) PROVE Has(U)
    OBVIOUS
  <2>1. CASE n + 1 \in U
    BY <2>1
  <2>2. CASE n + 1 \notin U
    <3>1. U \in SUBSET (1..n)
      BY <2>2
    <3> QED
      BY <1>2, <3>1
  <2> QED
    BY <2>1, <2>2
<1> HIDE DEF S
<1>3. L \in S
  BY <1>1, <1>2, SetInduction
<1> QED
  BY <1>3 DEF S

\* The items declared so far are finitely many.
LEMMA TaggedFinite ==
    ASSUME IInv, NEW tag
    PROVE  /\ Len(declared) \in Nat /\ DOMAIN declared = 1..Len(declared)
           /\ ItemsTagged(tag) \subseteq 1..Len(declared)
           /\ IsFiniteSet(ItemsTagged(tag)) /\ Cardinality(ItemsTagged(tag)) \in Nat
<1>1. Len(declared) \in Nat /\ DOMAIN declared = 1..Len(declared)
  BY DEF IInv, TypeOK, LocalOK
<1>2. ItemsTagged(tag) \subseteq 1..Len(declared)
  BY <1>1 DEF ItemsTagged
<1>3. IsFiniteSet(1..Len(declared))
  BY <1>1, FS_Interval
<1> QED
  BY <1>1, <1>2, <1>3, FS_Subset, FS_CardinalityType

\* What one more item adds.
LEMMA TaggedAppend ==
    ASSUME IInv, NEW i \in Items, declared' = Append(declared, i), NEW tag
    PROVE  /\ ItemsTagged(tag)' = ItemsTagged(tag)
                \cup (IF Tag(i) = tag THEN {Len(declared) + 1} ELSE {})
           /\ declared'[Len(declared) + 1] = i
           /\ \A m \in ItemsTagged(tag) : declared'[m] = declared[m]
<1>1. declared \in Seq(Items) /\ Len(declared) \in Nat /\ DOMAIN declared = 1..Len(declared)
  BY DEF IInv, TypeOK, LocalOK
<1>2. /\ DOMAIN declared' = 1 .. Len(declared) + 1
      /\ declared'[Len(declared) + 1] = i
      /\ \A m \in 1..Len(declared) : declared'[m] = declared[m]
  BY <1>1
<1>3. \A n : n \in ItemsTagged(tag)' <=>
                n \in ItemsTagged(tag) \/ (Tag(i) = tag /\ n = Len(declared) + 1)
  <2> SUFFICES ASSUME NEW n
               PROVE  n \in ItemsTagged(tag)' <=>
                         n \in ItemsTagged(tag) \/ (Tag(i) = tag /\ n = Len(declared) + 1)
    OBVIOUS
  <2>1. n \in ItemsTagged(tag)' <=> n \in 1 .. Len(declared) + 1 /\ Tag(declared'[n]) = tag
    BY <1>2 DEF ItemsTagged
  <2>2. n \in ItemsTagged(tag) <=> n \in 1 .. Len(declared) /\ Tag(declared[n]) = tag
    BY <1>1 DEF ItemsTagged
  <2>3. CASE n \in 1..Len(declared)
    BY <1>1, <1>2, <2>1, <2>2, <2>3
  <2>4. CASE n = Len(declared) + 1
    BY <1>1, <1>2, <2>1, <2>2, <2>4
  <2> QED
    BY <1>1, <2>1, <2>2, <2>3, <2>4
<1>4. \A m \in ItemsTagged(tag) : declared'[m] = declared[m]
  BY <1>1, <1>2 DEF ItemsTagged
<1> QED
  BY <1>2, <1>3, <1>4

\* The last item with a tag is the one that counts.
LEMMA SaidAppend ==
    ASSUME IInv, NEW i \in Items, declared' = Append(declared, i), NEW tag
    PROVE  Said(tag)' = IF Tag(i) = tag THEN i.data ELSE Said(tag)
<1>1. CASE Tag(i) = tag
  <2>1. PICK L, T : L = Len(declared) /\ T = ItemsTagged(tag)'
    OBVIOUS
  <2>2. L + 1 \in T /\ T \in SUBSET Nat /\ \A n \in T : n <= L + 1
    BY <1>1, <2>1, TaggedAppend, TaggedFinite
  <2>3. Max(T) = L + 1
    BY <2>1, <2>2, MaxIs, TaggedFinite
  <2> QED
    BY <1>1, <2>1, <2>2, <2>3, TaggedAppend DEF Said
<1>2. CASE Tag(i) # tag
  <2>1. ItemsTagged(tag)' = ItemsTagged(tag)
    <3>1. (IF Tag(i) = tag THEN {Len(declared) + 1} ELSE {}) = {}
      BY <1>2
    <3>2. ItemsTagged(tag)' = ItemsTagged(tag)
                \cup (IF Tag(i) = tag THEN {Len(declared) + 1} ELSE {})
      BY TaggedAppend
    <3> QED
      BY <3>1, <3>2
  <2>2. CASE ItemsTagged(tag) = {}
    BY <1>2, <2>1, <2>2 DEF Said
  <2>3. CASE ItemsTagged(tag) # {}
    <3>1. PICK T : T = ItemsTagged(tag)
      OBVIOUS
    <3>2. Max(T) \in T
      <4>1. PICK L \in Nat : T \in SUBSET (1..L)
        BY <3>1, TaggedFinite
      <4>2. PICK m \in T : \A n \in T : n <= m
        BY <2>3, <3>1, <4>1, HasMax
      <4>3. Max(T) = m
        BY <4>1, <4>2, MaxIs
      <4> QED
        BY <4>2, <4>3
    <3>3. declared'[Max(T)] = declared[Max(T)]
      BY <3>1, <3>2, TaggedAppend
    <3> QED
      BY <1>2, <2>1, <2>3, <3>1, <3>3 DEF Said
  <2> QED
    BY <2>2, <2>3
<1> QED
  BY <1>1, <1>2

\* The usages are numbered through.
LEMMA RankBounds ==
    ASSUME IInv, NEW m \in ItemsTagged("Usage")
    PROVE  Rank(m) \in 1..Cardinality(ItemsTagged("Usage"))
<1>1. PICK T, U : T = ItemsTagged("Usage") /\ U = {l \in T : l <= m}
  OBVIOUS
<1>2. IsFiniteSet(T) /\ Cardinality(T) \in Nat /\ T \subseteq Nat
  BY <1>1, TaggedFinite
<1>3. IsFiniteSet(U) /\ Cardinality(U) \in Nat /\ Cardinality(U) <= Cardinality(T)
  BY <1>1, <1>2, FS_Subset, FS_CardinalityType
<1>4. U # {}
  BY <1>1, <1>2
<1>5. Cardinality(U) # 0
  BY <1>3, <1>4, FS_EmptySet
<1>6. Rank(m) = Cardinality(U)
  BY <1>1 DEF Rank
<1> QED
  BY <1>1, <1>2, <1>3, <1>5, <1>6

LEMMA RankAppend ==
    ASSUME IInv, NEW i \in Items, declared' = Append(declared, i)
    PROVE  /\ \A m \in ItemsTagged("Usage") : Rank(m)' = Rank(m)
           /\ Tag(i) = "Usage" =>
                /\ Cardinality(ItemsTagged("Usage"))' = Cardinality(ItemsTagged("Usage")) + 1
                /\ \A m : m = Len(declared) + 1 =>
                      Rank(m)' = Cardinality(ItemsTagged("Usage")) + 1
<1>1. PICK T, N, last : T = ItemsTagged("Usage") /\ N = ItemsTagged("Usage")' /\ last = Len(declared) + 1
  OBVIOUS
<1>2. /\ last \in Nat /\ T \subseteq 1 .. last - 1 /\ IsFiniteSet(T) /\ Cardinality(T) \in Nat
      /\ N = T \cup (IF Tag(i) = "Usage" THEN {last} ELSE {})
  BY <1>1, TaggedFinite, TaggedAppend
<1>3. ASSUME NEW m \in T PROVE Rank(m)' = Rank(m)
  <2>1. {l \in N : l <= m} = {l \in T : l <= m}
    BY <1>2
  <2> QED
    BY <1>1, <2>1 DEF Rank
<1>4. ASSUME Tag(i) = "Usage"
      PROVE  Cardinality(N) = Cardinality(T) + 1 /\ \A m : m = last => Rank(m)' = Cardinality(T) + 1
  <2>1. N = T \cup {last} /\ last \notin T
    BY <1>2, <1>4
  <2>2. Cardinality(N) = Cardinality(T) + 1
    BY <1>2, <2>1, FS_AddElement
  <2>3. {l \in N : l <= last} = N
    <3>1. \A l \in N : l <= last
      BY <1>2, <2>1
    <3> QED
      BY <3>1
  <2>4. ASSUME NEW m, m = last PROVE Rank(m)' = Cardinality(T) + 1
    <3>1. Rank(m)' = Cardinality({l \in N : l <= m})
      BY <1>1 DEF Rank
    <3> QED
      BY <2>2, <2>3, <2>4, <3>1
  <2> QED
    BY <2>2, <2>4
<1> QED
  BY <1>1, <1>3, <1>4

-------------------------------------------------------------------------------
LEMMA EmptyDeclared ==
    ASSUME IInv, declared = <<>>, usages = <<>>, usage_range = <<0, 0>>
    PROVE  DeclaredInv
<1>1. \A tag : ItemsTagged(tag) = {}
  BY DEF ItemsTagged
<1>2. Cardinality(ItemsTagged("Usage")) = 0
  BY <1>1, FS_EmptySet
<1>3. ListLen = 0
  BY <1>2, MinOfTwo, LimitsAssumption DEF ListLen
<1>4. Said("UsageMinimum") = 0 /\ Said("UsageMaximum") = 0
  BY <1>1 DEF Said
<1> QED
  BY <1>1, <1>2, <1>3, <1>4 DEF DeclaredInv

LEMMA SameDeclared ==
    ASSUME DeclaredInv, UNCHANGED localVars
    PROVE  DeclaredInv'
<1>1. UNCHANGED <<usages, usage_range, declared>>
  BY DEF localVars
<1>2. \A tag : ItemsTagged(tag)' = ItemsTagged(tag)
  BY <1>1 DEF ItemsTagged
<1>3. \A m : Rank(m)' = Rank(m)
  BY <1>2 DEF Rank
<1>4. \A tag : Said(tag)' = Said(tag)
  BY <1>1, <1>2 DEF Said
<1>5. ListLen' = ListLen /\ Cardinality(ItemsTagged("Usage"))' = Cardinality(ItemsTagged("Usage"))
  BY <1>2 DEF ListLen
<1> QED
  BY <1>1, <1>2, <1>3, <1>4, <1>5 DEF DeclaredInv

LEMMA AddUsageDeclared ==
    ASSUME IInv, DeclaredInv, NEW i \in Items, AddUsage(i)
    PROVE  DeclaredInv'
<1>0. PICK T, N, C, last :
         /\ T = ItemsTagged("Usage") /\ N = ItemsTagged("Usage")' /\ C = Cardinality(T)
         /\ last = Len(declared) + 1
  OBVIOUS
<1>1. /\ declared' = Append(declared, i) /\ Tag(i) = "Usage" /\ usage_range' = usage_range
      /\ usages' = PushBack(usages, i.data, MaxUsages)
  BY DEF AddUsage, Read
<1>2. /\ usages \in Seq(Nat) /\ MaxUsages \in Nat /\ C \in Nat /\ i.data \in Nat
      /\ Len(usages) = ListLen /\ last \in Nat
  BY <1>0, TaggedFinite, ItemTyped, LimitsAssumption DEF DeclaredInv, IInv, TypeOK, LocalOK
<1>3. ListLen = IF C <= MaxUsages THEN C ELSE MaxUsages
  BY <1>0, <1>2, MinOfTwo DEF ListLen
<1>4. /\ N = T \cup {last} /\ declared'[last] = i
      /\ \A m \in T : declared'[m] = declared[m] /\ Rank(m)' = Rank(m) /\ Rank(m) \in 1..C
      /\ Cardinality(N) = C + 1
      /\ \A m : m = last => Rank(m)' = C + 1
  BY <1>0, <1>1, TaggedAppend, RankAppend, RankBounds
<1>5. ListLen' = IF C + 1 <= MaxUsages THEN C + 1 ELSE MaxUsages
  <2>1. ListLen' = Min({C + 1, MaxUsages})
    BY <1>0, <1>4 DEF ListLen
  <2> QED
    BY <1>2, <2>1, MinOfTwo
<1>6. Len(usages') = ListLen'
  BY <1>1, <1>2, <1>3, <1>5 DEF PushBack
<1>7. \A n \in 1..Len(usages) : usages'[n] = usages[n]
  BY <1>1, <1>2 DEF PushBack
<1>8. C + 1 <= MaxUsages => usages'[C + 1] = i.data
  BY <1>1, <1>2, <1>3 DEF PushBack
<1>9. ASSUME NEW m \in N, Rank(m)' <= MaxUsages
      PROVE  usages'[Rank(m)'] = declared'[m].data
  <2>1. CASE m \in T
    <3>1. Rank(m)' = Rank(m) /\ Rank(m) \in 1..C /\ declared'[m] = declared[m]
      BY <1>4, <2>1
    <3>2. Rank(m) <= MaxUsages /\ Rank(m) \in 1..Len(usages)
      BY <1>2, <1>3, <1>9, <3>1
    <3>3. usages[Rank(m)] = declared[m].data
      BY <1>0, <2>1, <3>2 DEF DeclaredInv
    <3> QED
      BY <1>7, <3>1, <3>2, <3>3
  <2>2. CASE m = last
    <3>1. Rank(m)' = C + 1
      BY <1>4, <2>2
    <3> QED
      BY <1>4, <1>8, <1>9, <2>2, <3>1
  <2> QED
    BY <1>4, <2>1, <2>2
<1>10. ASSUME NEW n \in 1..C + 1 PROVE \E m \in N : Rank(m)' = n
  <2>1. CASE n = C + 1
    BY <1>4, <2>1
  <2>2. CASE n # C + 1
    <3>1. n \in 1..C
      BY <1>2, <2>2
    <3>2. PICK m \in T : Rank(m) = n
      BY <1>0, <3>1 DEF DeclaredInv
    <3> QED
      BY <1>4, <3>2
  <2> QED
    BY <2>1, <2>2
<1>11. Said("UsageMinimum")' = Said("UsageMinimum") /\ Said("UsageMaximum")' = Said("UsageMaximum")
  BY <1>1, SaidAppend
<1> QED
  BY <1>0, <1>1, <1>4, <1>6, <1>9, <1>10, <1>11 DEF DeclaredInv

LEMMA BoundDeclared ==
    ASSUME IInv, DeclaredInv, NEW i \in Items, NEW bound \in {1, 2},
           Tag(i) = IF bound = 1 THEN "UsageMinimum" ELSE "UsageMaximum",
           SetUsageBound(i, bound)
    PROVE  DeclaredInv'
<1>1. CASE Reject("unsupported")
  BY <1>1, SameDeclared DEF Reject
<1>2. CASE ~Reject("unsupported")
  <2>1. /\ declared' = Append(declared, i) /\ usages' = usages
        /\ usage_range' = [usage_range EXCEPT ![bound] = i.data]
    BY <1>2 DEF SetUsageBound
  <2>2. Tag(i) # "Usage"
    OBVIOUS
  <2>3. PICK T : T = ItemsTagged("Usage")
    OBVIOUS
  <2>4. ItemsTagged("Usage")' = T
    <3>1. (IF Tag(i) = "Usage" THEN {Len(declared) + 1} ELSE {}) = {}
      BY <2>2
    <3>2. ItemsTagged("Usage")' = ItemsTagged("Usage")
                \cup (IF Tag(i) = "Usage" THEN {Len(declared) + 1} ELSE {})
      BY <2>1, TaggedAppend
    <3> QED
      BY <2>3, <3>1, <3>2
  <2>5. \A m \in T : Rank(m)' = Rank(m) /\ declared'[m] = declared[m]
    BY <2>1, <2>3, RankAppend, TaggedAppend
  <2>6. ListLen' = ListLen
    BY <2>3, <2>4 DEF ListLen
  <2>7. usage_range = <<Said("UsageMinimum"), Said("UsageMaximum")>>
    BY DEF DeclaredInv
  <2>8. /\ Said("UsageMinimum")' = IF bound = 1 THEN i.data ELSE Said("UsageMinimum")
        /\ Said("UsageMaximum")' = IF bound = 2 THEN i.data ELSE Said("UsageMaximum")
    BY <2>1, SaidAppend
  <2>9. usage_range' = <<Said("UsageMinimum")', Said("UsageMaximum")'>>
    BY <2>1, <2>7, <2>8
  <2>10. \A m \in T : Rank(m)' <= MaxUsages => usages'[Rank(m)'] = declared'[m].data
    BY <2>1, <2>3, <2>5 DEF DeclaredInv
  <2>11. \A n \in 1..Cardinality(T) : \E m \in T : Rank(m)' = n
    BY <2>3, <2>5 DEF DeclaredInv
  <2>12. Len(usages') = ListLen'
    BY <2>1, <2>6 DEF DeclaredInv
  <2> QED
    BY <2>4, <2>9, <2>10, <2>11, <2>12 DEF DeclaredInv
<1> QED
  BY <1>1, <1>2

LEMMA LocalSteps ==
    ASSUME [Next]_vars
    PROVE  \/ UNCHANGED localVars
           \/ ResetUsage
           \/ \E i \in Items : AddUsage(i) \/ SetUsageMin(i) \/ SetUsageMax(i)
<1> USE DEF Reject
<1>1. ASSUME NEW i \in Items, GlobalItem(i) PROVE UNCHANGED localVars
  BY <1>1 DEF GlobalItem, SetUsagePage, SetReportSize, SetReportCount, SetReportId,
     SetLogicalMin, SetLogicalMax, SetPhysicalMin, SetPhysicalMax, SetUnit, SetUnitExp,
     Push, Pop, SetUpTo, Set
<1>2. ASSUME NEW i \in Items, MainItem(i) PROVE ResetUsage \/ UNCHANGED localVars
  BY <1>2 DEF MainItem, StartCollection, EndCollection, AddField
<1>3. ASSUME NEW i \in Items, RejectItem(i) PROVE UNCHANGED localVars
  BY <1>3 DEF RejectItem
<1>4. CASE RejectStream \/ Finish \/ UNCHANGED vars
  BY <1>4 DEF RejectStream, Finish, vars
<1> QED
  BY <1>1, <1>2, <1>3, <1>4 DEF Next, LocalItem

LEMMA DeclaredStep ==
    ASSUME IInv, DeclaredInv, [Next]_vars
    PROVE  DeclaredInv'
<1>1. CASE UNCHANGED localVars
  BY <1>1, SameDeclared
<1>2. CASE ResetUsage
  <2>1. IInv'
    BY NextKeeps
  <2>2. declared' = <<>> /\ usages' = <<>> /\ usage_range' = <<0, 0>>
    BY <1>2 DEF ResetUsage
  <2>3. \A tag : ItemsTagged(tag)' = {}
    BY <2>2 DEF ItemsTagged
  <2>4. Cardinality(ItemsTagged("Usage"))' = 0
    BY <2>3, FS_EmptySet
  <2>5. ListLen' = 0
    BY <2>4, MinOfTwo, LimitsAssumption DEF ListLen
  <2>6. Said("UsageMinimum")' = 0 /\ Said("UsageMaximum")' = 0
    BY <2>3 DEF Said
  <2> QED
    BY <2>2, <2>3, <2>4, <2>5, <2>6 DEF DeclaredInv
<1>3. ASSUME NEW i \in Items, AddUsage(i) PROVE DeclaredInv'
  BY <1>3, AddUsageDeclared
<1>4. ASSUME NEW i \in Items, SetUsageMin(i) PROVE DeclaredInv'
  BY <1>4, BoundDeclared DEF SetUsageMin, Read
<1>5. ASSUME NEW i \in Items, SetUsageMax(i) PROVE DeclaredInv'
  BY <1>5, BoundDeclared DEF SetUsageMax, Read
<1> QED
  BY <1>1, <1>2, <1>3, <1>4, <1>5, LocalSteps

\* What next_usage() returns is what the items declare.
LEMMA UsageIsDeclared ==
    ASSUME IInv, DeclaredInv, ValidRanges, NEW i \in Items, NEW n \in Nat \ {0}
    PROVE  UsageOf(i, n)[2] = DeclaredUsage(n, IsArray(i))
<1>0. PICK min, max, len, wanted :
         /\ min = Said("UsageMinimum") /\ max = Said("UsageMaximum") /\ len = ListLen
         /\ wanted = IF IsArray(i) THEN 1 ELSE n
  OBVIOUS
<1>1. /\ usage_range = <<min, max>> /\ min \in Nat /\ max \in Nat /\ min <= max
      /\ usages \in Seq(Nat) /\ Len(usages) = len /\ len \in Nat
      /\ wanted \in Nat /\ wanted > 0 /\ len <= MaxUsages /\ MaxUsages \in Nat
  BY <1>0, LimitsAssumption DEF DeclaredInv, IInv, TypeOK, LocalOK, ValidRanges
<1>2. CASE min # 0 \/ max # 0
  <2>1. UsageOf(i, n)[2] = NextInRange(i, n)
    BY <1>1, <1>2 DEF UsageOf
  <2>2. NextInRange(i, n) = IF min + (wanted - 1) > max THEN max ELSE min + (wanted - 1)
    BY <1>0, <1>1 DEF NextInRange
  <2>3. DeclaredUsage(n, IsArray(i)) = min + (IF wanted <= max - min + 1 THEN wanted ELSE max - min + 1) - 1
    BY <1>0, <1>2 DEF DeclaredUsage
  <2> QED
    BY <1>1, <2>1, <2>2, <2>3
<1>3. CASE min = 0 /\ max = 0 /\ usages = <<>>
  <2>1. len = 0
    BY <1>1, <1>3
  <2> QED
    BY <1>0, <1>1, <1>3, <2>1 DEF UsageOf, DeclaredUsage
<1>4. CASE min = 0 /\ max = 0 /\ usages # <<>>
  <2>1. len > 0
    BY <1>1, <1>4
  <2>2. UsageOf(i, n)[2] = NextUsage(i, n)
    BY <1>1, <1>4 DEF UsageOf
  <2>3. PICK k : k = IF wanted <= len THEN wanted ELSE len
    OBVIOUS
  <2>4. NextUsage(i, n) = usages[k]
    BY <1>0, <1>1, <1>4, <2>3, LastProperties DEF NextUsage
  <2>5. DeclaredUsage(n, IsArray(i)) = Listed(k)
    BY <1>0, <1>4, <2>1, <2>3 DEF DeclaredUsage
  <2>6. k \in 1..len
    BY <1>1, <2>1, <2>3
  <2>7. Cardinality(ItemsTagged("Usage")) \in Nat /\ len <= Cardinality(ItemsTagged("Usage"))
    BY <1>0, <1>1, TaggedFinite, MinOfTwo DEF ListLen
  <2>8. \E m \in ItemsTagged("Usage") : Rank(m) = k
    BY <1>1, <2>6, <2>7 DEF DeclaredInv
  <2>9. PICK m \in ItemsTagged("Usage") : Rank(m) = k /\ Listed(k) = declared[m].data
    BY <2>8, Zenon DEF Listed
  <2>10. usages[k] = declared[m].data
    BY <1>1, <2>6, <2>9 DEF DeclaredInv
  <2> QED
    BY <2>2, <2>4, <2>5, <2>9, <2>10
<1> QED
  BY <1>1, <1>2, <1>3, <1>4

\* The usages that add_field() gives the fields of a main item are those that the local
\* items before it declare, by the comment above UsageIterator, in every stream.
THEOREM UsagesAreAssigned == Spec => UsagesAssigned
<1>1. Init => DeclaredInv
  BY InitEstablishes, EmptyDeclared DEF Init
<1>2. IInv /\ DeclaredInv /\ [Next]_vars => DeclaredInv'
  BY DeclaredStep
<1>3. IInv /\ DeclaredInv /\ [Next]_vars =>
        [\A n \in (Len(fields) + 1)..Len(fields') :
            fields'[n].usage[2] = DeclaredUsage(n - Len(fields), fields'[n].array)]_vars
  <2> SUFFICES ASSUME IInv, DeclaredInv, [Next]_vars,
                      NEW n \in (Len(fields) + 1)..Len(fields')
               PROVE  fields'[n].usage[2] = DeclaredUsage(n - Len(fields), fields'[n].array)
    OBVIOUS
  <2>1. Len(fields) \in Nat /\ fields \in Seq(FieldSpace)
    BY DEF IInv, TypeOK, FieldOK
  <2>2. fields' # fields
    BY <2>1
  <2>3. PICK i \in Items : AddField(i)
    BY <2>2, CollectionSteps DEF StartCollection, EndCollection, Reject, fieldVars
  <2>4. fields' = fields \o [k \in 1..Room |-> Field(i, k)] /\ ValidRanges /\ Tag(i) \in NodeTypes
    BY <2>2, <2>3 DEF AddField, Reject, fieldVars
  <2>5. PICK added, room, old : /\ room = Room /\ added = [k \in 1..room |-> Field(i, k)]
                                /\ old = Len(fields)
    OBVIOUS
  <2>6. room \in Nat /\ added \in Seq(FieldSpace) /\ Len(added) = room
    <3>1. room \in Nat
      BY <2>5, RoomBound
    <3>2. \A k \in 1..room : Field(i, k) \in FieldSpace
      BY <2>4, <3>1, FieldTyped
    <3> QED
      BY <2>5, <3>1, <3>2
  <2>7. n - old \in 1..room /\ fields'[n] = added[n - old] /\ n - old \in Nat \ {0}
    BY <2>1, <2>4, <2>5, <2>6
  <2>8. fields'[n] = Field(i, n - old)
    BY <2>5, <2>7
  <2>9. fields'[n].usage = UsageOf(i, n - old) /\ fields'[n].array = IsArray(i)
    BY <2>8 DEF Field
  <2>10. UsageOf(i, n - old)[2] = DeclaredUsage(n - old, IsArray(i))
    BY <2>4, <2>7, UsageIsDeclared
  <2> QED
    BY <2>5, <2>9, <2>10
<1> QED
  BY <1>1, <1>2, <1>3, InitEstablishes, NextKeeps, PTL DEF Spec, UsagesAssigned

-------------------------------------------------------------------------------
(* Sums over finite sets: SumFunctionOnSet takes the elements in some order,  *)
(* by a recursive function on the subsets.                                    *)

\* Strong induction on the subsets of a finite set.
LEMMA SubsetInduction ==
    ASSUME NEW S, IsFiniteSet(S), NEW P,
           \A T \in SUBSET S : (\A U \in SUBSET T : U # T => U \in P) => T \in P
    PROVE  SUBSET S \subseteq P
<1> DEFINE Q == {n \in Nat : \A T \in SUBSET S : Cardinality(T) <= n => T \in P}
<1>1. \A T \in SUBSET S : IsFiniteSet(T) /\ Cardinality(T) \in Nat
  BY FS_Subset, FS_CardinalityType
<1>2. \A T \in SUBSET S : \A U \in SUBSET T :
         U # T => Cardinality(U) < Cardinality(T)
  BY <1>1, FS_Subset
<1>3. 0 \in Q
  <2> SUFFICES ASSUME NEW T \in SUBSET S, Cardinality(T) <= 0 PROVE T \in P
    OBVIOUS
  <2>1. ASSUME NEW U \in SUBSET T, U # T PROVE FALSE
    <3>1. U \in SUBSET S
      OBVIOUS
    <3>2. Cardinality(U) \in Nat /\ Cardinality(T) \in Nat /\ Cardinality(U) < Cardinality(T)
      BY <1>1, <1>2, <2>1, <3>1
    <3> QED
      BY <3>2
  <2> QED
    BY <2>1
<1>4. ASSUME NEW n \in Nat, n \in Q PROVE n + 1 \in Q
  <2> SUFFICES ASSUME NEW T \in SUBSET S, Cardinality(T) <= n + 1 PROVE T \in P
    OBVIOUS
  <2>1. ASSUME NEW U \in SUBSET T, U # T PROVE U \in P
    <3>1. Cardinality(U) < Cardinality(T) /\ Cardinality(U) \in Nat /\ Cardinality(T) \in Nat
      BY <1>1, <1>2, <2>1
    <3>2. Cardinality(U) <= n
      BY <3>1
    <3> QED
      BY <1>4, <3>2
  <2> QED
    BY <2>1
<1> HIDE DEF Q
<1>5. Nat \subseteq Q
  BY <1>3, <1>4, SetInduction
<1> QED
  BY <1>1, <1>5 DEF Q

\* it sums the values of g over each subset of S.
Sums(g, S, it) ==
    \A s \in SUBSET S :
        it[s] = IF s = {} THEN 0
                ELSE g[CHOOSE x \in s : TRUE] + it[s \ {CHOOSE x \in s : TRUE}]

\* There is such a function,
LEMMA SumsExist ==
    ASSUME NEW S, IsFiniteSet(S), NEW g, \A x \in S : g[x] \in Int
    PROVE  \E it \in [SUBSET S -> Int] : Sums(g, S, it)
<1> DEFINE One(s) == CHOOSE x \in s : TRUE
<1> DEFINE Sum1(s, it) == IF s = {} THEN 0 ELSE g[One(s)] + it[s \ {One(s)}]
<1> DEFINE Upto(n) == \E it \in [SUBSET S -> Int] :
                         \A s \in SUBSET S : Cardinality(s) <= n => it[s] = Sum1(s, it)
<1> DEFINE Q == {n \in Nat : Upto(n)}
<1>1. \A s \in SUBSET S : IsFiniteSet(s) /\ Cardinality(s) \in Nat
  BY FS_Subset, FS_CardinalityType
<1>2. \A s \in SUBSET S : s # {} => One(s) \in s /\ g[One(s)] \in Int
  OBVIOUS
<1>3. \A s \in SUBSET S : s # {} =>
         s \ {One(s)} \in SUBSET S /\ Cardinality(s \ {One(s)}) = Cardinality(s) - 1
  BY <1>1, <1>2, FS_RemoveElement
<1>4. \A s \in SUBSET S : s # {} => Cardinality(s) # 0
  BY <1>1, FS_EmptySet
<1> HIDE DEF One
<1>5. 0 \in Q
  <2> DEFINE it == [s \in SUBSET S |-> 0]
  <2>1. it \in [SUBSET S -> Int]
    OBVIOUS
  <2>2. \A s \in SUBSET S : Cardinality(s) <= 0 => it[s] = Sum1(s, it)
    <3> SUFFICES ASSUME NEW s \in SUBSET S, Cardinality(s) <= 0 PROVE it[s] = Sum1(s, it)
      OBVIOUS
    <3>1. s = {}
      BY <1>1, <1>4
    <3> QED
      BY <3>1
  <2> HIDE DEF it, Sum1
  <2>3. Upto(0)
    BY <2>1, <2>2
  <2> QED
    BY <2>3
<1>6. ASSUME NEW n \in Nat, n \in Q PROVE n + 1 \in Q
  <2>1. PICK it \in [SUBSET S -> Int] :
           \A s \in SUBSET S : Cardinality(s) <= n => it[s] = Sum1(s, it)
    BY <1>6
  <2> DEFINE h == [s \in SUBSET S |-> Sum1(s, it)]
  <2>2. h \in [SUBSET S -> Int]
    BY <1>2, <1>3, <2>1
  <2>3. \A s \in SUBSET S : Cardinality(s) <= n => h[s] = it[s]
    BY <2>1
  <2>4. ASSUME NEW s \in SUBSET S, Cardinality(s) <= n + 1 PROVE h[s] = Sum1(s, h)
    <3>1. h[s] = Sum1(s, it)
      OBVIOUS
    <3>2. CASE s = {}
      BY <3>1, <3>2
    <3>3. CASE s # {}
      <4>1. Cardinality(s \ {One(s)}) <= n /\ s \ {One(s)} \in SUBSET S
        BY <1>1, <1>3, <2>4, <3>3
      <4>2. h[s \ {One(s)}] = it[s \ {One(s)}]
        BY <2>3, <4>1
      <4> QED
        BY <3>1, <3>3, <4>2
    <3> QED
      BY <3>2, <3>3
  <2> HIDE DEF h, Sum1
  <2>5. Upto(n + 1)
    BY <2>2, <2>4
  <2> QED
    BY <2>5
<1> HIDE DEF Q, Sum1
<1>7. Nat \subseteq Q
  BY <1>5, <1>6, SetInduction
<1>8. Cardinality(S) \in Nat /\ \A s \in SUBSET S : Cardinality(s) <= Cardinality(S)
  BY <1>1, FS_Subset
<1>9. Upto(Cardinality(S))
  BY <1>7, <1>8 DEF Q
<1> QED
  BY <1>8, <1>9 DEF Sums, Sum1, One

\* and only one, whatever the set it is for.
LEMMA SumsAgree ==
    ASSUME NEW S, IsFiniteSet(S), NEW g, NEW it, NEW T \in SUBSET S, NEW jt,
           Sums(g, S, it), Sums(g, T, jt)
    PROVE  \A s \in SUBSET T : it[s] = jt[s]
<1> DEFINE P == {s \in SUBSET T : it[s] = jt[s]}
<1>1. IsFiniteSet(T)
  BY FS_Subset
<1>2. ASSUME NEW s \in SUBSET T, \A U \in SUBSET s : U # s => U \in P PROVE s \in P
  <2>1. CASE s = {}
    BY <2>1 DEF Sums
  <2>2. CASE s # {}
    <3>1. PICK x \in s : x = CHOOSE y \in s : TRUE
      BY <2>2
    <3>2. s \ {x} \in P
      BY <1>2
    <3>3. it[s] = g[x] + it[s \ {x}] /\ jt[s] = g[x] + jt[s \ {x}]
      BY <2>2, <3>1 DEF Sums
    <3> QED
      BY <3>2, <3>3
  <2> QED
    BY <2>1, <2>2
<1> HIDE DEF P
<1>3. SUBSET T \subseteq P
  BY <1>1, <1>2, SubsetInduction
<1> QED
  BY <1>3 DEF P

\* SumFunctionOnSet is its value.
LEMMA SumUnfolds ==
    ASSUME NEW S, IsFiniteSet(S), NEW g, \A x \in S : g[x] \in Int
    PROVE  \E it \in [SUBSET S -> Int] : Sums(g, S, it) /\ SumFunctionOnSet(g, S) = it[S]
<1> DEFINE F(it) == it = [s \in SUBSET S |->
                            IF s = {} THEN 0
                            ELSE g[CHOOSE x \in s : TRUE] + it[s \ {CHOOSE x \in s : TRUE}]]
<1>1. PICK jt \in [SUBSET S -> Int] : Sums(g, S, jt)
  BY SumsExist
<1>2. F(jt)
  BY <1>1 DEF Sums
<1>3. PICK it : it = CHOOSE kt : F(kt)
  OBVIOUS
<1>4. F(it)
  <2> HIDE DEF F
  <2>1. \E kt : F(kt)
    BY <1>2
  <2> QED
    BY <1>3, <2>1, Zenon
<1>5. SumFunctionOnSet(g, S) = it[S]
  BY <1>3, Zenon DEF SumFunctionOnSet, FoldFunctionOnSet, MapThenFoldSet
<1>6. Sums(g, S, it)
  BY <1>4 DEF Sums
<1>7. \A s \in SUBSET S : it[s] = jt[s]
  BY <1>1, <1>6, SumsAgree
<1>8. it \in [SUBSET S -> Int]
  BY <1>1, <1>4, <1>7
<1> QED
  BY <1>5, <1>6, <1>8

LEMMA SumTyped ==
    ASSUME NEW S, IsFiniteSet(S), NEW g, \A x \in S : g[x] \in Int
    PROVE  SumFunctionOnSet(g, S) \in Int
<1>1. PICK it \in [SUBSET S -> Int] : SumFunctionOnSet(g, S) = it[S]
  BY SumUnfolds
<1> QED
  BY <1>1

LEMMA SumEmpty ==
    ASSUME NEW g
    PROVE  SumFunctionOnSet(g, {}) = 0
<1>1. PICK it \in [SUBSET {} -> Int] : Sums(g, {}, it) /\ SumFunctionOnSet(g, {}) = it[{}]
  BY SumUnfolds, FS_EmptySet
<1> QED
  BY <1>1 DEF Sums

\* The sum of a subset.
LEMMA SumOfSubset ==
    ASSUME NEW S, IsFiniteSet(S), NEW g, \A x \in S : g[x] \in Int,
           NEW it, Sums(g, S, it), NEW T \in SUBSET S
    PROVE  SumFunctionOnSet(g, T) = it[T]
<1>1. IsFiniteSet(T)
  BY FS_Subset
<1>2. PICK jt \in [SUBSET T -> Int] : Sums(g, T, jt) /\ SumFunctionOnSet(g, T) = jt[T]
  BY <1>1, SumUnfolds
<1>3. \A s \in SUBSET T : it[s] = jt[s]
  BY <1>2, SumsAgree
<1> QED
  BY <1>2, <1>3

\* The order does not matter: any element may be taken first.
LEMMA SumWithout ==
    ASSUME NEW S, IsFiniteSet(S), NEW g, \A x \in S : g[x] \in Int, NEW x \in S
    PROVE  SumFunctionOnSet(g, S) = g[x] + SumFunctionOnSet(g, S \ {x})
<1>1. PICK it \in [SUBSET S -> Int] : Sums(g, S, it)
  BY SumsExist
<1> DEFINE P == {T \in SUBSET S : \A y \in T : it[T] = g[y] + it[T \ {y}]}
<1>2. ASSUME NEW T \in SUBSET S, \A U \in SUBSET T : U # T => U \in P,
             NEW y \in T
      PROVE  it[T] = g[y] + it[T \ {y}]
  <2>1. PICK z \in T : z = CHOOSE u \in T : TRUE
    OBVIOUS
  <2>2. it[T] = g[z] + it[T \ {z}]
    BY <1>1, <2>1 DEF Sums
  <2>3. CASE y = z
    BY <2>2, <2>3
  <2>4. CASE y # z
    <3>1. T \ {z} \in P /\ T \ {y} \in P
      BY <1>2
    <3>2. it[T \ {z}] = g[y] + it[(T \ {z}) \ {y}]
      BY <2>4, <3>1
    <3>3. it[T \ {y}] = g[z] + it[(T \ {y}) \ {z}]
      BY <2>4, <3>1
    <3>4. PICK U \in SUBSET S : U = (T \ {z}) \ {y}
      OBVIOUS
    <3>5. U = (T \ {y}) \ {z}
      BY <3>4
    <3>6. g[y] \in Int /\ g[z] \in Int /\ it[U] \in Int
      BY <1>1
    <3>7. it[T \ {z}] = g[y] + it[U] /\ it[T \ {y}] = g[z] + it[U]
      BY <3>2, <3>3, <3>4, <3>5
    <3> QED
      BY ONLY <2>2, <3>6, <3>7
  <2> QED
    BY <2>3, <2>4
<1>3. \A T \in SUBSET S : (\A U \in SUBSET T : U # T => U \in P) => T \in P
  BY <1>2
<1> HIDE DEF P
<1>4. SUBSET S \subseteq P
  BY <1>3, SubsetInduction
<1>5. it[S] = g[x] + it[S \ {x}]
  BY <1>4 DEF P
<1>6. SumFunctionOnSet(g, S) = it[S] /\ SumFunctionOnSet(g, S \ {x}) = it[S \ {x}]
  BY <1>1, SumOfSubset
<1> QED
  BY <1>5, <1>6

-------------------------------------------------------------------------------
(* What Finish() packs.                                                      *)

\* The sum of h, which is g on C and 0 elsewhere.
LEMMA SumFiltered ==
    ASSUME NEW S, IsFiniteSet(S), NEW g, \A x \in S : g[x] \in Int, NEW C \in SUBSET S,
           NEW h, \A x \in S : h[x] = IF x \in C THEN g[x] ELSE 0
    PROVE  SumFunctionOnSet(h, S) = SumFunctionOnSet(g, C)
<1> DEFINE P == {T \in SUBSET S : SumFunctionOnSet(h, T) = SumFunctionOnSet(g, C \cap T)}
<1>1. \A T \in SUBSET S : IsFiniteSet(T) /\ IsFiniteSet(C \cap T)
  BY FS_Subset
<1>2. \A x \in S : h[x] \in Int
  OBVIOUS
<1>3. ASSUME NEW T \in SUBSET S, \A U \in SUBSET T : U # T => U \in P
      PROVE  SumFunctionOnSet(h, T) = SumFunctionOnSet(g, C \cap T)
  <2>1. CASE T = {}
    <3>1. C \cap T = {}
      BY <2>1
    <3> QED
      BY <2>1, <3>1, SumEmpty
  <2>2. CASE T # {}
    <3>1. PICK x \in T : TRUE
      BY <2>2
    <3>2. SumFunctionOnSet(h, T \ {x}) = SumFunctionOnSet(g, C \cap (T \ {x}))
      <4>1. T \ {x} \in P
        BY <1>3, <3>1
      <4> QED
        BY <4>1
    <3>3. SumFunctionOnSet(h, T) = h[x] + SumFunctionOnSet(h, T \ {x})
      BY <1>1, <1>2, <3>1, SumWithout
    <3>4. SumFunctionOnSet(h, T \ {x}) \in Int
      <4>1. IsFiniteSet(T \ {x}) /\ \A y \in T \ {x} : h[y] \in Int
        BY <1>1, <1>2
      <4> QED
        BY <4>1, SumTyped
    <3>5. CASE x \in C
      <4>1. (C \cap T) \ {x} = C \cap (T \ {x}) /\ x \in C \cap T
        BY <3>1, <3>5
      <4>2. PICK D : D = C \cap T
        OBVIOUS
      <4>3. IsFiniteSet(D) /\ x \in D /\ \A y \in D : g[y] \in Int
        BY <1>1, <4>1, <4>2
      <4>4. SumFunctionOnSet(g, D) = g[x] + SumFunctionOnSet(g, D \ {x})
        BY <4>3, SumWithout
      <4>5. h[x] = g[x]
        BY <3>1, <3>5
      <4> QED
        BY <3>2, <3>3, <4>1, <4>2, <4>4, <4>5
    <3>6. CASE x \notin C
      <4>1. C \cap T = C \cap (T \ {x})
        BY <3>6
      <4>2. h[x] = 0
        BY <3>1, <3>6
      <4>3. SumFunctionOnSet(h, T) = SumFunctionOnSet(h, T \ {x})
        BY ONLY <3>3, <3>4, <4>2
      <4> QED
        BY <3>2, <4>1, <4>3
    <3> QED
      BY <3>5, <3>6
  <2> QED
    BY <2>1, <2>2
<1>4. \A T \in SUBSET S : (\A U \in SUBSET T : U # T => U \in P) => T \in P
  BY <1>3
<1> HIDE DEF P
<1>5. SUBSET S \subseteq P
  BY <1>4, SubsetInduction
<1>6. SumFunctionOnSet(h, S) = SumFunctionOnSet(g, C \cap S)
  BY <1>5 DEF P
<1>7. C \cap S = C
  OBVIOUS
<1> QED
  BY <1>6, <1>7

\* The first identifier is the null one, and so no other one is.
NullIdFirst == report_ids[1] = 0

LEMMA ReportIdsSteps ==
    ASSUME [Next]_vars
    PROVE  \/ UNCHANGED report_ids
           \/ \E id : report_ids' = Append(report_ids, id)
<1> USE DEF Reject
<1>1. ASSUME NEW i \in Items, SetReportId(i)
      PROVE  UNCHANGED report_ids \/ \E id : report_ids' = Append(report_ids, id)
  BY <1>1 DEF SetReportId, UseReportId
<1>2. ASSUME NEW i \in Items, GlobalItem(i), ~SetReportId(i) PROVE UNCHANGED report_ids
  BY <1>2 DEF GlobalItem, SetUsagePage, SetReportSize, SetReportCount,
     SetLogicalMin, SetLogicalMax, SetPhysicalMin, SetPhysicalMax, SetUnit, SetUnitExp,
     Push, Pop, SetUpTo, Set
<1>3. ASSUME NEW i \in Items, MainItem(i) PROVE UNCHANGED report_ids
  BY <1>3 DEF MainItem, StartCollection, EndCollection, AddField
<1>4. ASSUME NEW i \in Items, LocalItem(i) PROVE UNCHANGED report_ids
  BY <1>4 DEF LocalItem, AddUsage, SetUsageMin, SetUsageMax, SetUsageBound
<1>5. ASSUME NEW i \in Items, RejectItem(i) PROVE UNCHANGED report_ids
  BY <1>5 DEF RejectItem
<1>6. CASE RejectStream \/ Finish \/ UNCHANGED vars
  BY <1>6 DEF RejectStream, Finish, vars
<1> QED
  BY <1>1, <1>2, <1>3, <1>4, <1>5, <1>6 DEF Next

LEMMA NullIdStep ==
    ASSUME IInv, NullIdFirst, [Next]_vars
    PROVE  NullIdFirst'
<1>1. report_ids \in Seq(0..255) /\ 1 \in DOMAIN report_ids
  BY DEF IInv, TypeOK, FieldOK, IdsInv, GlobalOK, Table
<1>2. ASSUME NEW id, report_ids' = Append(report_ids, id) PROVE NullIdFirst'
  BY <1>1, <1>2 DEF NullIdFirst
<1> QED
  BY <1>2, ReportIdsSteps DEF NullIdFirst

LEMMA NullIdHolds == Spec => [](IInv /\ NullIdFirst)
<1>1. Init => NullIdFirst
  BY DEF Init, NullIdFirst
<1>2. IInv /\ NullIdFirst /\ [Next]_vars => NullIdFirst'
  BY NullIdStep
<1> QED
  BY <1>1, <1>2, Invariance, PTL DEF Spec

\* The reports, their identifiers and what they hold.
LEMMA ReportFacts ==
    ASSUME IInv, NullIdFirst
    PROVE  /\ Len(report_ids) \in Nat \ {0} /\ DOMAIN report_ids = 1..Len(report_ids)
           /\ Len(fields) \in Nat /\ DOMAIN fields = 1..Len(fields)
           /\ IsFiniteSet(DOMAIN fields)
           /\ \A n \in DOMAIN fields : fields[n] \in FieldSpace
           /\ Reports \subseteq DOMAIN report_ids
           /\ NoReportId => Reports = {1}
           /\ ~NoReportId => Reports = DOMAIN report_ids \ {1}
           /\ \A k \in DOMAIN report_ids : report_ids[k] = 0 <=> k = 1
<1>1. report_ids \in Seq(0..255) /\ 1 \in DOMAIN report_ids
  BY DEF IInv, TypeOK, FieldOK, IdsInv, GlobalOK, Table
<1>2. fields \in Seq(FieldSpace)
  BY DEF IInv, TypeOK, FieldOK
<1>3. Len(report_ids) \in Nat \ {0} /\ DOMAIN report_ids = 1..Len(report_ids)
  BY <1>1
<1>4. Len(fields) \in Nat /\ DOMAIN fields = 1..Len(fields) /\ IsFiniteSet(1..Len(fields))
  BY <1>2, FS_Interval
<1>5. \A k \in DOMAIN report_ids : report_ids[k] = 0 <=> k = 1
  BY <1>1 DEF IInv, IdsInv, NullIdFirst
<1>6. \A n \in DOMAIN fields : fields[n] \in FieldSpace
  BY <1>2
<1> QED
  BY <1>3, <1>4, <1>5, <1>6 DEF Reports, NoReportId

-------------------------------------------------------------------------------
(* What the reports count.                                                   *)

\* Every field that has been counted is there.
AllCounted ==
    \A k \in DOMAIN report_ids, t \in NodeTypes : Cardinality(HeldAt(k, t)) = counts[k][t]

CountsExact ==
    DeclaredFields <= MaxFields => AllCounted /\ Len(fields) = DeclaredFields

\* Functions that agree on a set have one sum over it.
LEMMA SumSame ==
    ASSUME NEW S, IsFiniteSet(S), NEW g, \A x \in S : g[x] \in Int,
           NEW h, \A x \in S : h[x] = g[x]
    PROVE  SumFunctionOnSet(h, S) = SumFunctionOnSet(g, S)
<1>1. S \in SUBSET S /\ \A x \in S : h[x] = IF x \in S THEN g[x] ELSE 0
  OBVIOUS
<1> QED
  BY <1>1, SumFiltered

\* One that is larger in one place has a larger sum.
LEMMA SumLarger ==
    ASSUME NEW S, IsFiniteSet(S), NEW g, \A x \in S : g[x] \in Int,
           NEW h, NEW x \in S, NEW d \in Int, h[x] = g[x] + d,
           \A y \in S \ {x} : h[y] = g[y]
    PROVE  SumFunctionOnSet(h, S) = SumFunctionOnSet(g, S) + d
<1>1. \A y \in S : h[y] \in Int
  <2>1. \A y \in S : y = x \/ y \in S \ {x}
    OBVIOUS
  <2> QED
    BY <2>1
<1>2. PICK T : T = S \ {x}
  OBVIOUS
<1>3. IsFiniteSet(T) /\ \A y \in T : g[y] \in Int /\ h[y] = g[y]
  BY <1>2, FS_Subset
<1>4. SumFunctionOnSet(h, T) = SumFunctionOnSet(g, T) /\ SumFunctionOnSet(g, T) \in Int
  BY <1>3, SumSame, SumTyped
<1>5. SumFunctionOnSet(h, S) = h[x] + SumFunctionOnSet(h, T)
  BY <1>1, <1>2, SumWithout
<1>6. SumFunctionOnSet(g, S) = g[x] + SumFunctionOnSet(g, T)
  BY <1>2, SumWithout
<1> QED
  BY <1>4, <1>5, <1>6

\* What an entry counts in all.
Total(k) == counts[k]["Input"] + counts[k]["Output"] + counts[k]["Feature"]

\* The sum of a function is that over its domain.
LEMMA SumOverDomain ==
    ASSUME NEW D, NEW f, D = DOMAIN f
    PROVE  SumFunction(f) = SumFunctionOnSet(f, D)
BY Zenon DEF SumFunction, SumFunctionOnSet, FoldFunction

\* Neither a known identifier nor a new one changes what has been declared.
LEMMA UseReportIdCounts ==
    ASSUME IInv, CountsExact, NEW id, UseReportId(id), UNCHANGED fields
    PROVE  CountsExact'
<1>1. CASE UNCHANGED <<report_ids, counts>>
  BY <1>1 DEF CountsExact, AllCounted, DeclaredFields, HeldAt
<1>2. CASE /\ \A k \in DOMAIN report_ids : report_ids[k] # id
           /\ report_ids' = Append(report_ids, id)
           /\ counts' = Append(counts, [t \in NodeTypes |-> 0])
  <2> DEFINE D == DOMAIN report_ids
             zero == [t \in NodeTypes |-> 0]
  <2>1. /\ report_ids \in Seq(0..255) /\ counts \in Seq([NodeTypes -> Nat])
        /\ Len(counts) = Len(report_ids) /\ Len(report_ids) \in Nat
    BY DEF IInv, TypeOK, FieldOK, IdsInv
  <2>0. PICK last \in Nat : last = Len(report_ids) + 1
    BY <2>1
  <2>2. D = 1..Len(report_ids) /\ D = DOMAIN counts /\ last \notin D /\ IsFiniteSet(D)
    BY <2>0, <2>1, FS_Interval
  <2>3. \A t \in NodeTypes : zero[t] = 0
    OBVIOUS
  <2> HIDE DEF zero
  <2>4. /\ DOMAIN report_ids' = D \cup {last} /\ report_ids'[last] = id
        /\ \A k \in D : report_ids'[k] = report_ids[k]
    BY <1>2, <2>0, <2>1, <2>2
  <2>5. counts'[last] = zero /\ \A k \in D : counts'[k] = counts[k]
    <3>1. counts' = Append(counts, zero)
      BY <1>2 DEF zero
    <3> QED
      BY <2>0, <2>1, <2>2, <3>1
  <2>6. \A k \in D : Total(k)' = Total(k) /\ Total(k) \in Int
    <3>1. \A k \in D, t \in NodeTypes : counts[k][t] \in Nat
      BY <2>1, <2>2
    <3> QED
      BY <2>5, <3>1 DEF Total, NodeTypes
  <2>7. Total(last)' = 0
    <3>1. /\ counts'[last]["Input"] = 0 /\ counts'[last]["Output"] = 0
          /\ counts'[last]["Feature"] = 0
      BY <2>3, <2>5 DEF NodeTypes
    <3>2. Total(last)' = counts'[last]["Input"] + counts'[last]["Output"]
                           + counts'[last]["Feature"]
      BY DEF Total
    <3> QED
      BY <3>1, <3>2
  <2> HIDE DEF D
  <2>8. DeclaredFields' = DeclaredFields
    <3> DEFINE E == D \cup {last}
               f == [k \in D |-> Total(k)]
               g == [k \in E |-> Total(k)']
    <3>1. DeclaredFields = SumFunction(f) /\ DeclaredFields' = SumFunction(g)
      BY <2>4 DEF DeclaredFields, Total, D
    <3>2. DOMAIN f = D /\ DOMAIN g = E /\ \A k \in D : f[k] = Total(k)
      OBVIOUS
    <3>3. (\A k \in D : g[k] = Total(k)') /\ g[last] = Total(last)'
      <4>1. \A k \in E : g[k] = Total(k)'
        OBVIOUS
      <4>2. D \subseteq E /\ last \in E
        OBVIOUS
      <4> HIDE DEF E, g
      <4> QED
        BY <4>1, <4>2
    <3>4. IsFiniteSet(E) /\ last \in E /\ E \ {last} = D /\ \A k \in E : k \in D \/ k = last
      BY <2>2, FS_AddElement
    <3> HIDE DEF E, f, g
    <3>5. /\ \A k \in D : f[k] \in Int /\ g[k] = f[k]
          /\ g[last] = 0 /\ \A k \in E : g[k] \in Int
      BY <2>6, <2>7, <3>2, <3>3, <3>4
    <3>6. SumFunction(f) = SumFunctionOnSet(f, D) /\ SumFunction(g) = SumFunctionOnSet(g, E)
      BY <3>2, SumOverDomain
    <3>7. SumFunctionOnSet(g, E) = g[last] + SumFunctionOnSet(g, E \ {last})
      BY <3>4, <3>5, SumWithout
    <3>8. SumFunctionOnSet(g, D) = SumFunctionOnSet(f, D) /\ SumFunctionOnSet(f, D) \in Int
      BY <2>2, <3>5, SumSame, SumTyped
    <3>9. SumFunctionOnSet(g, E) = SumFunctionOnSet(f, D)
      <4>1. SumFunctionOnSet(g, E) = 0 + SumFunctionOnSet(g, D)
        BY <3>4, <3>5, <3>7
      <4> QED
        BY <3>8, <4>1
    <3> QED
      BY <3>1, <3>6, <3>9
  <2>9. ASSUME AllCounted PROVE AllCounted'
    <3>1. ASSUME NEW k \in D, NEW t \in NodeTypes
          PROVE  Cardinality(HeldAt(k, t)') = counts'[k][t]
      <4>1. HeldAt(k, t)' = HeldAt(k, t)
        BY <2>4 DEF HeldAt
      <4> QED
        BY <2>5, <2>9, <4>1 DEF AllCounted, D
    <3>2. ASSUME NEW t \in NodeTypes PROVE Cardinality(HeldAt(last, t)') = counts'[last][t]
      <4>1. \A n \in DOMAIN fields : fields[n].report_id # id
        BY <1>2 DEF IInv, IdsInv
      <4>2. HeldAt(last, t)' = {}
        <5>1. \A n \in DOMAIN fields' : fields'[n].report_id # report_ids'[last]
          BY <2>4, <4>1
        <5> QED
          BY <5>1 DEF HeldAt
      <4> QED
        BY <2>3, <2>5, <4>2, FS_EmptySet
    <3>3. ASSUME NEW k \in (DOMAIN report_ids)', NEW t \in NodeTypes
          PROVE  (Cardinality(HeldAt(k, t)) = counts[k][t])'
      <4>1. k \in D \/ k = last
        BY <2>4
      <4>2. CASE k \in D
        BY <3>1, <4>2
      <4>3. CASE k = last
        BY <3>2, <4>3
      <4> QED
        BY <4>1, <4>2, <4>3
    <3> QED
      BY <3>3 DEF AllCounted
  <2> QED
    BY <2>8, <2>9 DEF CountsExact
<1> QED
  BY <1>1, <1>2 DEF UseReportId

\* add_field() counts what it declares, and keeps all of it if there is room.
LEMMA AddFieldCounts ==
    ASSUME IInv, CountsExact, NEW i \in Items, Tag(i) \in NodeTypes,
           fields' = fields \o [n \in 1..Room |-> Field(i, n)],
           CountFields(Tag(i)), UNCHANGED report_ids
    PROVE  CountsExact'
<1> DEFINE D == DOMAIN report_ids
           here == table["report_ids_index"]
           more == table["report_count"]
           f == [k \in D |-> Total(k)]
           g == [k \in D |-> Total(k)']
<1>1. /\ Len(fields) \in Nat /\ Len(fields') = Len(fields) + Room
      /\ more \in Nat /\ here \in D
      /\ counts' \in Seq([NodeTypes -> Nat]) /\ Len(counts') = Len(counts)
      /\ \A k \in D, t \in NodeTypes :
            counts'[k][t] = IF k = here /\ t = Tag(i) THEN counts[k][t] + more ELSE counts[k][t]
  BY AddFieldAdds
<1>2. /\ IsFiniteSet(D) /\ MaxFields \in Nat
      /\ \A k \in D, t \in NodeTypes : counts[k][t] \in Nat
  <2>1. /\ report_ids \in Seq(0..255) /\ counts \in Seq([NodeTypes -> Nat])
        /\ Len(counts) = Len(report_ids)
    BY DEF IInv, TypeOK, FieldOK, IdsInv
  <2>2. D = 1..Len(report_ids) /\ D = DOMAIN counts /\ Len(report_ids) \in Nat
    BY <2>1
  <2>3. IsFiniteSet(D)
    BY <2>2, FS_Interval
  <2> QED
    BY <2>1, <2>2, <2>3, LimitsAssumption
<1> HIDE DEF D, here, more
<1>3. \A k \in D : Total(k) \in Nat /\ Total(k)' = Total(k) + (IF k = here THEN more ELSE 0)
  <2> SUFFICES ASSUME NEW k \in D
               PROVE  Total(k) \in Nat /\ Total(k)' = Total(k) + (IF k = here THEN more ELSE 0)
    OBVIOUS
  <2>1. \A t \in {"Input", "Output", "Feature"} :
           /\ counts[k][t] \in Nat
           /\ counts'[k][t] = IF k = here /\ t = Tag(i) THEN counts[k][t] + more ELSE counts[k][t]
    BY <1>1, <1>2 DEF NodeTypes
  <2>2. Tag(i) \in {"Input", "Output", "Feature"}
    BY DEF NodeTypes
  <2>3. /\ Total(k) = counts[k]["Input"] + counts[k]["Output"] + counts[k]["Feature"]
        /\ Total(k)' = counts'[k]["Input"] + counts'[k]["Output"] + counts'[k]["Feature"]
    BY DEF Total
  <2>4. PICK a, b, c \in Nat : /\ a = counts[k]["Input"] /\ b = counts[k]["Output"]
                               /\ c = counts[k]["Feature"]
    BY <2>1
  <2>5. CASE k # here
    <3>1. counts'[k]["Input"] = a /\ counts'[k]["Output"] = b /\ counts'[k]["Feature"] = c
      BY <2>1, <2>4, <2>5
    <3>2. Total(k) = a + b + c /\ Total(k)' = a + b + c
      BY ONLY <2>3, <2>4, <3>1
    <3> QED
      BY ONLY <2>4, <2>5, <3>2
  <2>6. CASE k = here
    <3>1. /\ counts'[k]["Input"] = IF Tag(i) = "Input" THEN a + more ELSE a
          /\ counts'[k]["Output"] = IF Tag(i) = "Output" THEN b + more ELSE b
          /\ counts'[k]["Feature"] = IF Tag(i) = "Feature" THEN c + more ELSE c
      BY <2>1, <2>4, <2>6
    <3>2. more \in Nat
      BY <1>1
    <3> QED
      BY ONLY <2>2, <2>3, <2>4, <2>6, <3>1, <3>2
  <2> QED
    BY <2>5, <2>6
<1>4. DeclaredFields' = DeclaredFields + more /\ DeclaredFields \in Int
  <2>0. DeclaredFields = SumFunction(f) /\ DeclaredFields' = SumFunction(g)
    BY DEF DeclaredFields, Total, D
  <2>1. DeclaredFields = SumFunctionOnSet(f, D)
    BY <2>0, SumOverDomain
  <2>2. DeclaredFields' = SumFunctionOnSet(g, D)
    BY <2>0, SumOverDomain
  <2>3. \A k \in D : f[k] \in Int /\ g[k] = f[k] + (IF k = here THEN more ELSE 0)
    BY <1>3
  <2> HIDE DEF f, g
  <2>4. g[here] = f[here] + more /\ \A k \in D \ {here} : g[k] = f[k]
    BY <1>1, <2>3
  <2> QED
    BY <1>1, <1>2, <2>1, <2>2, <2>3, <2>4, SumLarger, SumTyped
<1>5. ASSUME DeclaredFields' <= MaxFields
      PROVE  Room = more /\ AllCounted /\ Len(fields) = DeclaredFields
  <2>1. DeclaredFields <= MaxFields
    BY <1>1, <1>2, <1>4, <1>5
  <2>2. AllCounted /\ Len(fields) = DeclaredFields
    BY <2>1 DEF CountsExact
  <2>3. Len(fields) + more <= MaxFields
    BY <1>4, <1>5, <2>2
  <2> QED
    BY <2>2, <2>3 DEF Room, more
<1>6. ASSUME DeclaredFields' <= MaxFields, NEW k \in D, NEW t \in NodeTypes
      PROVE  Cardinality(HeldAt(k, t)') = counts'[k][t]
  <2>1. Cardinality(HeldAt(k, t)') =
           Cardinality(HeldAt(k, t)) + (IF k = here /\ t = Tag(i) THEN Room ELSE 0)
    BY HeldAdded DEF D, here
  <2>2. Room = more /\ Cardinality(HeldAt(k, t)) = counts[k][t]
    BY <1>5, <1>6 DEF AllCounted, D
  <2> QED
    BY <1>1, <1>2, <2>1, <2>2
<1> QED
  BY <1>1, <1>4, <1>5, <1>6 DEF CountsExact, AllCounted, D

\* No step makes the counts and the fields disagree.
LEMMA CountsStep ==
    ASSUME IInv, CountsExact, [Next]_vars
    PROVE  CountsExact'
<1>0. ASSUME UNCHANGED <<report_ids, fieldVars>> PROVE CountsExact'
  BY <1>0 DEF CountsExact, AllCounted, DeclaredFields, HeldAt, fieldVars
<1> USE DEF Reject
<1>1. ASSUME NEW i \in Items, SetReportId(i) PROVE CountsExact'
  BY <1>0, <1>1, UseReportIdCounts DEF SetReportId
<1>2. ASSUME NEW i \in Items, GlobalItem(i), ~SetReportId(i) PROVE CountsExact'
  BY <1>0, <1>2 DEF GlobalItem, SetUsagePage, SetReportSize, SetReportCount,
     SetLogicalMin, SetLogicalMax, SetPhysicalMin, SetPhysicalMax, SetUnit, SetUnitExp,
     Push, Pop, SetUpTo, Set
<1>3. ASSUME NEW i \in Items, AddField(i) PROVE CountsExact'
  BY <1>0, <1>3, AddFieldCounts DEF AddField
<1>4. ASSUME NEW i \in Items, StartCollection(i) \/ EndCollection(i) PROVE CountsExact'
  BY <1>0, <1>4 DEF StartCollection, EndCollection
<1>5. ASSUME NEW i \in Items, LocalItem(i) \/ RejectItem(i) PROVE CountsExact'
  BY <1>0, <1>5 DEF LocalItem, AddUsage, SetUsageMin, SetUsageMax, SetUsageBound, RejectItem
<1>6. CASE RejectStream \/ Finish \/ UNCHANGED vars
  BY <1>0, <1>6 DEF RejectStream, Finish, vars
<1> QED
  BY <1>1, <1>2, <1>3, <1>4, <1>5, <1>6 DEF Next, MainItem

\* CountsExact is an invariant.
LEMMA CountsHold == Spec => [](IInv /\ CountsExact)
<1>1. ASSUME Init PROVE CountsExact
  <2> DEFINE f == [k \in {1} |-> Total(k)]
  <2>1. DOMAIN report_ids = {1} /\ fields = <<>> /\ \A t \in NodeTypes : counts[1][t] = 0
    BY <1>1 DEF Init
  <2>2. f[1] = 0
    BY <2>1 DEF Total, NodeTypes
  <2>3. DeclaredFields = SumFunction(f) /\ DOMAIN f = {1}
    BY <2>1 DEF DeclaredFields, Total
  <2> HIDE DEF f
  <2>4. PICK S : S = {1}
    OBVIOUS
  <2>5. IsFiniteSet(S) /\ 1 \in S /\ S \ {1} = {} /\ \A x \in S : f[x] \in Int
    <3>1. IsFiniteSet(S)
      BY <2>4, FS_Singleton
    <3> QED
      BY <2>2, <2>4, <3>1
  <2>6. DeclaredFields = 0
    <3>1. SumFunction(f) = SumFunctionOnSet(f, S)
      BY <2>3, <2>4, SumOverDomain
    <3>2. SumFunctionOnSet(f, S) = f[1] + SumFunctionOnSet(f, S \ {1})
      BY <2>5, SumWithout
    <3>3. SumFunctionOnSet(f, S \ {1}) = 0
      BY <2>5, SumEmpty
    <3> QED
      BY <2>2, <2>3, <3>1, <3>2, <3>3
  <2>7. AllCounted
    <3>1. \A k \in DOMAIN report_ids, t \in NodeTypes : HeldAt(k, t) = {} /\ counts[k][t] = 0
      BY <2>1 DEF HeldAt
    <3> QED
      BY <3>1, FS_EmptySet DEF AllCounted
  <2> QED
    BY <2>1, <2>6, <2>7 DEF CountsExact
<1>2. IInv /\ CountsExact /\ [Next]_vars => CountsExact'
  BY CountsStep
<1> QED
  BY <1>1, <1>2, Invariance, PTL DEF Spec

-------------------------------------------------------------------------------
(* The size of a report.                                                     *)

\* The bytes of a report hold its bits, and no byte is left over.
LEMMA ByteSizeHolds ==
    ASSUME IInv, NullIdFirst, NEW k \in Reports, NEW t \in NodeTypes, NEW id,
           id = report_ids[k]
    PROVE  IF {n \in DOMAIN fields : fields[n].type = t /\ fields[n].report_id = id} = {}
           THEN ByteSize(k, t) = 0
           ELSE \E bits \in Int :
                   /\ bits = BitsAfter(id, t) + (IF NoReportId THEN 0 ELSE 8)
                   /\ ByteSize(k, t) = (bits + 7) \div 8
<1> DEFINE bit_sz == [n \in DOMAIN fields |-> fields[n].bit_sz]
<1> DEFINE those == [n \in DOMAIN fields |->
                      IF fields[n].type = t /\ fields[n].report_id = id
                      THEN fields[n].bit_sz ELSE 0]
<1>1. PICK D, C : D = DOMAIN fields /\ C = HeldAt(k, t)
  OBVIOUS
<1>2. C = {n \in DOMAIN fields : fields[n].type = t /\ fields[n].report_id = id}
  BY <1>1 DEF HeldAt
<1>3. {m \in HeldAt(k, t) : m < Len(fields) + 1} = C
  BY <1>1, ReportFacts DEF HeldAt
<1>4. /\ IsFiniteSet(D) /\ C \in SUBSET D
      /\ \A n \in D : bit_sz[n] \in Int
      /\ \A n \in D : those[n] = IF n \in C THEN bit_sz[n] ELSE 0
      /\ DOMAIN those = D
  BY <1>1, <1>2, ReportFacts DEF FieldSpace
<1>5. BitsAfter(id, t) = SumFunctionOnSet(those, D)
  BY <1>4, Zenon DEF BitsAfter, SumFunction
<1>6. Offset(k, t, Len(fields) + 1) = (IF NoReportId THEN 0 ELSE 8) + SumFunctionOnSet(bit_sz, C)
  BY <1>3 DEF Offset
<1> HIDE DEF bit_sz, those
<1>7. SumFunctionOnSet(those, D) = SumFunctionOnSet(bit_sz, C)
  BY <1>4, SumFiltered
<1>8. SumFunctionOnSet(bit_sz, C) \in Int
  <2>1. IsFiniteSet(C) /\ \A n \in C : bit_sz[n] \in Int
    BY <1>4, FS_Subset
  <2> QED
    BY <2>1, SumTyped
<1>9. CASE C = {}
  BY <1>1, <1>2, <1>9 DEF ByteSize
<1>10. CASE C # {}
  <2>1. PICK bits : bits = Offset(k, t, Len(fields) + 1)
    OBVIOUS
  <2>2. bits \in Int /\ bits = BitsAfter(id, t) + (IF NoReportId THEN 0 ELSE 8)
    BY <1>5, <1>6, <1>7, <1>8, <2>1
  <2>3. ByteSize(k, t) = (bits + 7) \div 8
    BY <1>1, <1>10, <2>1 DEF ByteSize
  <2> QED
    BY <1>2, <1>10, <2>2, <2>3
<1> QED
  BY <1>9, <1>10

\* The report that the first byte starts.
LEMMA FirstByteSelects ==
    ASSUME IInv, NullIdFirst, NEW byte, NEW t \in NodeTypes
    PROVE  \/ \E k \in Reports : /\ SizeFromFirstByte(t, byte) = ByteSize(k, t)
                                 /\ report_ids[k] = IF NoReportId THEN 0 ELSE byte
           \/ /\ SizeFromFirstByte(t, byte) = 0
              /\ ~NoReportId
              /\ \A k \in Reports : report_ids[k] # byte
<1> DEFINE matching == {k \in Reports : report_ids[k] \in {byte, 0}}
<1>1. CASE matching = {}
  <2>1. SizeFromFirstByte(t, byte) = 0
    BY <1>1 DEF SizeFromFirstByte
  <2>2. ~NoReportId
    BY <1>1, ReportFacts
  <2> QED
    BY <1>1, <2>1, <2>2
<1>2. CASE matching # {}
  <2>1. PICK k \in Reports : k \in matching
    BY <1>2
  <2>2. report_ids[k] = IF NoReportId THEN 0 ELSE byte
    BY <2>1, ReportFacts
  <2>3. \A j \in matching : j = k
    <3>1. \A j \in matching : report_ids[j] = report_ids[k]
      BY <2>1, ReportFacts
    <3> QED
      BY <2>1, <3>1, ReportFacts DEF IInv, IdsInv
  <2>4. k \in Nat
    BY ReportFacts
  <2>5. k = CHOOSE l \in matching : \A j \in matching : l <= j
    <3>1. k \in matching /\ \A j \in matching : k <= j
      BY <2>1, <2>3, <2>4
    <3> HIDE DEF matching
    <3>2. PICK c : c = CHOOSE l \in matching : \A j \in matching : l <= j
      OBVIOUS
    <3>3. c \in matching
      BY <3>1, <3>2, Zenon
    <3> QED
      BY <2>3, <3>2, <3>3
  <2>6. SizeFromFirstByte(t, byte) = ByteSize(k, t)
    BY <1>2, <2>5 DEF SizeFromFirstByte
  <2> QED
    BY <2>2, <2>6
<1> QED
  BY <1>1, <1>2

LEMMA RoundingUp ==
    ASSUME NEW bits \in Int, NEW size, size = (bits + 7) \div 8
    PROVE  8 * size >= bits /\ 8 * (size - 1) < bits
  OBVIOUS

LEMMA SizeFromByte ==
    ASSUME IInv, NullIdFirst
    PROVE  FirstByteFindsSize
<1> SUFFICES ASSUME NEW byte \in Bytes, NEW t \in NodeTypes
             PROVE  LET size == SizeFromFirstByte(t, byte)
                        id == IF NoReportId THEN 0 ELSE byte
                        here == {n \in DOMAIN fields :
                                   fields[n].type = t /\ fields[n].report_id = id}
                        bits == BitsAfter(id, t) + IF NoReportId THEN 0 ELSE 8
                    IN  IF (byte = 0 /\ ~NoReportId) \/ here = {} THEN size = 0
                        ELSE 8 * size >= bits /\ 8 * (size - 1) < bits
  BY DEF FirstByteFindsSize
<1>1. PICK size, id, here, add : 
         /\ size = SizeFromFirstByte(t, byte)
         /\ id = IF NoReportId THEN 0 ELSE byte
         /\ here = {n \in DOMAIN fields : fields[n].type = t /\ fields[n].report_id = id}
         /\ add = IF NoReportId THEN 0 ELSE 8
  OBVIOUS
<1>2. SUFFICES IF (byte = 0 /\ ~NoReportId) \/ here = {} THEN size = 0
               ELSE 8 * size >= BitsAfter(id, t) + add /\ 8 * (size - 1) < BitsAfter(id, t) + add
  BY <1>1
<1>3. ASSUME NEW k \in Reports, size = ByteSize(k, t), report_ids[k] = id
      PROVE  IF (byte = 0 /\ ~NoReportId) \/ here = {} THEN size = 0
             ELSE 8 * size >= BitsAfter(id, t) + add /\ 8 * (size - 1) < BitsAfter(id, t) + add
  <2>1. ~(byte = 0 /\ ~NoReportId)
    BY <1>1, <1>3, ReportFacts
  <2>2. IF here = {} THEN size = 0
        ELSE \E bits \in Int : bits = BitsAfter(id, t) + add /\ size = (bits + 7) \div 8
    BY <1>1, <1>3, ByteSizeHolds
  <2>3. CASE here = {}
    BY <2>2, <2>3
  <2>4. CASE here # {}
    <3>1. PICK bits \in Int : bits = BitsAfter(id, t) + add /\ size = (bits + 7) \div 8
      BY <2>2, <2>4
    <3>2. 8 * size >= bits /\ 8 * (size - 1) < bits
      BY <3>1, RoundingUp
    <3> QED
      BY <2>1, <2>4, <3>1, <3>2
  <2> QED
    BY <2>3, <2>4
<1>4. ASSUME size = 0, ~NoReportId, \A k \in Reports : report_ids[k] # byte
      PROVE  byte = 0 \/ here = {}
  <2> SUFFICES ASSUME NEW n \in here, byte # 0 PROVE FALSE
    OBVIOUS
  <2>1. PICK k \in DOMAIN report_ids : report_ids[k] = byte
    BY <1>1, <1>4 DEF IInv, IdsInv
  <2> QED
    BY <1>4, <2>1, ReportFacts
<1> QED
  BY <1>1, <1>3, <1>4, FirstByteSelects

\* The size of a report by its first byte is that of its fields (Finish() and
\* GetReportSizeFromFirstByte()).
THEOREM SizeIsFound == Spec => []FirstByteFindsSize
<1>1. IInv /\ NullIdFirst => FirstByteFindsSize
  BY SizeFromByte
<1> QED
  BY <1>1, NullIdHolds, PTL

-------------------------------------------------------------------------------
(* The places of the fields.                                                 *)

\* Intervals of lengths a, one behind the other from p[1] = 0, are disjoint and cover
\* everything up to the end of the last one.
LEMMA IntervalsTile ==
    ASSUME NEW L \in Nat, NEW R \in SUBSET (1..L), NEW a \in [R -> Nat],
           NEW p \in [1 .. L + 1 -> Int], p[1] = 0,
           \A k \in 1..L : p[k + 1] = p[k] + (IF k \in R THEN a[k] ELSE 0)
    PROVE  /\ \A k \in R : 0 <= p[k] /\ p[k] + a[k] <= p[L + 1]
           /\ \A j, k \in R : j < k => p[j] + a[j] <= p[k]
           /\ \A x \in 0 .. p[L + 1] - 1 : \E k \in R : p[k] <= x /\ x < p[k] + a[k]
<1> DEFINE S == {n \in Nat : n + 1 \in 1 .. L + 1 =>
                   /\ 0 <= p[n + 1]
                   /\ \A j \in R : j <= n => p[j] + a[j] <= p[n + 1]
                   /\ \A x \in 0 .. p[n + 1] - 1 : \E k \in R : p[k] <= x /\ x < p[k] + a[k]}
<1>0. \A j \in R : j \in Int /\ p[j] \in Int /\ a[j] \in Nat
  OBVIOUS
<1>1. 0 \in S
  OBVIOUS
<1>2. ASSUME NEW n \in Nat, n \in S PROVE n + 1 \in S
  <2> SUFFICES ASSUME n + 1 \in 1..L
               PROVE  /\ 0 <= p[n + 2]
                      /\ \A j \in R : j <= n + 1 => p[j] + a[j] <= p[n + 2]
                      /\ \A x \in 0 .. p[n + 2] - 1 :
                            \E k \in R : p[k] <= x /\ x < p[k] + a[k]
    OBVIOUS
  <2>1. PICK d \in Nat : d = IF n + 1 \in R THEN a[n + 1] ELSE 0
    OBVIOUS
  <2>2. PICK q, r \in Int : q = p[n + 1] /\ r = p[n + 2] /\ r = q + d
    BY <2>1
  <2>3. 0 <= q /\ \A j \in R : j <= n => p[j] + a[j] <= q
    BY <1>2, <2>2
  <2>4. ASSUME NEW j \in R, j <= n + 1 PROVE p[j] + a[j] <= r
    <3>1. CASE j = n + 1
      BY <2>1, <2>2, <3>1
    <3>2. CASE j # n + 1
      <4>1. j <= n /\ p[j] + a[j] \in Int
        <5>1. j \in Int /\ p[j] \in Int /\ a[j] \in Nat /\ n \in Nat
          BY <1>0
        <5> QED
          BY ONLY <2>4, <3>2, <5>1
      <4>2. p[j] + a[j] <= q
        BY <2>3, <4>1
      <4> QED
        BY ONLY <2>1, <2>2, <4>1, <4>2
    <3> QED
      BY <3>1, <3>2
  <2>5. ASSUME NEW x \in 0 .. r - 1 PROVE \E k \in R : p[k] <= x /\ x < p[k] + a[k]
    <3>1. CASE x < q
      <4>1. x \in 0 .. p[n + 1] - 1
        BY <2>2, <3>1
      <4> QED
        BY <1>2, <4>1
    <3>2. CASE ~(x < q)
      <4>1. n + 1 \in R
        <5>1. d # 0
          BY ONLY <2>2, <2>5, <3>2
        <5> QED
          BY <2>1, <5>1
      <4>2. d = a[n + 1]
        BY <2>1, <4>1
      <4>3. q <= x /\ x < q + d
        <5>1. x \in Int /\ 0 <= x /\ x <= r - 1
          BY ONLY <2>2, <2>5
        <5> QED
          BY ONLY <2>1, <2>2, <3>2, <5>1
      <4> QED
        BY <2>2, <4>1, <4>2, <4>3
    <3> QED
      BY <3>1, <3>2
  <2> QED
    BY <2>2, <2>3, <2>4, <2>5
<1> HIDE DEF S
<1>3. Nat \subseteq S
  BY <1>1, <1>2, SetInduction
<1>4. /\ \A k \in R : k - 1 \in S /\ L \in S
      /\ \A k \in R : (k - 1) + 1 = k /\ k \in 1 .. L + 1
  BY <1>3
<1>5. \A k \in R : 0 <= p[k] /\ \A j \in R : j < k => p[j] + a[j] <= p[k]
  BY <1>4 DEF S
<1>6. /\ \A j \in R : p[j] + a[j] <= p[L + 1]
      /\ \A x \in 0 .. p[L + 1] - 1 : \E k \in R : p[k] <= x /\ x < p[k] + a[k]
  <2>1. L \in S
    BY <1>3
  <2> QED
    BY <2>1 DEF S
<1> QED
  BY <1>5, <1>6

LEMMA HeldFinite ==
    ASSUME IInv, NullIdFirst
    PROVE  /\ \A k : IsFiniteSet(AllHeldAt(k)) /\ Cardinality(AllHeldAt(k)) \in Nat
           /\ \A k, t : IsFiniteSet(HeldAt(k, t)) /\ Cardinality(HeldAt(k, t)) \in Nat
<1>1. IsFiniteSet(DOMAIN fields)
  BY ReportFacts
<1>2. \A k : AllHeldAt(k) \in SUBSET DOMAIN fields
  BY DEF AllHeldAt
<1>3. \A k, t : HeldAt(k, t) \in SUBSET DOMAIN fields
  BY DEF HeldAt
<1> QED
  BY <1>1, <1>2, <1>3, FS_Subset, FS_CardinalityType

\* How many fields have been packed, report by report.
LEMMA PackedStep ==
    ASSUME IInv, NullIdFirst
    PROVE  /\ Packed(1) = 0
           /\ \A k \in DOMAIN report_ids :
                 /\ Packed(k) \in Int
                 /\ Packed(k + 1) = Packed(k) + (IF k \in Reports THEN Cardinality(AllHeldAt(k)) ELSE 0)
<1> DEFINE size == [j \in Reports |-> Cardinality(AllHeldAt(j))]
<1> DEFINE Before(k) == {j \in Reports : j < k}
<1>1. \A j \in Reports : size[j] = Cardinality(AllHeldAt(j)) /\ size[j] \in Int
  BY HeldFinite
<1>2. PICK L \in Nat : L = Len(report_ids) /\ DOMAIN report_ids = 1..L /\ Reports \subseteq 1..L
  BY ReportFacts
<1>3. \A k : Packed(k) = SumFunctionOnSet(size, Before(k))
  BY Zenon DEF Packed
<1>4. IsFiniteSet(Reports) /\ \A j \in Reports : j \in 1..L /\ j \in Int /\ ~(j < 1)
  <2>1. IsFiniteSet(1..L) /\ Reports \in SUBSET (1..L)
    BY <1>2, FS_Interval
  <2>2. IsFiniteSet(Reports)
    BY <2>1, FS_Subset
  <2> QED
    BY <2>1, <2>2
<1>5. \A k : IsFiniteSet(Before(k)) /\ \A j \in Before(k) : size[j] \in Int
  BY <1>1, <1>4, FS_Subset
<1> HIDE DEF size
<1>6. Packed(1) = 0
  <2>1. Before(1) = {}
    BY <1>4
  <2> QED
    BY <1>3, <2>1, SumEmpty
<1>7. \A k : Packed(k) \in Int
  BY <1>3, <1>5, SumTyped
<1>8. ASSUME NEW k \in 1..L
      PROVE  Packed(k + 1) = Packed(k) + (IF k \in Reports THEN Cardinality(AllHeldAt(k)) ELSE 0)
  <2>1. CASE k \in Reports
    <3>1. Before(k + 1) \ {k} = Before(k) /\ k \in Before(k + 1)
      <4>1. \A j \in Reports : (j < k + 1 /\ j # k <=> j < k)
        BY <1>4
      <4>2. k < k + 1
        OBVIOUS
      <4> QED
        BY <2>1, <4>1, <4>2
    <3>2. PICK T : T = Before(k + 1)
      OBVIOUS
    <3>3. SumFunctionOnSet(size, T) = size[k] + SumFunctionOnSet(size, T \ {k})
      BY <1>5, <3>1, <3>2, SumWithout
    <3>4. Packed(k + 1) = size[k] + Packed(k)
      BY <1>3, <3>1, <3>2, <3>3
    <3>5. size[k] = Cardinality(AllHeldAt(k)) /\ size[k] \in Int /\ Packed(k) \in Int
      BY <1>1, <1>7, <2>1
    <3> QED
      BY <2>1, <3>4, <3>5
  <2>2. CASE k \notin Reports
    <3>1. Before(k + 1) = Before(k)
      <4>1. \A j \in Reports : j < k + 1 <=> j < k
        BY <1>4, <2>2
      <4> QED
        BY <4>1
    <3>2. Packed(k + 1) = Packed(k) /\ Packed(k) \in Int
      BY <1>3, <1>7, <3>1
    <3>3. PICK c \in Int : c = Packed(k) /\ c = Packed(k + 1)
      BY <3>2
    <3> QED
      BY <2>2, <3>3
  <2> QED
    BY <2>1, <2>2
<1> QED
  BY <1>2, <1>6, <1>7, <1>8

\* They are all different: at the end they are the fields that some report holds.
LEMMA PackedIsCardinality ==
    ASSUME IInv, NullIdFirst
    PROVE  Packed(Len(report_ids) + 1) = Cardinality(Kept)
<1> DEFINE Held(k) == {n \in DOMAIN fields : \E j \in Reports : j < k /\ n \in AllHeldAt(j)}
<1>1. PICK L \in Nat : L = Len(report_ids) /\ DOMAIN report_ids = 1..L /\ Reports \subseteq 1..L
  BY ReportFacts
<1>2. \A k : IsFiniteSet(Held(k)) /\ Cardinality(Held(k)) \in Nat
  BY ReportFacts, FS_Subset, FS_CardinalityType
<1>3. \A j, k \in Reports : \A n \in AllHeldAt(j) : n \in AllHeldAt(k) => j = k
  BY ReportFacts DEF AllHeldAt, IInv, IdsInv
<1> DEFINE S == {n \in Nat : n <= L => Packed(n + 1) = Cardinality(Held(n + 1))}
<1>4. 0 \in S
  <2>1. Held(1) = {}
    BY <1>1
  <2>2. Packed(1) = Cardinality(Held(1))
    BY <2>1, PackedStep, FS_EmptySet
  <2> QED
    BY <2>2
<1>5. ASSUME NEW n \in Nat, n \in S PROVE n + 1 \in S
  <2> SUFFICES ASSUME n + 1 <= L PROVE Packed(n + 1 + 1) = Cardinality(Held(n + 1 + 1))
    OBVIOUS
  <2>1. PICK k : k = n + 1 /\ k \in 1..L
    OBVIOUS
  <2>2. Packed(k) = Cardinality(Held(k))
    BY <1>5, <2>1
  <2>3. /\ Packed(k) \in Int
        /\ Packed(k + 1) = Packed(k) + (IF k \in Reports THEN Cardinality(AllHeldAt(k)) ELSE 0)
    BY <1>1, <2>1, PackedStep
  <2>4. CASE k \in Reports
    <3>1. Held(k + 1) = Held(k) \cup AllHeldAt(k)
      <4>1. \A j \in Reports : j < k + 1 <=> j < k \/ j = k
        BY <1>1, <2>1
      <4>2. k < k + 1 /\ AllHeldAt(k) \subseteq DOMAIN fields
        BY <2>1 DEF AllHeldAt
      <4> HIDE DEF Held
      <4>3. \A m : m \in Held(k + 1) <=> m \in Held(k) \/ m \in AllHeldAt(k)
        BY <2>4, <4>1, <4>2 DEF Held
      <4> QED
        BY <4>3
    <3>2. Held(k) \cap AllHeldAt(k) = {}
      BY <1>1, <1>3, <2>4
    <3>3. PICK A, B : A = Held(k) /\ B = AllHeldAt(k)
      OBVIOUS
    <3>4. /\ IsFiniteSet(A) /\ IsFiniteSet(B)
          /\ Cardinality(A) \in Nat /\ Cardinality(B) \in Nat
      BY <1>2, <3>3, HeldFinite
    <3>5. Cardinality(A \cup B) = Cardinality(A) + Cardinality(B) - Cardinality(A \cap B)
      BY <3>4, FS_Union
    <3>6. Cardinality(A \cap B) = 0
      BY <3>2, <3>3, FS_EmptySet
    <3>7. Packed(k + 1) = Packed(k) + Cardinality(B)
      BY <2>3, <2>4, <3>3
    <3>8. Packed(k + 1) = Cardinality(A \cup B)
      BY <2>2, <3>3, <3>4, <3>5, <3>6, <3>7
    <3> QED
      BY <2>1, <3>1, <3>3, <3>8
  <2>5. CASE k \notin Reports
    <3>1. Held(k + 1) = Held(k)
      BY <1>1, <2>1, <2>5
    <3>2. PICK c \in Int : c = Packed(k)
      BY <2>3
    <3>3. Packed(k + 1) = c + 0
      BY <2>3, <2>5, <3>2
    <3>4. Packed(k + 1) = Packed(k)
      BY <3>2, <3>3
    <3>5. Packed(k + 1) = Cardinality(Held(k + 1))
      BY <2>2, <3>1, <3>4
    <3> QED
      BY <2>1, <3>5
  <2> QED
    BY <2>4, <2>5
<1> HIDE DEF S
<1>6. L \in S
  BY <1>4, <1>5, SetInduction
<1>7. Packed(L + 1) = Cardinality(Held(L + 1))
  BY <1>6 DEF S
<1>8. Held(L + 1) = Kept
  BY <1>1 DEF Kept
<1> QED
  BY <1>1, <1>7, <1>8

LEMMA ThreeIntervals ==
    ASSUME NEW p \in Int, NEW i \in Nat, NEW o \in Nat, NEW f \in Nat, NEW I, NEW O, NEW F,
           I = p .. p + i - 1, O = p + i .. p + i + o - 1,
           F = p + i + o .. p + i + o + f - 1
    PROVE  /\ (I \cup O) \cup F = p .. p + (i + o + f) - 1
           /\ I \cap O = {} /\ O \cap F = {} /\ I \cap F = {}
<1>1. \A x : x \in (I \cup O) \cup F <=> x \in p .. p + (i + o + f) - 1
  OBVIOUS
<1>2. I \cap O = {}
  OBVIOUS
<1>3. O \cap F = {}
  OBVIOUS
<1>4. I \cap F = {}
  OBVIOUS
<1> QED
  BY <1>1, <1>2, <1>3, <1>4

\* The slots of a report: inputs, outputs and features one behind the other.
LEMMA SlotsOfReport ==
    ASSUME IInv, NullIdFirst, AllCounted, NEW k \in Reports
    PROVE  /\ UNION {Slots(k, t) : t \in NodeTypes}
                = Packed(k) .. (Packed(k) + Cardinality(AllHeldAt(k)) - 1)
           /\ \A t, u \in NodeTypes : t # u => Slots(k, t) \cap Slots(k, u) = {}
<1>1. k \in DOMAIN report_ids
  BY ReportFacts
<1>2. PICK A, B, C : /\ A = HeldAt(k, "Input") /\ B = HeldAt(k, "Output")
                     /\ C = HeldAt(k, "Feature")
  OBVIOUS
<1>3. PICK i, o, f \in Nat :
         /\ i = Cardinality(A) /\ o = Cardinality(B) /\ f = Cardinality(C)
         /\ IsFiniteSet(A) /\ IsFiniteSet(B) /\ IsFiniteSet(C)
  BY <1>2, HeldFinite
<1>4. i = counts[k]["Input"] /\ o = counts[k]["Output"] /\ f = counts[k]["Feature"]
  BY <1>1, <1>2, <1>3 DEF AllCounted, NodeTypes
<1>5. AllHeldAt(k) = (A \cup B) \cup C
  <2>1. \A n \in DOMAIN fields : fields[n].type \in NodeTypes
    BY ReportFacts DEF FieldSpace
  <2> QED
    BY <1>2, <2>1 DEF AllHeldAt, HeldAt, NodeTypes
<1>6. A \cap B = {} /\ (A \cup B) \cap C = {}
  BY <1>2 DEF HeldAt
<1>7. Cardinality(AllHeldAt(k)) = i + o + f
  <2>1. Cardinality({}) = 0
    BY FS_EmptySet
  <2>2. PICK D : D = A \cup B
    OBVIOUS
  <2>3. IsFiniteSet(D) /\ Cardinality(D) = Cardinality(A) + Cardinality(B) - Cardinality(A \cap B)
    BY <1>3, <2>2, FS_Union
  <2>4. Cardinality(D) = i + o
    <3>1. Cardinality(A \cap B) = 0
      BY <1>6, <2>1
    <3> QED
      BY ONLY <1>3, <2>3, <3>1
  <2>5. Cardinality(D \cup C) = Cardinality(D) + Cardinality(C) - Cardinality(D \cap C)
    BY <1>3, <2>3, FS_Union
  <2>6. Cardinality(D \cap C) = 0
    BY <1>6, <2>1, <2>2
  <2>7. Cardinality(D \cup C) = i + o + f
    BY ONLY <1>3, <2>4, <2>5, <2>6
  <2> QED
    BY <1>5, <2>2, <2>7
<1>8. /\ Start(k, "Input") = Packed(k)
      /\ Start(k, "Output") = Packed(k) + i
      /\ Start(k, "Feature") = Packed(k) + i + o
  BY <1>4 DEF Start
<1>9. /\ Slots(k, "Input") = Packed(k) .. (Packed(k) + i - 1)
      /\ Slots(k, "Output") = (Packed(k) + i) .. (Packed(k) + i + o - 1)
      /\ Slots(k, "Feature") = (Packed(k) + i + o) .. (Packed(k) + i + o + f - 1)
  BY <1>2, <1>3, <1>8 DEF Slots
<1>10. PICK p \in Int : p = Packed(k)
  BY <1>1, PackedStep
<1>11. PICK I, O, F :
          /\ I = Slots(k, "Input") /\ O = Slots(k, "Output") /\ F = Slots(k, "Feature")
          /\ I = p .. p + i - 1 /\ O = p + i .. p + i + o - 1
          /\ F = p + i + o .. p + i + o + f - 1
  BY <1>9, <1>10
<1>12. /\ (I \cup O) \cup F = p .. p + (i + o + f) - 1
       /\ I \cap O = {} /\ O \cap F = {} /\ I \cap F = {}
  BY <1>11, ThreeIntervals
<1>13. UNION {Slots(k, t) : t \in NodeTypes} = (I \cup O) \cup F
  <2>1. UNION {Slots(k, t) : t \in {"Input", "Output", "Feature"}}
          = (Slots(k, "Input") \cup Slots(k, "Output")) \cup Slots(k, "Feature")
    BY Zenon
  <2> QED
    BY <1>11, <2>1 DEF NodeTypes
<1>14. \A t, u \in NodeTypes : t # u => Slots(k, t) \cap Slots(k, u) = {}
  <2>1. O \cap I = {} /\ F \cap O = {} /\ F \cap I = {}
    BY <1>12
  <2> QED
    BY <1>11, <1>12, <2>1 DEF NodeTypes
<1> QED
  BY <1>7, <1>10, <1>12, <1>13, <1>14

LEMMA SlotsTile ==
    ASSUME IInv, NullIdFirst, AllCounted
    PROVE  /\ UNION {Slots(a[1], a[2]) : a \in Reports \X NodeTypes}
                = 0 .. (Cardinality(Kept) - 1)
           /\ \A a, b \in Reports \X NodeTypes :
                 a # b => Slots(a[1], a[2]) \cap Slots(b[1], b[2]) = {}
<1>1. PICK L \in Nat : L = Len(report_ids) /\ DOMAIN report_ids = 1..L /\ Reports \subseteq 1..L
  BY ReportFacts
<1>2. PICK N \in Nat : N = Cardinality(Kept)
  BY ReportFacts, FS_Subset, FS_CardinalityType DEF Kept
<1> DEFINE p == [k \in 1 .. L + 1 |-> Packed(k)]
<1> DEFINE size == [k \in Reports |-> Cardinality(AllHeldAt(k))]
<1>3. \A k \in 1 .. L + 1 : p[k] = Packed(k)
  OBVIOUS
<1>4. \A k \in Reports : size[k] = Cardinality(AllHeldAt(k))
  OBVIOUS
<1>5. /\ p \in [1 .. L + 1 -> Int] /\ p[1] = 0 /\ p[L + 1] = N
      /\ \A k \in 1..L : p[k + 1] = p[k] + (IF k \in Reports THEN size[k] ELSE 0)
  <2>1. Packed(L + 1) = N
    BY <1>1, <1>2, PackedIsCardinality
  <2>2. \A k \in 1..L : Packed(k) \in Int
    BY <1>1, PackedStep
  <2>3. \A k \in 1 .. L + 1 : Packed(k) \in Int
    <3>1. \A k \in 1 .. L + 1 : k \in 1..L \/ k = L + 1
      OBVIOUS
    <3> QED
      BY <1>2, <2>1, <2>2, <3>1
  <2>4. \A k \in 1..L : p[k + 1] = Packed(k + 1) /\ p[k] = Packed(k)
    OBVIOUS
  <2>5. \A k \in 1..L : p[k + 1] = p[k] + (IF k \in Reports THEN size[k] ELSE 0)
    BY <1>1, <2>4, PackedStep
  <2>6. p \in [1 .. L + 1 -> Int]
    BY <2>3
  <2>7. p[1] = 0
    BY PackedStep
  <2>8. p[L + 1] = N
    BY <2>1
  <2> QED
    BY <2>5, <2>6, <2>7, <2>8
<1>6. size \in [Reports -> Nat]
  BY HeldFinite
<1> HIDE DEF p, size
<1>7. \A k \in Reports : p[k] \in Int /\ size[k] \in Nat /\ k \in 1 .. L + 1
  <2>1. \A k \in 1..L : k \in 1 .. L + 1
    OBVIOUS
  <2> QED
    BY <1>1, <1>5, <1>6, <2>1
<1>8. /\ \A k \in Reports : 0 <= p[k] /\ p[k] + size[k] <= N
      /\ \A j, k \in Reports : j < k => p[j] + size[j] <= p[k]
      /\ \A x \in 0 .. N - 1 : \E k \in Reports : p[k] <= x /\ x < p[k] + size[k]
  <2>1. Reports \in SUBSET (1..L)
    BY <1>1
  <2>2. /\ \A k \in Reports : 0 <= p[k] /\ p[k] + size[k] <= p[L + 1]
        /\ \A j, k \in Reports : j < k => p[j] + size[j] <= p[k]
        /\ \A x \in 0 .. p[L + 1] - 1 : \E k \in Reports : p[k] <= x /\ x < p[k] + size[k]
    <3>1. /\ p \in [1 .. L + 1 -> Int] /\ p[1] = 0
          /\ \A k \in 1..L : p[k + 1] = p[k] + (IF k \in Reports THEN size[k] ELSE 0)
      BY <1>5
    <3>2. PICK R : R = Reports
      OBVIOUS
    <3>3. R \in SUBSET (1..L) /\ size \in [R -> Nat]
      BY <1>6, <2>1, <3>2
    <3>4. /\ \A k \in R : 0 <= p[k] /\ p[k] + size[k] <= p[L + 1]
          /\ \A j, k \in R : j < k => p[j] + size[j] <= p[k]
          /\ \A x \in 0 .. p[L + 1] - 1 : \E k \in R : p[k] <= x /\ x < p[k] + size[k]
      BY <3>1, <3>2, <3>3, IntervalsTile
    <3> QED
      BY <3>2, <3>4
  <2> QED
    BY <1>5, <2>2
<1>9. ASSUME NEW k \in Reports
      PROVE  /\ UNION {Slots(k, t) : t \in NodeTypes} = p[k] .. (p[k] + size[k] - 1)
             /\ \A t, u \in NodeTypes : t # u => Slots(k, t) \cap Slots(k, u) = {}
  <2>1. p[k] = Packed(k) /\ size[k] = Cardinality(AllHeldAt(k))
    BY <1>3, <1>4, <1>7
  <2> QED
    BY <2>1, SlotsOfReport
\* A slot is within its report,
<1>10. ASSUME NEW k \in Reports, NEW t \in NodeTypes, NEW x \in Slots(k, t)
       PROVE  x \in Int /\ p[k] <= x /\ x < p[k] + size[k]
  <2>1. x \in UNION {Slots(k, u) : u \in NodeTypes}
    OBVIOUS
  <2>2. x \in p[k] .. (p[k] + size[k] - 1)
    BY <1>9, <2>1
  <2> QED
    BY <1>7, <2>2
\* every place of a report is in a slot,
<1>11. ASSUME NEW k \in Reports, NEW x \in Int, p[k] <= x, x < p[k] + size[k]
       PROVE  \E t \in NodeTypes : x \in Slots(k, t)
  <2>1. x \in p[k] .. (p[k] + size[k] - 1)
    BY <1>7, <1>11
  <2>2. x \in UNION {Slots(k, u) : u \in NodeTypes}
    BY <1>9, <2>1
  <2> QED
    BY <2>2
\* and in one only.
<1>12. ASSUME NEW k \in Reports, NEW t \in NodeTypes, NEW u \in NodeTypes, t # u,
              NEW x \in Slots(k, t), x \in Slots(k, u)
       PROVE  FALSE
  BY <1>9, <1>12
<1>13. ASSUME NEW j \in Reports, NEW k \in Reports, j < k, NEW t \in NodeTypes,
              NEW u \in NodeTypes, NEW x \in Slots(j, t), x \in Slots(k, u)
       PROVE  FALSE
  <2>1. x \in Int /\ p[k] <= x /\ x < p[j] + size[j]
    BY <1>10, <1>13
  <2>2. p[j] + size[j] <= p[k] /\ p[j] \in Int /\ size[j] \in Int /\ p[k] \in Int
    BY <1>7, <1>8, <1>13
  <2> QED
    BY <2>1, <2>2
<1>14. ASSUME NEW x
       PROVE  x \in UNION {Slots(a[1], a[2]) : a \in Reports \X NodeTypes} <=> x \in 0 .. N - 1
  <2>1. ASSUME x \in 0 .. N - 1
        PROVE  x \in UNION {Slots(a[1], a[2]) : a \in Reports \X NodeTypes}
    <3>1. PICK k \in Reports : p[k] <= x /\ x < p[k] + size[k]
      BY <1>8, <2>1
    <3>2. PICK t \in NodeTypes : x \in Slots(k, t)
      BY <1>11, <2>1, <3>1
    <3>3. <<k, t>> \in Reports \X NodeTypes /\ <<k, t>>[1] = k /\ <<k, t>>[2] = t
      OBVIOUS
    <3> QED
      BY <3>2, <3>3
  <2>2. ASSUME x \in UNION {Slots(a[1], a[2]) : a \in Reports \X NodeTypes}
        PROVE  x \in 0 .. N - 1
    <3>1. PICK k \in Reports, t \in NodeTypes : x \in Slots(k, t)
      BY <2>2
    <3>2. x \in Int /\ p[k] <= x /\ x < p[k] + size[k] /\ 0 <= p[k] /\ p[k] + size[k] <= N
      BY <1>8, <1>10, <3>1
    <3>3. p[k] \in Int /\ size[k] \in Int
      BY <1>7
    <3> QED
      BY <3>2, <3>3
  <2> QED
    BY <2>1, <2>2
<1>15. ASSUME NEW j \in Reports, NEW k \in Reports, NEW t \in NodeTypes, NEW u \in NodeTypes,
              <<j, t>> # <<k, u>>
       PROVE  Slots(j, t) \cap Slots(k, u) = {}
  <2> SUFFICES ASSUME NEW x \in Slots(j, t), x \in Slots(k, u) PROVE FALSE
    OBVIOUS
  <2>1. j \in Int /\ k \in Int
    BY <1>1
  <2>2. CASE j = k
    BY <1>12, <1>15, <2>2
  <2>3. CASE j < k
    BY <1>13, <2>3
  <2>4. CASE k < j
    BY <1>13, <2>4
  <2> QED
    BY <2>1, <2>2, <2>3, <2>4
<1>16. \A a, b \in Reports \X NodeTypes :
          a # b => Slots(a[1], a[2]) \cap Slots(b[1], b[2]) = {}
  <2> SUFFICES ASSUME NEW a \in Reports \X NodeTypes, NEW b \in Reports \X NodeTypes, a # b
               PROVE  Slots(a[1], a[2]) \cap Slots(b[1], b[2]) = {}
    OBVIOUS
  <2>1. PICK j \in Reports, t \in NodeTypes : a = <<j, t>>
    OBVIOUS
  <2>2. PICK k \in Reports, u \in NodeTypes : b = <<k, u>>
    OBVIOUS
  <2> QED
    BY <1>15, <2>1, <2>2
<1> QED
  BY <1>2, <1>14, <1>16

\* The arrays of the reports follow each other, whatever the order of the fields in the
\* stream, and each place of them is filled once (Finish()), for every stream that does
\* not declare more fields than there is room for.
THEOREM ArraysTile == Spec => []ReportsTile
<1>1. IInv /\ NullIdFirst /\ CountsExact => ReportsTile
  BY SlotsTile DEF ReportsTile, CountsExact
<1> QED
  BY <1>1, NullIdHolds, CountsHold, PTL
================================================================================
