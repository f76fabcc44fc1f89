----------------------------- MODULE ScreenProofs -----------------------------
(***************************************************************************)
(* What the screen promises, for every firewall, every scenario and every  *)
(* number of refreshes.                                                    *)
(***************************************************************************)
EXTENDS ScreenProperties, SequenceFacts

-----------------------------------------------------------------------------
(* The rows of a view *)

(* What Kept returns: a sequence of elements of s that are wanted. *)
LEMMA KeptType ==
    ASSUME NEW S, NEW s \in Seq(S), NEW wanted
    PROVE  /\ Kept(s, wanted) \in Seq(S)
           /\ \A i \in 1..Len(Kept(s, wanted)) :
                 Kept(s, wanted)[i] \in wanted /\ Kept(s, wanted)[i] \in ToSet(s)
<1> DEFINE places == {i \in DOMAIN s : s[i] \in wanted}
<1> DEFINE size == Cardinality(places)
<1> DEFINE nth(n) == CHOOSE i \in places : Cardinality(places \cap (1..i)) = n
<1> DEFINE r == [n \in 1..size |-> s[nth(n)]]
<1>1. Kept(s, wanted) = r
  BY Zenon DEF Kept
<1>2. Len(s) \in Nat /\ DOMAIN s = 1..Len(s)
  OBVIOUS
<1>3. places \subseteq 1..Len(s)
  BY <1>2
<1>4. size \in Nat
  <2> HIDE DEF places
  <2>1. IsFiniteSet(1..Len(s))
    BY <1>2, FS_Interval
  <2>2. IsFiniteSet(places)
    BY <1>3, <2>1, FS_Subset
  <2> QED
    BY <2>2, FS_CardinalityType
<1>5. ASSUME NEW n \in 1..size PROVE nth(n) \in places
  <2>1. \E i \in places : Cardinality(places \cap (1..i)) = n
    BY <1>2, <1>3, Ranked
  <2> QED
    BY <2>1
<1>6. \A i \in places : s[i] \in S /\ s[i] \in wanted /\ s[i] \in ToSet(s)
  BY <1>2, ElementsOf
<1> HIDE DEF places, size, nth
<1>7. \A n \in 1..size : r[n] \in S /\ r[n] \in wanted /\ r[n] \in ToSet(s)
  BY <1>5, <1>6
<1>8. r \in Seq(S) /\ Len(r) = size
  <2>1. r \in [1..size -> S]
    BY <1>7
  <2> HIDE DEF r
  <2> QED
    BY <1>4, <2>1
<1> QED
  BY <1>1, <1>7, <1>8

(* One element for each element of a sequence. *)
LEMMA OnePerElement ==
    ASSUME NEW S, NEW s \in Seq(S), NEW T, NEW f \in [DOMAIN s -> T]
    PROVE  f \in Seq(T) /\ Len(f) = Len(s) /\ DOMAIN f = 1..Len(s)
  OBVIOUS

(* Rows of a view, as the screen relies on them: an entry says in which scopes it
   is, and a zone is one. *)
Fits(row, kind) ==
    /\ row.id.view = kind
    /\ kind = "Zones" => row.id.object \in Zones
    /\ kind \in DOMAIN EntryField => row.scope \in {"runtime", "permanent"} \/ row.scopes = Both

Listed(rows, kind) ==
    /\ rows \in Seq(ToSet(rows))
    /\ \A i \in 1..Len(rows) : Fits(rows[i], kind)

LEMMA ListedWhen ==
    ASSUME NEW S, NEW s \in Seq(S), NEW f, f = [i \in DOMAIN s |-> f[i]], NEW kind,
           \A i \in 1..Len(s) : Fits(f[i], kind)
    PROVE  Listed(f, kind)
<1>1. DOMAIN s = 1..Len(s) /\ Len(s) \in Nat
  OBVIOUS
<1>2. DOMAIN f = DOMAIN s
  OBVIOUS
<1>3. f \in [DOMAIN s -> ToSet(f)]
  BY <1>2 DEF ToSet
<1>4. f \in Seq(ToSet(f)) /\ Len(f) = Len(s)
  BY <1>3, OnePerElement
<1> QED
  BY <1>4 DEF Listed

LEMMA ValuesSorted ==
    ASSUME NEW wanted
    PROVE  /\ Sorted(wanted) \in Seq(Value)
           /\ \A i \in 1..Len(Sorted(wanted)) : Sorted(wanted)[i] \in wanted
  BY OrderAssumption, KeptType DEF Sorted

LEMMA ObjectsNamed ==
    ASSUME NEW wanted
    PROVE  /\ Named(wanted) \in Seq(Object)
           /\ \A i \in 1..Len(Named(wanted)) : Named(wanted)[i] \in wanted
  BY OrderAssumption, KeptType DEF Named

LEMMA ScopesTold ==
    ASSUME NEW run, NEW disk, NEW v \in run \cup disk
    PROVE  LET scopes == ScopesOf(v, run, disk)
           IN  ScopeWord(scopes) \in {"runtime", "permanent"} \/ scopes = Both
<1>1. ScopesOf(v, run, disk) \in {Runtime, Permanent, Both}
  BY DEF ScopesOf, Runtime, Permanent, Both
<1>2. Runtime # Both /\ Permanent # Both /\ Runtime # Permanent
  BY DEF Runtime, Permanent, Both
<1> QED
  BY <1>1, <1>2 DEF ScopeWord

LEMMA EntryRowsListed ==
    ASSUME NEW kind \in DOMAIN EntryField, NEW fw, NEW owner
    PROVE  Listed(EntryRows(kind, fw, owner), kind)
<1> DEFINE run == Held(fw.runtime, owner, EntryField[kind])
<1> DEFINE disk == Held(fw.permanent, owner, EntryField[kind])
<1> DEFINE scopes(v) == ScopesOf(v, run, disk)
<1> DEFINE row(v) == Row(ById(kind, owner, v), ScopeWord(scopes(v)), scopes(v), {v, ScopeWord(scopes(v))})
<1> DEFINE order == Sorted(run \cup disk)
<1> DEFINE rows == [i \in DOMAIN order |-> row(order[i])]
<1>1. EntryRows(kind, fw, owner) = rows
  BY DEF EntryRows, Rowed
<1>2. kind # "Zones"
  BY DEF EntryField
<1>3. order \in Seq(Value) /\ \A i \in 1..Len(order) : order[i] \in run \cup disk
  BY ValuesSorted
<1>4. ASSUME NEW v \in run \cup disk PROVE Fits(row(v), kind)
  <2>1. ScopeWord(scopes(v)) \in {"runtime", "permanent"} \/ scopes(v) = Both
    BY <1>4, ScopesTold
  <2> HIDE DEF scopes
  <2> QED
    BY <1>2, <2>1 DEF Fits, Row, ById
<1> HIDE DEF run, disk, row, order
<1>5. \A i \in 1..Len(order) : rows[i] = row(order[i])
  BY <1>3
<1>6. \A i \in 1..Len(order) : Fits(rows[i], kind)
  BY <1>3, <1>4, <1>5
<1>7. rows = [i \in DOMAIN order |-> rows[i]]
  OBVIOUS
<1> HIDE DEF rows
<1> QED
  BY <1>1, <1>3, <1>6, <1>7, ListedWhen

LEMMA BindingRowsListed ==
    ASSUME NEW kind \in DOMAIN BindingField, NEW fw, NEW side
    PROVE  Listed(BindingRows(kind, fw, side), kind)
<1> DEFINE bound == IF side = Permanent THEN fw.permanent ELSE fw.active
<1> DEFINE held == {p \in ToSet(PairOrder) : Type(p[1]) = "zone" /\ p[2] \in Held(bound, p[1], BindingField[kind])}
<1> DEFINE row(p) == Row(ById(kind, p[1], p[2]), "none", side, {p[2], p[1][2]})
<1> DEFINE order == Kept(PairOrder, held)
<1> DEFINE rows == [i \in DOMAIN order |-> row(order[i])]
<1>1. BindingRows(kind, fw, side) = rows
  BY DEF BindingRows, Rowed
<1>2. kind # "Zones" /\ kind \notin DOMAIN EntryField
  BY DEF EntryField, BindingField
<1>3. PairOrder \in Seq(ToSet(PairOrder))
  <2> DEFINE size == Len(ObjectOrder) * Len(ValueOrder)
  <2>1. size \in Nat
    <3>1. Len(ObjectOrder) \in Nat /\ Len(ValueOrder) \in Nat
      BY OrderAssumption
    <3> QED
      BY <3>1
  <2>2. DOMAIN PairOrder = 1..size /\ PairOrder = [n \in 1..size |-> PairOrder[n]]
    BY DEF PairOrder
  <2> HIDE DEF size
  <2>3. PairOrder \in [1..size -> ToSet(PairOrder)]
    BY <2>2 DEF ToSet
  <2> QED
    BY <2>1, <2>3
<1>4. order \in Seq(ToSet(PairOrder))
  BY <1>3, KeptType
<1>5. \A p : Fits(row(p), kind)
  BY <1>2 DEF Fits, Row, ById
<1> HIDE DEF row, order
<1>6. \A i \in 1..Len(order) : Fits(rows[i], kind)
  BY <1>4, <1>5
<1>7. rows = [i \in DOMAIN order |-> rows[i]]
  OBVIOUS
<1> HIDE DEF rows
<1> QED
  BY <1>1, <1>4, <1>6, <1>7, ListedWhen

LEMMA ZoneRowsListed ==
    ASSUME NEW fw
    PROVE  Listed(ZoneRows(fw), "Zones")
<1> DEFINE objects == OfType("Zones", fw.runtime) \cup OfType("Zones", fw.permanent)
<1> DEFINE row(o) == Row(ById("Zones", o, o[2]), "none", {}, {o[2]})
<1> DEFINE order == Named(objects)
<1> DEFINE rows == [i \in DOMAIN order |-> row(order[i])]
<1>1. ZoneRows(fw) = rows
  BY DEF ZoneRows, Rowed
<1>2. order \in Seq(Object) /\ \A i \in 1..Len(order) : order[i] \in objects
  BY ObjectsNamed
<1>3. \A o \in objects : Type(o) = "zone"
  BY DEF OfType, NamedType
<1>4. ASSUME NEW o \in Object, Type(o) = "zone" PROVE Fits(row(o), "Zones")
  <2>1. o \in Zones
    BY <1>4 DEF Zones
  <2> QED
    BY <2>1 DEF Fits, Row, ById, EntryField
<1> HIDE DEF row, order, objects
<1>5. \A i \in 1..Len(order) : rows[i] = row(order[i]) /\ order[i] \in Object /\ order[i] \in objects
  BY <1>2
<1>6. \A i \in 1..Len(order) : Fits(rows[i], "Zones")
  BY <1>3, <1>4, <1>5
<1>7. rows = [i \in DOMAIN order |-> rows[i]]
  OBVIOUS
<1> HIDE DEF rows
<1> QED
  BY <1>1, <1>2, <1>6, <1>7, ListedWhen

LEMMA ObjectRowsListed ==
    ASSUME NEW kind \in {"IpSets", "Policies"}, NEW fw
    PROVE  Listed(ObjectRows(kind, fw), kind)
<1> DEFINE run == OfType(kind, fw.runtime)
<1> DEFINE disk == OfType(kind, fw.permanent)
<1> DEFINE word(o) == IF o \in run \cap disk /\ fw.runtime[o] # fw.permanent[o] THEN "drift"
                      ELSE ScopeWord(ScopesOf(o, run, disk))
<1> DEFINE row(o) == Row(ById(kind, o, o[2]), word(o), ScopesOf(o, run, disk), {o[2], word(o)})
<1> DEFINE order == Named(run \cup disk)
<1> DEFINE rows == [i \in DOMAIN order |-> row(order[i])]
<1>1. ObjectRows(kind, fw) = rows
  BY DEF ObjectRows, Rowed
<1>2. order \in Seq(Object)
  BY ObjectsNamed
<1>3. kind # "Zones" /\ kind \notin DOMAIN EntryField
  BY DEF EntryField
<1> HIDE DEF word
<1>4. \A o : Fits(row(o), kind)
  BY <1>3 DEF Fits, Row, ById
<1> HIDE DEF row, order
<1>5. \A i \in 1..Len(order) : Fits(rows[i], kind)
  BY <1>2, <1>4
<1>6. rows = [i \in DOMAIN order |-> rows[i]]
  OBVIOUS
<1> HIDE DEF rows
<1> QED
  BY <1>1, <1>2, <1>5, <1>6, ListedWhen

LEMMA DirectRowsListed ==
    ASSUME NEW fw, fw.direct \in Seq(Value)
    PROVE  Listed(DirectRows(fw), "Direct")
<1> DEFINE row(i) == Row(ById("Direct", <<"direct", i>>, fw.direct[i]), "none", {}, {fw.direct[i]})
<1> DEFINE rows == [i \in DOMAIN fw.direct |-> row(i)]
<1>1. DirectRows(fw) = rows
  BY DEF DirectRows
<1>2. \A i : Fits(row(i), "Direct")
  BY DEF Fits, Row, ById, EntryField
<1> HIDE DEF row
<1>3. \A i \in 1..Len(fw.direct) : Fits(rows[i], "Direct")
  BY <1>2
<1>4. rows = [i \in DOMAIN fw.direct |-> rows[i]]
  OBVIOUS
<1> HIDE DEF rows
<1> QED
  BY <1>1, <1>3, <1>4, ListedWhen

LEMMA LogRowsListed ==
    ASSUME NEW S, NEW lines \in Seq(S)
    PROVE  Listed(LogRows(lines), "Logs")
<1> DEFINE row(line) == Row(ById("Logs", <<"log", line.number>>, line.flow), "none", {}, {line.flow.source})
<1> DEFINE rows == [i \in DOMAIN lines |-> row(lines[Len(lines) + 1 - i])]
<1>1. LogRows(lines) = rows
  BY DEF LogRows
<1>2. \A line : Fits(row(line), "Logs")
  BY DEF Fits, Row, ById, EntryField
<1> HIDE DEF row
<1>3. \A i \in 1..Len(lines) : Fits(rows[i], "Logs")
  BY <1>2
<1>4. rows = [i \in DOMAIN lines |-> rows[i]]
  OBVIOUS
<1> HIDE DEF rows
<1> QED
  BY <1>1, <1>3, <1>4, ListedWhen

LEMMA RowsListed ==
    ASSUME NEW kind \in ViewId \ {"Logs"}, NEW fw, fw.direct \in Seq(Value), NEW owner, NEW side
    PROVE  Listed(Rows(kind, fw, owner, side), kind)
<1>1. \/ kind \in DOMAIN EntryField \/ kind \in DOMAIN BindingField
      \/ kind = "Zones" \/ kind \in {"IpSets", "Policies"} \/ kind = "Direct"
  BY DEF ViewId, NamedType
<1>2. /\ DOMAIN EntryField = {"Services", "Ports", "Forwarding", "RichRules"}
      /\ DOMAIN BindingField = {"Interfaces", "Sources"}
  BY DEF EntryField, BindingField
<1>3. CASE kind \in DOMAIN EntryField
  <2>1. Rows(kind, fw, owner, side) = EntryRows(kind, fw, owner)
    BY <1>2, <1>3, Zenon DEF Rows
  <2> QED
    BY <1>3, <2>1, EntryRowsListed
<1>4. CASE kind \in DOMAIN BindingField
  <2>1. Rows(kind, fw, owner, side) = BindingRows(kind, fw, side)
    BY <1>2, <1>4 DEF Rows
  <2> QED
    BY <1>4, <2>1, BindingRowsListed
<1>5. CASE kind = "Zones"
  <2>1. Rows(kind, fw, owner, side) = ZoneRows(fw)
    BY <1>2, <1>5 DEF Rows
  <2> QED
    BY <1>5, <2>1, ZoneRowsListed
<1>6. CASE kind \in {"IpSets", "Policies"}
  <2>1. Rows(kind, fw, owner, side) = ObjectRows(kind, fw)
    BY <1>2, <1>6 DEF Rows
  <2> QED
    BY <1>6, <2>1, ObjectRowsListed
<1>7. CASE kind = "Direct"
  <2>1. Rows(kind, fw, owner, side) = DirectRows(fw)
    BY <1>2, <1>7 DEF Rows
  <2> QED
    BY <1>7, <2>1, DirectRowsListed
<1> QED
  BY <1>1, <1>3, <1>4, <1>5, <1>6, <1>7

(* Whatever zone is chosen. *)
LEMMA ZonesAreTheSame ==
    ASSUME NEW fw, NEW owner, NEW side
    PROVE  Rows("Zones", fw, owner, side) = ZoneRows(fw)
  BY DEF Rows, EntryField, BindingField

-----------------------------------------------------------------------------
(* What is shown *)

Line == [number : Nat, flow : UNION {s.flows : s \in Scenario}]

(* What the state is made of; a preview is there only while its refresh is. *)
ScreenInv ==
    /\ settings \in Scenario /\ view \in settings.views
    /\ snapshot \subseteq settings.firewalls /\ overview \subseteq settings.firewalls
    /\ zone \subseteq Zones /\ config \in {Runtime, Permanent}
    /\ logs \in Seq(Line) /\ received \in Nat
    /\ overview # {} => active

LEMMA RowsTabulated ==
    ASSUME NEW fw \in DOMAIN Firewall, NEW v \in (UNION {s.views : s \in Scenario}) \ {"Logs"},
           NEW z \in Zones, NEW c \in {Runtime, Permanent}
    PROVE  RowsOf[fw][v][z][c] = Rows(v, Firewall[fw], z, c)
<1> DEFINE views == (UNION {s.views : s \in Scenario}) \ {"Logs"}
<1> DEFINE rows == [f \in DOMAIN Firewall |-> [w \in views |-> [y \in Zones |->
                      [d \in {Runtime, Permanent} |-> Rows(w, Firewall[f], y, d)]]]]
<1>1. RowsOf = CHOOSE f \in {rows} : f = f
  BY DEF RowsOf
<1>2. rows[fw][v][z][c] = Rows(v, Firewall[fw], z, c)
  BY Zenon
<1> HIDE DEF rows
<1>3. RowsOf = rows
  BY <1>1
<1> QED
  BY <1>2, <1>3

LEMMA AllRowsListed == ScreenInv => \A v \in settings.views : Listed(AllRows(v), v)
<1> SUFFICES ASSUME ScreenInv, NEW v \in settings.views PROVE Listed(AllRows(v), v)
  OBVIOUS
<1>1. v \in ViewId /\ v \in UNION {s.views : s \in Scenario}
  BY ScreenAssumption DEF ScreenInv
<1>2. CASE v = "Logs"
  <2>1. AllRows(v) = LogRows(logs)
    BY <1>2 DEF AllRows
  <2> QED
    BY <1>2, <2>1, LogRowsListed DEF ScreenInv
<1>3. CASE v # "Logs"
  <2> DEFINE owner(fw) == IF zone # {} THEN Only(zone) ELSE Firewall[fw].default
  <2> DEFINE of(fw) == RowsOf[fw][v][owner(fw)][config]
  <2>1. ASSUME NEW fw \in settings.firewalls PROVE Listed(of(fw), v)
    <3>1. fw \in DOMAIN Firewall /\ Firewall[fw].default \in Zones /\ Firewall[fw].direct \in Seq(Value)
      BY ScreenAssumption DEF ScreenInv
    <3>2. owner(fw) \in Zones
      BY <3>1 DEF ScreenInv, Only
    <3> HIDE DEF owner
    <3>3. v \in (UNION {s.views : s \in Scenario}) \ {"Logs"} /\ config \in {Runtime, Permanent}
      <4>1. config \in {Runtime, Permanent}
        BY DEF ScreenInv
      <4> QED
        BY <1>1, <1>3, <4>1, Zenon
    <3>4. of(fw) = Rows(v, Firewall[fw], owner(fw), config)
      BY <3>1, <3>2, <3>3, RowsTabulated, Zenon
    <3> QED
      BY <1>1, <1>3, <3>1, <3>4, RowsListed
  <2>2. Only(overview) \in settings.firewalls \/ overview = {}
    BY DEF ScreenInv, Only
  <2>3. Only(snapshot) \in settings.firewalls \/ snapshot = {}
    BY DEF ScreenInv, Only
  <2>4. Listed(<<>>, v)
    BY DEF Listed
  <2>5. AllRows(v) = IF overview # {} /\ v \in Previewed THEN of(Only(overview))
                     ELSE IF snapshot # {} THEN of(Only(snapshot)) ELSE <<>>
    BY <1>3 DEF AllRows
  <2> HIDE DEF of
  <2> QED
    BY <2>1, <2>2, <2>3, <2>4, <2>5
<1> QED
  BY <1>2, <1>3

LEMMA VisibleListed ==
    ScreenInv =>
      /\ Listed(Shown, view) /\ Listed(Visible, view)
      /\ \A i \in 1..Len(Visible) : Visible[i] \in ToSet(Shown)
      /\ filter = None => Visible = Shown
<1> SUFFICES ASSUME ScreenInv
             PROVE  /\ Listed(Shown, view) /\ Listed(Visible, view)
                    /\ \A i \in 1..Len(Visible) : Visible[i] \in ToSet(Shown)
                    /\ filter = None => Visible = Shown
  OBVIOUS
<1> DEFINE rows == Shown
<1> DEFINE wanted == {row \in ToSet(rows) : filter \in row.cells}
<1> DEFINE kept == Kept(rows, wanted)
<1>1. Listed(rows, view)
  BY AllRowsListed DEF Shown, ScreenInv
<1>2. Visible = IF filter = None THEN rows ELSE kept
  BY Zenon DEF Visible, Matching
<1> HIDE DEF rows, wanted
<1>3. rows \in Seq(ToSet(rows)) /\ \A i \in 1..Len(rows) : Fits(rows[i], view) /\ rows[i] \in ToSet(rows)
  BY <1>1, ElementsOf DEF Listed
<1>4. /\ kept \in Seq(ToSet(rows))
      /\ \A i \in 1..Len(kept) : kept[i] \in ToSet(rows)
  BY <1>3, KeptType
<1>5. \A row \in ToSet(rows) : Fits(row, view)
  BY <1>3, ElementsOf
<1> HIDE DEF kept
<1>6. \A i \in 1..Len(kept) : Fits(kept[i], view)
  BY <1>4, <1>5
<1>7. kept = [i \in DOMAIN kept |-> kept[i]]
  BY <1>4
<1>8. Listed(kept, view)
  BY <1>4, <1>6, <1>7, ListedWhen
<1>9. CASE filter = None
  BY <1>1, <1>2, <1>3, <1>9 DEF rows
<1>10. CASE filter # None
  <2>1. Visible = kept
    BY <1>2, <1>10
  <2> QED
    BY <1>1, <1>4, <1>8, <1>10, <2>1 DEF rows
<1> QED
  BY <1>9, <1>10

-----------------------------------------------------------------------------
(* Where the cursor is put *)

LEMMA LeastIsOne ==
    ASSUME NEW n \in Nat, NEW places \in SUBSET (1..n), places # {}
    PROVE  Min(places) \in places
<1>1. IsFiniteSet(places) /\ Cardinality(places) \in Nat /\ Cardinality(places) # 0
  <2>1. IsFiniteSet(1..n)
    BY FS_Interval
  <2>2. IsFiniteSet(places)
    BY <2>1, FS_Subset
  <2> QED
    BY <2>2, FS_EmptySet, FS_CardinalityType
<1>2. 1 \in 1..Cardinality(places)
  BY <1>1
<1>3. PICK i \in places : Cardinality(places \cap (1..i)) = 1
  BY <1>2, Ranked
<1>4. i \in 1..n
  OBVIOUS
<1>5. ASSUME NEW j \in places PROVE i <= j
  <2>1. CASE j < i
    <3> DEFINE below == places \cap (1..i)
    <3>1. IsFiniteSet(below) /\ i \in below /\ j \in below /\ Cardinality(below) = 1
      BY <1>1, <1>3, <1>4, <2>1, FS_Subset
    <3>2. {j} \subseteq below /\ {j} # below
      BY <2>1, <3>1
    <3> HIDE DEF below
    <3>3. Cardinality({j}) = 1
      BY FS_Singleton
    <3> QED
      BY <3>1, <3>2, <3>3, FS_Subset
  <2>2. j \in 1..n
    OBVIOUS
  <2> QED
    BY <1>4, <2>1, <2>2
<1> QED
  BY <1>5 DEF Min

LEMMA PlacedInRange ==
    ASSUME NEW rows, rows \in Seq(ToSet(rows)), NEW ids, NEW at
    PROVE  /\ at \in Nat \ {0} => Placed(rows, ids, at) \in 1..Max({1, Len(rows)})
           /\ ids \cap Ids(rows) # {} =>
                Placed(rows, ids, at) \in 1..Len(rows) /\ rows[Placed(rows, ids, at)].id \in ids
<1> DEFINE same == {i \in DOMAIN rows : rows[i].id \in ids}
<1> DEFINE n == Len(rows)
<1>1. n \in Nat /\ DOMAIN rows = 1..n /\ (rows = <<>> <=> n = 0)
  BY NoElements
<1>2. Placed(rows, ids, at) = IF same # {} THEN Min(same) ELSE IF rows = <<>> THEN 1 ELSE Min({at, n})
  BY DEF Placed
<1>3. same \subseteq 1..n
  BY <1>1
<1>4. same # {} => Min(same) \in same
  <2> HIDE DEF same, n
  <2> QED
    BY <1>1, <1>3, LeastIsOne
<1>5. ids \cap Ids(rows) # {} => same # {}
  BY DEF Ids
<1>6. \A i \in same : i \in 1..n /\ rows[i].id \in ids
  BY <1>3
<1> HIDE DEF same, n
<1>7. Max({1, n}) = IF n = 0 THEN 1 ELSE n
  BY <1>1 DEF Max
<1>8. ASSUME n # 0, at \in Nat \ {0} PROVE Min({at, n}) \in 1..n
  <2>1. \E x \in {at, n} : \A y \in {at, n} : x <= y
    BY <1>1, <1>8
  <2>2. Min({at, n}) \in {at, n} /\ \A y \in {at, n} : Min({at, n}) <= y
    BY <2>1 DEF Min
  <2> QED
    BY <1>1, <1>8, <2>2
<1>9. CASE same # {}
  <2>1. n # 0
    BY <1>1, <1>4, <1>6, <1>9
  <2>2. Placed(rows, ids, at) = Min(same)
    BY <1>2, <1>9
  <2> QED
    BY <1>4, <1>6, <1>7, <1>9, <2>1, <2>2 DEF n
<1>10. CASE same = {}
  <2>1. Placed(rows, ids, at) = IF n = 0 THEN 1 ELSE Min({at, n})
    BY <1>1, <1>2, <1>10
  <2> QED
    BY <1>1, <1>5, <1>7, <1>8, <1>10, <2>1 DEF n
<1> QED
  BY <1>9, <1>10

CursorOf(rows, at) == {row.id : row \in {rows[i] : i \in {at} \cap DOMAIN rows}}

LEMMA PlacedOnCursor ==
    ASSUME NEW rows, rows \in Seq(ToSet(rows)), NEW before, NEW was, NEW at,
           CursorOf(before, was) # {}, CursorOf(before, was) \subseteq Ids(rows)
    PROVE  CursorOf(rows, Placed(rows, CursorOf(before, was), at)) = CursorOf(before, was)
<1> DEFINE ids == CursorOf(before, was)
<1> DEFINE spot == Placed(rows, ids, at)
<1>1. \A x, y \in ids : x = y
  BY DEF CursorOf
<1>2. ids \cap Ids(rows) # {}
  OBVIOUS
<1> HIDE DEF ids
<1>3. spot \in 1..Len(rows) /\ rows[spot].id \in ids
  BY <1>2, PlacedInRange
<1> HIDE DEF place
<1>4. spot \in DOMAIN rows
  BY <1>3
<1>5. CursorOf(rows, spot) = {rows[spot].id}
  BY <1>4 DEF CursorOf
<1> QED
  BY <1>1, <1>3, <1>5 DEF spot, ids

LEMMA CursorIs == Cursor = CursorOf(Visible, selected)
  BY DEF Cursor, CursorOf, Selected

-----------------------------------------------------------------------------
(* What the steps do to the table *)

TableHeld ==
    ended \/ (selected \in 1..Max({1, Len(Visible)}) /\ marked \subseteq Ids(Shown))

Followed ==
    /\ Cursor # {} /\ Cursor \subseteq Ids(Visible')
    /\ ended' = ended /\ view' = view
    /\ <<engine, feed, config>>' # <<engine, feed, config>> \/ (overlays = <<>> /\ mode = "Filter")
    => Cursor' = Cursor

LEMMA SameRows ==
    ASSUME UNCHANGED <<engine, logs, view, zone, config>>
    PROVE  /\ Shown' = Shown
           /\ filter' = filter => Visible' = Visible
           /\ filter' = filter /\ selected' = selected => Cursor' = Cursor
<1>1. Shown' = Shown
  BY DEF Shown, AllRows, engine
<1>2. filter' = filter => Visible' = Visible
  BY <1>1 DEF Visible, Matching
<1>3. filter' = filter /\ selected' = selected => Cursor' = Cursor
  BY <1>2 DEF Cursor, Selected
<1> QED
  BY <1>1, <1>2, <1>3

(* The rows may be others: whoever reconciles finds a place and keeps no stray
   mark. *)
LEMMA ReconciledStep ==
    ASSUME ScreenInv', TableHeld, ended' = ended, Reconcile(Cursor)
    PROVE  TableHeld' /\ Followed
<1>1. Listed(Shown, view)' /\ Listed(Visible, view)'
  <2>1. (ScreenInv => Listed(Shown, view) /\ Listed(Visible, view))'
    BY VisibleListed, PTL
  <2> QED
    BY <2>1
<1>2. /\ marked' = Pruned(marked, Shown') /\ selected' = Placed(Visible', Cursor, selected)
  BY DEF Reconcile
<1>3. marked' \subseteq Ids(Shown)'
  BY <1>2 DEF Pruned
<1>4. Visible' \in Seq(ToSet(Visible'))
  BY <1>1 DEF Listed
<1>5. ASSUME ~ended' PROVE selected' \in 1..Max({1, Len(Visible')})
  <2>1. selected \in Nat \ {0}
    BY <1>5 DEF TableHeld
  <2> QED
    BY <1>2, <1>4, <2>1, PlacedInRange
<1>6. ASSUME Cursor # {}, Cursor \subseteq Ids(Visible') PROVE Cursor' = Cursor
  <2> DEFINE rows == Visible'
  <2> DEFINE was == Visible
  <2>1. Cursor = CursorOf(was, selected)
    BY CursorIs
  <2>2. Cursor' = CursorOf(rows, selected')
    BY DEF Cursor, CursorOf, Selected
  <2>3. rows \in Seq(ToSet(rows)) /\ selected' = Placed(rows, Cursor, selected)
    BY <1>2, <1>4
  <2>4. CursorOf(was, selected) # {} /\ CursorOf(was, selected) \subseteq Ids(rows)
    BY <1>6, <2>1
  <2> HIDE DEF rows, was
  <2>5. CursorOf(rows, Placed(rows, CursorOf(was, selected), selected)) = CursorOf(was, selected)
    BY <2>3, <2>4, PlacedOnCursor
  <2> QED
    BY <2>1, <2>2, <2>3, <2>5
<1>7. TableHeld'
  BY <1>3, <1>5 DEF TableHeld
<1> QED
  BY <1>6, <1>7 DEF Followed

Elsewhere == UNCHANGED <<settings, engine, feed>>

(* Neither the rows nor the table change. *)
LEMMA SameTableStep ==
    ASSUME ScreenInv, TableHeld, Elsewhere, UNCHANGED <<view, zone, config, filter, selected, marked>>
    PROVE  ScreenInv' /\ TableHeld' /\ Followed
<1>1. Shown' = Shown /\ Visible' = Visible /\ Cursor' = Cursor
  BY SameRows DEF Elsewhere, feed
<1>2. ScreenInv'
  BY DEF ScreenInv, Elsewhere, engine, feed
<1>3. ended' = ended
  BY DEF Elsewhere, engine
<1> QED
  BY <1>1, <1>2, <1>3 DEF TableHeld, Followed

(* The keys of the table: none changes the rows. *)
NoFollowing == config' = config /\ (mode = "Normal" \/ overlays # <<>>)

LEMMA NotFollowed ==
    ASSUME Elsewhere, NoFollowing
    PROVE  Followed
  BY DEF Followed, NoFollowing, Elsewhere

LEMMA CursorIsShown ==
    ASSUME ScreenInv
    PROVE  Cursor \subseteq Ids(Shown) /\ Ids(Visible) \subseteq Ids(Shown)
<1> DEFINE rows == Shown
<1> DEFINE seen == Visible
<1>1. seen \in Seq(ToSet(seen)) /\ \A i \in 1..Len(seen) : seen[i] \in ToSet(rows)
  BY VisibleListed DEF Listed
<1>2. Cursor \subseteq Ids(seen)
  BY DEF Cursor, Selected, Ids
<1> HIDE DEF rows, seen
<1>3. \A i \in DOMAIN seen : \E j \in DOMAIN rows : seen[i] = rows[j]
  BY <1>1 DEF ToSet
<1>4. Ids(seen) \subseteq Ids(rows)
  BY <1>3 DEF Ids
<1> QED
  BY <1>2, <1>4 DEF rows, seen

LEMMA TableKeyStep ==
    ASSUME ScreenInv, TableHeld, Elsewhere, NoFollowing, UNCHANGED <<view, zone, filter>>,
           selected' \in {selected} \cup DOMAIN Visible, marked' \subseteq marked \cup Cursor
    PROVE  ScreenInv' /\ TableHeld' /\ Followed
<1>1. Shown' = Shown /\ Visible' = Visible
  BY SameRows DEF Elsewhere, NoFollowing, feed
<1>2. ScreenInv'
  BY DEF ScreenInv, Elsewhere, NoFollowing, engine, feed
<1>3. ended' = ended
  BY DEF Elsewhere, engine
<1>4. Cursor \subseteq Ids(Shown)
  BY CursorIsShown
<1> DEFINE n == Len(Visible)
<1>5. DOMAIN Visible = 1..n /\ n \in Nat
  BY VisibleListed DEF Listed
<1> HIDE DEF n
<1>6. 1..n \subseteq 1..Max({1, n})
  BY <1>5 DEF Max
<1>7. TableHeld'
  BY <1>1, <1>3, <1>4, <1>5, <1>6 DEF TableHeld, n
<1> QED
  BY <1>2, <1>7, NotFollowed DEF NoFollowing

(* The list of zones is the same whatever zone is chosen. *)
ZonesOf(preview, complete) ==
    IF preview # {} THEN ZoneRows(Firewall[Only(preview)])
    ELSE IF complete # {} THEN ZoneRows(Firewall[Only(complete)]) ELSE <<>>

LEMMA ZonesShown == ScreenInv /\ view = "Zones" => Shown = ZonesOf(overview, snapshot)
<1> SUFFICES ASSUME ScreenInv, view = "Zones" PROVE Shown = ZonesOf(overview, snapshot)
  OBVIOUS
<1> DEFINE owner(fw) == IF zone # {} THEN Only(zone) ELSE Firewall[fw].default
<1> DEFINE of(fw) == RowsOf[fw][view][owner(fw)][config]
<1>1. view \in (UNION {s.views : s \in Scenario}) \ {"Logs"} /\ config \in {Runtime, Permanent}
  <2>1. config \in {Runtime, Permanent}
    BY DEF ScreenInv
  <2>2. settings \in Scenario /\ view \in settings.views
    BY DEF ScreenInv
  <2> QED
    BY <2>1, <2>2
<1>2. ASSUME NEW fw \in settings.firewalls PROVE of(fw) = ZoneRows(Firewall[fw])
  <2>1. fw \in DOMAIN Firewall /\ Firewall[fw].default \in Zones
    BY ScreenAssumption DEF ScreenInv
  <2>2. owner(fw) \in Zones
    BY <2>1 DEF ScreenInv, Only
  <2> HIDE DEF owner
  <2>3. of(fw) = Rows(view, Firewall[fw], owner(fw), config)
    BY <1>1, <2>1, <2>2, RowsTabulated, Zenon
  <2> QED
    BY <2>3, ZonesAreTheSame
<1>3. Only(overview) \in settings.firewalls \/ overview = {}
  BY DEF ScreenInv, Only
<1>4. Only(snapshot) \in settings.firewalls \/ snapshot = {}
  BY DEF ScreenInv, Only
<1>5. Shown = IF overview # {} THEN of(Only(overview)) ELSE IF snapshot # {} THEN of(Only(snapshot)) ELSE <<>>
  BY DEF Shown, AllRows, Previewed
<1> HIDE DEF of
<1> QED
  BY <1>2, <1>3, <1>4, <1>5 DEF ZonesOf

LEMMA ZoneChosenStep ==
    ASSUME ScreenInv, TableHeld, Elsewhere, NoFollowing, UNCHANGED <<view, filter, selected, marked>>,
           view = "Zones", zone' \subseteq Zones
    PROVE  ScreenInv' /\ TableHeld' /\ Followed
<1>1. Shown' = Shown
  <2>1. ScreenInv'
    BY DEF ScreenInv, Elsewhere, NoFollowing, engine, feed
  <2>2. (ScreenInv /\ view = "Zones" => Shown = ZonesOf(overview, snapshot))'
    BY ZonesShown, PTL
  <2>3. ZonesOf(overview, snapshot)' = ZonesOf(overview, snapshot)
    BY DEF ZonesOf, Elsewhere, engine
  <2> QED
    BY <2>1, <2>2, <2>3, ZonesShown
<1>2. Visible' = Visible
  BY <1>1 DEF Visible, Matching
<1>3. ScreenInv'
  BY DEF ScreenInv, Elsewhere, NoFollowing, engine, feed
<1>4. ended' = ended
  BY DEF Elsewhere, engine
<1> QED
  BY <1>1, <1>2, <1>3, <1>4, NotFollowed DEF TableHeld, NoFollowing

LEMMA ViewChangedStep ==
    ASSUME ScreenInv, TableHeld, Elsewhere, NoFollowing, zone' = zone,
           view' \in settings.views, marked' = {},
           \/ selected' = Placed(Visible', {}, selected)
           \/ selected' \in {1} \cup DOMAIN Visible'
    PROVE  ScreenInv' /\ TableHeld' /\ Followed
<1>1. ScreenInv'
  BY DEF ScreenInv, Elsewhere, NoFollowing, engine, feed
<1>2. ended' = ended
  BY DEF Elsewhere, engine
<1>3. Listed(Visible', view')
  <2>1. (ScreenInv => Listed(Visible, view))'
    BY VisibleListed, PTL
  <2> QED
    BY <1>1, <2>1
<1> DEFINE rows == Visible'
<1>4. rows \in Seq(ToSet(rows))
  BY <1>3 DEF Listed
<1>5. ASSUME ~ended PROVE selected' \in 1..Max({1, Len(rows)})
  <2>1. selected \in Nat \ {0}
    BY <1>5 DEF TableHeld
  <2>2. selected' = Placed(rows, {}, selected) \/ selected' \in {1} \cup DOMAIN rows
    OBVIOUS
  <2> HIDE DEF rows
  <2>3. Placed(rows, {}, selected) \in 1..Max({1, Len(rows)})
    BY <1>4, <2>1, PlacedInRange
  <2>4. DOMAIN rows = 1..Len(rows) /\ Len(rows) \in Nat
    BY <1>4
  <2>5. {1} \cup DOMAIN rows \subseteq 1..Max({1, Len(rows)})
    BY <2>4 DEF Max
  <2> QED
    BY <2>2, <2>3, <2>5
<1>6. TableHeld'
  BY <1>2, <1>5 DEF TableHeld
<1> QED
  BY <1>1, <1>6, NotFollowed DEF NoFollowing

(* The live filter. *)
LEMMA FilteredStep ==
    ASSUME ScreenInv, TableHeld, Elsewhere, UNCHANGED <<view, zone, config, marked>>,
           selected' = Placed(Visible', Cursor, 1)
    PROVE  ScreenInv' /\ TableHeld' /\ Followed
<1>1. Shown' = Shown
  BY SameRows DEF Elsewhere, feed
<1>2. ScreenInv'
  BY DEF ScreenInv, Elsewhere, engine, feed
<1>3. ended' = ended
  BY DEF Elsewhere, engine
<1>4. Listed(Visible', view')
  <2>1. (ScreenInv => Listed(Visible, view))'
    BY VisibleListed, PTL
  <2> QED
    BY <1>2, <2>1
<1> DEFINE rows == Visible'
<1> DEFINE was == Visible
<1>5. rows \in Seq(ToSet(rows))
  BY <1>4 DEF Listed
<1>6. Cursor = CursorOf(was, selected) /\ Cursor' = CursorOf(rows, selected')
  BY CursorIs DEF Cursor, CursorOf, Selected
<1> HIDE DEF rows, was
<1>7. selected' \in 1..Max({1, Len(rows)})
  <2>1. selected' = Placed(rows, Cursor, 1) /\ 1 \in Nat \ {0}
    BY DEF rows
  <2> QED
    BY <1>5, <2>1, PlacedInRange
<1>8. ASSUME Cursor # {}, Cursor \subseteq Ids(rows) PROVE Cursor' = Cursor
  <2>1. selected' = Placed(rows, CursorOf(was, selected), 1)
    BY <1>6 DEF rows
  <2>2. CursorOf(rows, Placed(rows, CursorOf(was, selected), 1)) = CursorOf(was, selected)
    BY <1>5, <1>6, <1>8, PlacedOnCursor
  <2> QED
    BY <1>6, <2>1, <2>2
<1>9. TableHeld'
  BY <1>1, <1>3, <1>7 DEF TableHeld, rows
<1> QED
  BY <1>2, <1>8, <1>9 DEF Followed, rows

-----------------------------------------------------------------------------
(* The steps *)

LEMMA NewsKeepTable ==
    ASSUME ScreenInv, TableHeld,
           \/ RefreshStarted \/ OverviewReady \/ RefreshCompleted \/ RefreshCancelled
           \/ LogsReceived \/ EngineStopped
    PROVE  ScreenInv' /\ TableHeld' /\ Followed
<1>1. News => UNCHANGED <<settings, view, zone, config, filter>>
  BY DEF News, place
<1>2. CASE RefreshStarted \/ OverviewReady \/ RefreshCompleted \/ RefreshCancelled
  <2>1. UNCHANGED <<settings, view, zone, config, logs, received, ended>>
    BY <1>1, <1>2 DEF RefreshStarted, OverviewReady, RefreshCompleted, RefreshCancelled, feed
  <2>2. /\ snapshot' \subseteq settings.firewalls /\ overview' \subseteq settings.firewalls
        /\ overview' # {} => active'
    <3>1. CASE RefreshStarted
      BY <3>1 DEF ScreenInv, RefreshStarted
    <3>2. CASE OverviewReady
      BY <3>2 DEF ScreenInv, OverviewReady
    <3>3. CASE RefreshCompleted
      BY <3>3 DEF ScreenInv, RefreshCompleted
    <3>4. CASE RefreshCancelled
      BY <3>4 DEF ScreenInv, RefreshCancelled
    <3> QED
      BY <1>2, <3>1, <3>2, <3>3, <3>4
  <2>3. ScreenInv'
    BY <2>1, <2>2 DEF ScreenInv
  <2>4. Reconcile(Cursor)
    BY <1>2 DEF RefreshStarted, OverviewReady, RefreshCompleted, RefreshCancelled
  <2> QED
    BY <2>1, <2>3, <2>4, ReconciledStep
<1>3. CASE LogsReceived
  <2>1. UNCHANGED <<settings, view, zone, config, filter, engine, snapshot, overview, active, ended>>
    BY <1>1, <1>3 DEF LogsReceived, engine
  <2>2. logs' \in Seq(Line) /\ received' \in Nat
    <3>1. PICK flow \in settings.flows :
             logs' = Append(IF Len(logs) < LogCapacity THEN logs ELSE Tail(logs), [number |-> received, flow |-> flow])
      BY <1>3 DEF LogsReceived
    <3> DEFINE line == [number |-> received, flow |-> flow]
    <3>2. line \in Line
      BY DEF Line, ScreenInv
    <3>3. logs \in Seq(Line) /\ Len(logs) \in Nat /\ LogCapacity \in Nat \ {0}
      BY ScreenAssumption DEF ScreenInv
    <3>4. Len(logs) < LogCapacity \/ logs # <<>>
      BY <3>3
    <3>5. received' \in Nat
      BY <1>3 DEF LogsReceived, ScreenInv
    <3> HIDE DEF line
    <3>6. Append(logs, line) \in Seq(Line) /\ (logs # <<>> => Append(Tail(logs), line) \in Seq(Line))
      BY <3>2, <3>3
    <3> QED
      BY <3>1, <3>4, <3>5, <3>6 DEF line
  <2>3. ScreenInv'
    BY <2>1, <2>2 DEF ScreenInv
  <2>4. CASE view = "Logs"
    <3>1. Reconcile(Cursor)
      BY <1>3, <2>4 DEF LogsReceived
    <3> QED
      BY <2>1, <2>3, <3>1, ReconciledStep
  <2>5. CASE view # "Logs"
    <3>1. UNCHANGED <<selected, marked>>
      BY <1>3, <2>5 DEF LogsReceived
    <3>2. Shown' = Shown
      BY <2>1, <2>5 DEF Shown, AllRows
    <3>3. Visible' = Visible
      BY <2>1, <3>2 DEF Visible, Matching
    <3>4. Cursor' = Cursor
      BY <3>1, <3>3 DEF Cursor, Selected
    <3> QED
      BY <2>1, <2>3, <3>1, <3>2, <3>3, <3>4 DEF TableHeld, Followed
  <2> QED
    BY <2>4, <2>5
<1>4. CASE EngineStopped
  <2>1. ended' = TRUE /\ ended = FALSE
    BY <1>4 DEF EngineStopped, News
  <2>2. UNCHANGED <<settings, view, zone, config, logs, received, snapshot>> /\ overview' = {}
    BY <1>1, <1>4 DEF EngineStopped, feed
  <2>3. ScreenInv'
    BY <2>2 DEF ScreenInv
  <2> QED
    BY <2>1, <2>3 DEF TableHeld, Followed
<1> QED
  BY <1>2, <1>3, <1>4

(* What is asked for leaves the table alone. *)
LEMMA RequestsKeepTable ==
    ASSUME NEW rest, NEW op, RequestOperation(op, rest)
    PROVE  Elsewhere /\ UNCHANGED table
  BY DEF RequestOperation, Elsewhere, engine, feed, table, place

LEMMA SwitchesKeepTable ==
    ASSUME NEW rest, SetDefaultZone(rest) \/ ReloadRequested(rest) \/ (\E flag \in Flag : Toggle(flag, rest))
    PROVE  Elsewhere /\ UNCHANGED table
<1>1. \E op : RequestOperation(op, rest)
  BY DEF SetDefaultZone, ReloadRequested, Toggle
<1> QED
  BY <1>1, RequestsKeepTable

LEMMA TableUnchanged ==
    ASSUME UNCHANGED table
    PROVE  UNCHANGED <<view, zone, config, filter, selected, marked, mode>>
  BY DEF table, place

LEMMA DeletionsKeepTable ==
    ASSUME NEW rest, DeleteEntry(rest), ScreenInv, TableHeld, mode = "Normal" \/ overlays # <<>>
    PROVE  ScreenInv' /\ TableHeld' /\ Followed
<1>1. CASE marked # {}
  <2>1. BulkDelete(rest)
    BY <1>1 DEF DeleteEntry
  <2>2. Elsewhere /\ UNCHANGED <<place, selected>>
    BY <2>1 DEF BulkDelete, Person, Elsewhere
  <2>3. marked' = marked \/ marked' = {}
    BY <2>1 DEF BulkDelete
  <2> QED
    BY <2>2, <2>3, TableKeyStep DEF NoFollowing, place
<1>2. CASE marked = {}
  <2>1. \E op : RequestOperation(op, rest)
    BY <1>2 DEF DeleteEntry
  <2>2. Elsewhere /\ UNCHANGED table
    BY <2>1, RequestsKeepTable
  <2> QED
    BY <2>2, TableUnchanged, SameTableStep
<1> QED
  BY <1>1, <1>2

(* The commands of the palette, most of which are keys as well. *)
LEMMA CommandsKeepTable ==
    ASSUME NEW rest, ScreenInv, TableHeld, mode = "Normal" \/ overlays # <<>>,
           \/ SwitchView(rest) \/ ToggleConfigView(rest) \/ ClearFilter(rest)
           \/ (\E dialog : Open(dialog, rest)) \/ DiscardStagedPlan(rest) \/ ApplyStagedPlan(rest)
    PROVE  ScreenInv' /\ TableHeld' /\ Followed
<1>1. CASE SwitchView(rest)
  <2>1. Elsewhere /\ NoFollowing /\ zone' = zone /\ view' \in settings.views /\ marked' = {}
    BY <1>1 DEF SwitchView, Quiet, Person, Elsewhere, NoFollowing
  <2>2. selected' = Placed(Visible', {}, selected) \/ selected' \in {1} \cup DOMAIN Visible'
    BY <1>1 DEF SwitchView
  <2> QED
    BY <2>1, <2>2, ViewChangedStep
<1>2. CASE ToggleConfigView(rest) \/ ClearFilter(rest)
  <2>1. Elsewhere /\ UNCHANGED <<view, zone>> /\ config' \in {Runtime, Permanent} /\ Reconcile(Cursor)
    BY <1>2 DEF ToggleConfigView, ClearFilter, Quiet, Person, Elsewhere, ScreenInv
  <2>2. ScreenInv' /\ ended' = ended
    BY <2>1 DEF ScreenInv, Elsewhere, engine, feed
  <2> QED
    BY <2>1, <2>2, ReconciledStep
<1>3. CASE (\E dialog : Open(dialog, rest)) \/ DiscardStagedPlan(rest) \/ ApplyStagedPlan(rest)
  <2>1. Elsewhere /\ UNCHANGED table
    BY <1>3 DEF Open, DiscardStagedPlan, ApplyStagedPlan, Person, Elsewhere
  <2> QED
    BY <2>1, TableUnchanged, SameTableStep
<1> QED
  BY <1>1, <1>2, <1>3

LEMMA PaletteKeepsTable ==
    ASSUME ScreenInv, TableHeld, PaletteExecute
    PROVE  ScreenInv' /\ TableHeld' /\ Followed
<1>1. overlays # <<>>
  BY DEF PaletteExecute, Top
<1>2. CASE Command(Rest)
  <2>1. \/ SwitchView(Rest) \/ ToggleConfigView(Rest) \/ ClearFilter(Rest)
        \/ (\E dialog : Open(dialog, Rest)) \/ DiscardStagedPlan(Rest)
    BY <1>2 DEF Command, Inspect
  <2> QED
    BY <1>1, <2>1, CommandsKeepTable
<1>3. CASE Mutation(Rest)
  <2>1. CASE (\E dialog : Open(dialog, Rest)) \/ ApplyStagedPlan(Rest)
    BY <1>1, <2>1, CommandsKeepTable
  <2>2. CASE SetDefaultZone(Rest) \/ ReloadRequested(Rest) \/ (\E flag \in Flag : Toggle(flag, Rest))
    <3>1. Elsewhere /\ UNCHANGED table
      BY <2>2, SwitchesKeepTable
    <3> QED
      BY <3>1, TableUnchanged, SameTableStep
  <2>3. CASE \E op : RequestOperation(op, Rest)
    <3>1. Elsewhere /\ UNCHANGED table
      BY <2>3, RequestsKeepTable
    <3> QED
      BY <3>1, TableUnchanged, SameTableStep
  <2>4. CASE DeleteEntry(Rest)
    BY <1>1, <2>4, DeletionsKeepTable
  <2> QED
    BY <1>3, <2>1, <2>2, <2>3, <2>4 DEF Mutation, Flag
<1> QED
  BY <1>2, <1>3 DEF PaletteExecute

LEMMA AdditionsAre ==
    ASSUME ScreenInv, AddEntry
    PROVE  (\E dialog : Open(dialog, overlays)) \/ (\E op : RequestOperation(op, overlays))
<1>1. /\ view \in {"Services", "Ports", "Forwarding", "RichRules", "Interfaces", "Sources", "Zones",
                   "IpSets", "Policies", "Direct", "Logs"}
      /\ DOMAIN EntryField = {"Services", "Ports", "Forwarding", "RichRules"}
      /\ DOMAIN BindingField = {"Interfaces", "Sources"}
  <2>1. view \in ViewId
    BY ScreenAssumption DEF ScreenInv
  <2> QED
    BY <2>1 DEF ViewId, EntryField, BindingField, NamedType
<1>2. CASE view = "Logs"
  <2>1. ProposeFromLog
    BY <1>1, <1>2, Zenon DEF AddEntry
  <2> QED
    BY <2>1, Zenon DEF ProposeFromLog
<1>3. CASE view # "Logs"
  BY <1>1, <1>3 DEF AddEntry
<1> QED
  BY <1>2, <1>3

LEMMA TableKeysKeepTable ==
    ASSUME ScreenInv, TableHeld, TableKey
    PROVE  ScreenInv' /\ TableHeld' /\ Followed
<1>1. mode = "Normal"
  BY DEF TableKey
<1>2. CASE MoveSelection \/ ToggleMark
  <2>1. Elsewhere /\ UNCHANGED place
    BY <1>2 DEF MoveSelection, ToggleMark, Quiet, Person, Elsewhere
  <2>2. selected' \in {selected} \cup DOMAIN Visible /\ marked' \subseteq marked \cup Cursor
    <3>1. CASE MoveSelection
      BY <3>1 DEF MoveSelection
    <3>2. CASE ToggleMark
      BY <3>2 DEF ToggleMark, SymDiff
    <3> QED
      BY <1>2, <3>1, <3>2
  <2> QED
    BY <1>1, <2>1, <2>2, TableKeyStep DEF place, NoFollowing
<1>3. CASE EnterFilterMode
  <2>1. Elsewhere /\ UNCHANGED <<view, zone, config, filter, selected, marked>>
    BY <1>3 DEF EnterFilterMode, Quiet, Person, Elsewhere
  <2> QED
    BY <2>1, SameTableStep
<1>4. CASE ActivateRow
  <2>1. /\ Elsewhere /\ NoFollowing /\ UNCHANGED <<view, config, filter, selected, marked>>
        /\ zone' = zone \/ (view = "Zones" /\ \E row \in Selected : zone' = {row.id.object})
    BY <1>1, <1>4 DEF ActivateRow, Person, Elsewhere, NoFollowing
  <2>2. CASE zone' = zone
    BY <2>1, <2>2, SameTableStep
  <2>3. CASE view = "Zones" /\ \E row \in Selected : zone' = {row.id.object}
    <3>1. PICK row \in Selected : zone' = {row.id.object}
      BY <2>3
    <3>2. Listed(Visible, view)
      BY VisibleListed
    <3>3. Fits(row, view)
      BY <3>2 DEF Selected, Listed
    <3>4. zone' \subseteq Zones
      BY <2>3, <3>1, <3>3 DEF Fits
    <3> QED
      BY <2>1, <2>3, <3>4, ZoneChosenStep
  <2> QED
    BY <2>1, <2>2, <2>3
<1>5. CASE AddEntry \/ CloneEntry
  <2>1. (\E dialog : Open(dialog, overlays)) \/ (\E op : RequestOperation(op, overlays))
    BY <1>5, AdditionsAre, Zenon DEF CloneEntry
  <2>2. CASE \E dialog : Open(dialog, overlays)
    BY <1>1, <2>2, CommandsKeepTable
  <2>3. CASE \E op : RequestOperation(op, overlays)
    <3>1. Elsewhere /\ UNCHANGED table
      BY <2>3, RequestsKeepTable
    <3> QED
      BY <3>1, TableUnchanged, SameTableStep
  <2> QED
    BY <2>1, <2>2, <2>3
<1>6. CASE SwitchView(overlays) \/ ToggleConfigView(overlays) \/ ClearFilter(overlays)
           \/ Inspect(overlays) \/ Open([kind |-> "Palette"], overlays)
  <2>1. \/ SwitchView(overlays) \/ ToggleConfigView(overlays) \/ ClearFilter(overlays)
        \/ (\E dialog : Open(dialog, overlays))
    BY <1>6 DEF Inspect
  <2> QED
    BY <1>1, <2>1, CommandsKeepTable
<1>7. CASE DeleteEntry(overlays)
  BY <1>1, <1>7, DeletionsKeepTable
<1>8. CASE Toggle("masquerade", overlays)
  <2>1. Elsewhere /\ UNCHANGED table
    BY <1>8, SwitchesKeepTable DEF Flag
  <2> QED
    BY <2>1, TableUnchanged, SameTableStep
<1> QED
  BY <1>2, <1>3, <1>4, <1>5, <1>6, <1>7, <1>8 DEF TableKey

LEMMA FilterKeepsTable ==
    ASSUME ScreenInv, TableHeld, FilterKey
    PROVE  ScreenInv' /\ TableHeld' /\ Followed
<1>1. Elsewhere /\ UNCHANGED <<view, zone, config>>
  BY DEF FilterKey, Quiet, Person, Elsewhere
<1>2. CASE selected' = Placed(Visible', Cursor, 1) /\ marked' = marked
  BY <1>1, <1>2, FilteredStep
<1>3. CASE UNCHANGED <<filter, selected, marked>>
  BY <1>1, <1>3, SameTableStep
<1>4. CASE Reconcile(Cursor)
  <2>1. ScreenInv' /\ ended' = ended
    BY <1>1 DEF ScreenInv, Elsewhere, engine, feed
  <2> QED
    BY <1>4, <2>1, ReconciledStep
<1> QED
  BY <1>2, <1>3, <1>4 DEF FilterKey

LEMMA SearchKeepsTable ==
    ASSUME ScreenInv, TableHeld, SearchExecute
    PROVE  ScreenInv' /\ TableHeld' /\ Followed
<1>1. Elsewhere /\ NoFollowing /\ zone' = zone /\ view' \in settings.views /\ marked' = {} /\ filter' = None
  BY DEF SearchExecute, Top, Quiet, Person, Elsewhere, NoFollowing
<1>2. selected' \in DOMAIN AllRows(view')
  BY DEF SearchExecute
<1>3. AllRows(view') = AllRows(view)'
  BY <1>1 DEF AllRows, Elsewhere, NoFollowing, engine, feed
<1>4. Visible' = AllRows(view)'
  BY <1>1 DEF Visible, Matching, Shown
<1> QED
  BY <1>1, <1>2, <1>3, <1>4, ViewChangedStep

LEMMA DialogsKeepTable ==
    ASSUME ScreenInv, TableHeld,
           ControlKey \/ CloseOverlay \/ FormSubmit \/ ConfirmAccept \/ ConfirmStage \/ ReportLoaded
    PROVE  ScreenInv' /\ TableHeld' /\ Followed
<1>1. Elsewhere /\ UNCHANGED table
  <2>1. CASE ReloadRequested(overlays)
    BY <2>1, SwitchesKeepTable
  <2>2. CASE Open([kind |-> "Search"], overlays)
    BY <2>2 DEF Open, Person, Elsewhere
  <2>3. CASE FormSubmit
    <3>1. \E op : RequestOperation(op, Rest)
      BY <2>3, Zenon DEF FormSubmit, Submitted
    <3> QED
      BY <3>1, RequestsKeepTable
  <2>4. CASE CloseOverlay \/ ConfirmAccept \/ ConfirmStage \/ ReportLoaded
    BY <2>4 DEF CloseOverlay, ConfirmAccept, ConfirmStage, ReportLoaded, Quiet, Person, Elsewhere
  <2> QED
    BY <2>1, <2>2, <2>3, <2>4 DEF ControlKey
<1> QED
  BY <1>1, TableUnchanged, SameTableStep

LEMMA StepsKeepTable ==
    ASSUME ScreenInv, TableHeld, [Next]_vars
    PROVE  ScreenInv' /\ TableHeld' /\ Followed
<1>1. CASE UNCHANGED vars
  <2>1. Elsewhere /\ UNCHANGED table
    BY <1>1 DEF vars, Elsewhere
  <2> QED
    BY <2>1, TableUnchanged, SameTableStep
<1>2. CASE Next
  BY <1>2, NewsKeepTable, TableKeysKeepTable, FilterKeepsTable, PaletteKeepsTable, SearchKeepsTable,
     DialogsKeepTable DEF Next
<1> QED
  BY <1>1, <1>2

LEMMA ScreenStarts == Init => ScreenInv /\ TableHeld
<1> SUFFICES ASSUME Init PROVE ScreenInv /\ TableHeld
  OBVIOUS
<1>1. ScreenInv
  BY DEF Init, ScreenInv
<1>2. Len(Visible) \in Nat
  BY <1>1, VisibleListed DEF Listed
<1>3. 1 \in 1..Max({1, Len(Visible)})
  BY <1>2 DEF Max
<1>4. TableHeld
  BY <1>3 DEF Init, TableHeld
<1> QED
  BY <1>1, <1>4

(***************************************************************************)
(* `SelectionHeld` for every session: by the invariant that the rows are a *)
(* sequence, whichever view, zone, preview and filter they are made of,    *)
(* and that the cursor was put among them or they did not change since.    *)
(***************************************************************************)
THEOREM CursorIsOnARow == Spec => []SelectionHeld
<1>1. Init => ScreenInv /\ TableHeld
  BY ScreenStarts
<1>2. ScreenInv /\ TableHeld /\ [Next]_vars => ScreenInv' /\ TableHeld'
  BY StepsKeepTable
<1>3. ScreenInv /\ TableHeld => SelectionHeld
  BY DEF ScreenInv, TableHeld, SelectionHeld
<1> QED
  BY <1>1, <1>2, <1>3, PTL DEF Spec

(***************************************************************************)
(* `CursorFollows` for every session.  Each action that changes the rows   *)
(* or the filter places the cursor anew (ReconciledStep, FilteredStep);    *)
(* the others are shown not to change them: for the choice of a zone that  *)
(* is because the list of zones is the same whatever zone is chosen.       *)
(***************************************************************************)
THEOREM CursorStaysOnItsRow == Spec => CursorFollows
<1>1. Init => ScreenInv /\ TableHeld
  BY ScreenStarts
<1>2. ScreenInv /\ TableHeld /\ [Next]_vars => ScreenInv' /\ TableHeld' /\ [Followed]_vars
  BY StepsKeepTable
<1> QED
  BY <1>1, <1>2, PTL DEF Spec, CursorFollows, Followed

-----------------------------------------------------------------------------
(* What is asked *)

IsList(s) == s \in Seq(ToSet(s))

LEMMA Lists ==
    ASSUME NEW S, NEW s \in Seq(S)
    PROVE  /\ IsList(s) /\ DOMAIN s = 1..Len(s) /\ Len(s) \in Nat
           /\ \A x : x \in ToSet(s) <=> \E i \in 1..Len(s) : s[i] = x
<1>1. \A i \in 1..Len(s) : s[i] \in ToSet(s)
  BY ElementsOf
<1>2. IsList(s)
  BY <1>1 DEF IsList
<1> QED
  BY <1>2, ElementsOf

LEMMA ListsJoined ==
    ASSUME NEW s, IsList(s), NEW t, IsList(t)
    PROVE  IsList(s \o t) /\ ToSet(s \o t) = ToSet(s) \cup ToSet(t)
<1> DEFINE S == ToSet(s) \cup ToSet(t)
<1> DEFINE u == s \o t
<1>1. s \in Seq(S) /\ t \in Seq(S)
  BY DEF IsList
<1> HIDE DEF S
<1>2. u \in Seq(S) /\ ToSet(u) = ToSet(s) \cup ToSet(t)
  BY <1>1, Concatenated
<1> HIDE DEF u
<1> QED
  BY <1>2, Lists DEF u

LEMMA ListsExtended ==
    ASSUME NEW s, IsList(s), NEW e
    PROVE  IsList(Append(s, e)) /\ ToSet(Append(s, e)) = ToSet(s) \cup {e}
<1> DEFINE S == ToSet(s) \cup {e}
<1> DEFINE u == Append(s, e)
<1>1. s \in Seq(S) /\ e \in S
  BY DEF IsList
<1> HIDE DEF S
<1>2. u \in Seq(S) /\ ToSet(u) = ToSet(s) \cup {e}
  BY <1>1, Appended
<1> HIDE DEF u
<1> QED
  BY <1>2, Lists DEF u

LEMMA ListsShortened ==
    ASSUME NEW s, IsList(s), s # <<>>
    PROVE  /\ IsList(Front(s)) /\ ToSet(Front(s)) \subseteq ToSet(s)
           /\ Last(s) \in ToSet(s)
<1> DEFINE S == ToSet(s)
<1> DEFINE n == Len(s)
<1> DEFINE f == SubSeq(s, 1, n - 1)
<1>1. s \in Seq(S) /\ n \in Nat /\ n # 0
  BY NoElements DEF IsList
<1>2. n - 1 \in 0..n /\ \A i \in 1..n : s[i] \in S
  BY <1>1
<1>3. f \in Seq(S) /\ Len(f) = n - 1
  BY <1>1, <1>2, Prefix
<1> HIDE DEF f
<1>4. IsList(f) /\ ToSet(f) \subseteq S
  BY <1>3, ElementsOf, Lists
<1> QED
  BY <1>1, <1>2, <1>4 DEF Front, Last, f

(* An operation is a record of one shape. *)
Shaped(op) == op = Make(op.kind, op.object, op.element, op.adding, op.target)

OperationList(ops) == IsList(ops) /\ \A op \in ToSet(ops) : Shaped(op)

Dialogs(list) ==
    /\ IsList(list)
    /\ \A d \in ToSet(list) : d.kind = "Confirm" => ~settings.readOnly /\ OperationList(d.ops)

(* A reader has nothing staged and is asked nothing. *)
AskInv ==
    /\ Dialogs(overlays)
    /\ OperationList(staged)
    /\ settings.readOnly => staged = <<>>

Listable == {"service", "port", "forward_port", "rich_rule", "interface", "source"}

(* The row that warrants the removal is there. *)
Warranted(op) ==
    op.kind = "Edit" /\ ~op.adding /\ op.element[1] \in Listable =>
       \E row \in ToSet(Visible) :
          /\ row.id.object = op.object /\ row.id.value = op.element[2]
          /\ op.target \subseteq row.scopes

Narrower(op, wide) == op = [wide EXCEPT !.target = op.target] /\ op.target \subseteq wide.target

LEMMA NarrowedIsNarrower ==
    ASSUME NEW op, Shaped(op), NEW s
    PROVE  Narrower(NarrowedFor(op, s), op)
<1> DEFINE n == NarrowedFor(op, s)
<1> DEFINE needing == {scope \in Both :
                         IF op.kind = "PolicySet" THEN SetMatches(op.adding, s, scope) = {FALSE}
                         ELSE Exists(op, s, scope) /\ Present(op, s, scope) # op.adding}
<1>1. n = op \/ (n = [op EXCEPT !.target = needing] /\ op.target = Both)
  BY DEF NarrowedFor
<1>2. needing \subseteq Both
  OBVIOUS
<1> SUFFICES Narrower(n, op)
  OBVIOUS
<1> HIDE DEF n, needing
<1>3. CASE n = op
  <2>1. op = [op EXCEPT !.target = op.target]
    BY DEF Shaped, Make
  <2> QED
    BY <1>3, <2>1 DEF Narrower
<1>4. CASE n = [op EXCEPT !.target = needing] /\ op.target = Both
  <2>1. n.target = needing
    BY <1>4 DEF Shaped, Make
  <2> QED
    BY <1>2, <1>4, <2>1 DEF Narrower
<1> QED
  BY <1>1, <1>3, <1>4

LEMMA NarrowerAgrees ==
    ASSUME NEW wide, Shaped(wide), NEW op, Narrower(op, wide)
    PROVE  /\ Shaped(op) /\ op.kind = wide.kind /\ op.object = wide.object
           /\ op.element = wide.element /\ op.adding = wide.adding
           /\ op.target \subseteq wide.target
<1> DEFINE t == op.target
<1>1. op = [wide EXCEPT !.target = t] /\ t \subseteq wide.target
  BY DEF Narrower
<1>2. wide = Make(wide.kind, wide.object, wide.element, wide.adding, wide.target)
  BY DEF Shaped
<1> HIDE DEF t
<1>3. op = Make(wide.kind, wide.object, wide.element, wide.adding, t)
  BY <1>1, <1>2 DEF Make
<1> QED
  BY <1>1, <1>3 DEF Make, Shaped

LEMMA ReviewableIsNarrower ==
    ASSUME NEW wide, Shaped(wide), NEW s, NEW op \in Reviewable(wide, s)
    PROVE  Narrower(op, wide)
<1>1. PICK a \in Aimed(wide, s) : op = NarrowedFor(a, s)
  BY DEF Reviewable
<1>2. CASE a = wide
  BY <1>1, <1>2, NarrowedIsNarrower
<1>3. CASE a = [wide EXCEPT !.target = Permanent] /\ wide.target = Both
  <2>1. a = Make(wide.kind, wide.object, wide.element, wide.adding, Permanent)
    BY <1>3 DEF Shaped, Make
  <2>2. Shaped(a) /\ a.target = Permanent
    BY <2>1 DEF Shaped, Make
  <2>3. Narrower(op, a)
    BY <1>1, <2>2, NarrowedIsNarrower
  <2> DEFINE t == op.target
  <2>4. op = [a EXCEPT !.target = t] /\ t \subseteq Permanent
    BY <2>2, <2>3 DEF Narrower
  <2> HIDE DEF t
  <2>5. op = Make(wide.kind, wide.object, wide.element, wide.adding, t)
    BY <2>1, <2>4 DEF Make
  <2>6. op = [wide EXCEPT !.target = t]
    BY <2>5 DEF Shaped, Make
  <2>7. t \subseteq wide.target
    BY <1>3, <2>4 DEF Both, Permanent
  <2> QED
    BY <2>6, <2>7 DEF Narrower, t
<1> QED
  BY <1>1, <1>2, <1>3 DEF Aimed

-----------------------------------------------------------------------------
(* What each step puts forward *)

(* What `AskInv` and the two properties say of a step. *)
Rightful(op) ==
    /\ op.kind = "Edit" /\ ~op.adding /\ ~FromStaging(op)
    /\ op.element[1] \in {"service", "port", "forward_port", "rich_rule", "interface", "source"}
    => \E row \in ToSet(Visible) :
          /\ row.id.object = op.object /\ row.id.value = op.element[2]
          /\ op.target \subseteq row.scopes

Told ==
    /\ AskInv'
    /\ settings.readOnly \/ failed => asked' = <<>>
    /\ settings.readOnly => staged' = <<>>
    /\ \A i \in DOMAIN asked' : Rightful(asked'[i])

LEMMA WarrantedIsRightful ==
    ASSUME NEW wide, Shaped(wide), Warranted(wide), NEW op, Narrower(op, wide)
    PROVE  Rightful(op)
<1>1. /\ op.kind = wide.kind /\ op.object = wide.object /\ op.element = wide.element
      /\ op.adding = wide.adding /\ op.target \subseteq wide.target
  BY NarrowerAgrees
<1> QED
  BY <1>1, Zenon DEF Warranted, Rightful, Listable

LEMMA StagedIsRightful ==
    ASSUME NEW wide \in ToSet(staged), NEW op, Narrower(op, wide)
    PROVE  Rightful(op)
<1>1. \E i \in DOMAIN staged : staged[i] = wide
  BY DEF ToSet
<1>2. FromStaging(op)
  BY <1>1 DEF FromStaging, Narrower
<1> QED
  BY <1>2 DEF Rightful

LEMMA DroppedStep ==
    ASSUME NEW rest, Dialogs(rest), Drop(rest), settings' = settings,
           OperationList(staged'), settings.readOnly => staged' = <<>>
    PROVE  Told
  BY DEF Drop, Told, AskInv, Dialogs

LEMMA OpenedStep ==
    ASSUME AskInv, NEW rest, Dialogs(rest), NEW dialog, dialog.kind # "Confirm", Open(dialog, rest)
    PROVE  Told
<1>1. settings' = settings /\ staged' = staged /\ asked' = <<>> /\ overlays' = Append(rest, dialog)
  BY DEF Open, Person
<1>2. IsList(overlays') /\ ToSet(overlays') = ToSet(rest) \cup {dialog}
  BY <1>1, ListsExtended DEF Dialogs
<1>3. Dialogs(overlays)'
  BY <1>1, <1>2 DEF Dialogs
<1> QED
  BY <1>1, <1>3 DEF Told, AskInv

LEMMA PutForwardStep ==
    ASSUME ~settings.readOnly, ~failed, settings' = settings,
           NEW rest, Dialogs(rest), NEW ops, OperationList(ops), \A op \in ToSet(ops) : Rightful(op),
           NEW plan, PutForward(ops, plan, rest), OperationList(staged')
    PROVE  Told
<1>1. asked' = ops /\ (overlays' = Append(rest, Question(ops, plan)) \/ overlays' = rest)
  BY DEF PutForward
<1>2. \A i \in DOMAIN asked' : Rightful(asked'[i])
  <2>1. \A i \in DOMAIN ops : ops[i] \in ToSet(ops)
    BY DEF ToSet
  <2> QED
    BY <1>1, <2>1
<1>3. CASE overlays' = rest
  BY <1>2, <1>3 DEF Told, AskInv, Dialogs
<1>4. CASE overlays' = Append(rest, Question(ops, plan))
  <2> DEFINE d == Question(ops, plan)
  <2>1. d.kind = "Confirm" /\ d.ops = ops
    BY DEF Question
  <2> HIDE DEF d
  <2>2. IsList(overlays') /\ ToSet(overlays') = ToSet(rest) \cup {d}
    BY <1>4, ListsExtended DEF Dialogs, d
  <2>3. Dialogs(overlays)'
    BY <2>1, <2>2 DEF Dialogs
  <2> QED
    BY <1>2, <2>3 DEF Told, AskInv
<1> QED
  BY <1>1, <1>3, <1>4

LEMMA RequestedStep ==
    ASSUME AskInv, NEW rest, Dialogs(rest), NEW wide, Shaped(wide), Warranted(wide),
           RequestOperation(wide, rest)
    PROVE  Told
<1>1. settings' = settings /\ staged' = staged
  BY DEF RequestOperation
<1> DEFINE fit == IF Blocked THEN {} ELSE Reviewable(wide, Current)
<1> DEFINE op == Only(fit)
<1>2. IF fit = {} THEN Drop(rest) ELSE PutForward(<<op>>, FALSE, rest)
  BY Zenon DEF RequestOperation
<1>3. CASE fit = {}
  BY <1>1, <1>2, <1>3, DroppedStep DEF AskInv
<1>4. CASE fit # {}
  <2>1. ~Blocked /\ op \in Reviewable(wide, Current)
    BY <1>4 DEF Only
  <2>2. ~settings.readOnly /\ ~failed
    BY <2>1 DEF Blocked
  <2>3. Narrower(op, wide)
    BY <2>1, ReviewableIsNarrower
  <2>4. PutForward(<<op>>, FALSE, rest)
    BY <1>2, <1>4
  <2> HIDE DEF op
  <2>5. Shaped(op) /\ Rightful(op)
    BY <2>3, NarrowerAgrees, WarrantedIsRightful
  <2> DEFINE ops == <<op>>
  <2>6. IsList(ops) /\ ToSet(ops) = {op}
    BY DEF IsList, ToSet
  <2>7. PutForward(ops, FALSE, rest)
    BY <2>4
  <2> HIDE DEF ops
  <2>8. OperationList(ops) /\ \A o \in ToSet(ops) : Rightful(o)
    BY <2>5, <2>6 DEF OperationList
  <2>9. OperationList(staged')
    BY <1>1 DEF AskInv
  <2> QED
    BY <1>1, <2>2, <2>7, <2>8, <2>9, PutForwardStep
<1> QED
  BY <1>3, <1>4

LEMMA PlannedStep ==
    ASSUME AskInv, NEW rest, Dialogs(rest), settings' = settings,
           NEW todo, OperationList(todo), settings.readOnly => todo = <<>>,
           \A wide \in ToSet(todo) : wide \in ToSet(staged) \/ Warranted(wide),
           ApplyPlan(todo, rest)
    PROVE  Told
<1> DEFINE plan == [i \in DOMAIN todo |-> NarrowedFor(todo[i], Current)]
<1> DEFINE valid == {op \in ToSet(plan) : Valid(op, Current)}
<1> DEFINE ops == Kept(plan, valid)
<1> DEFINE none == OperationList(<<>>)
<1>1. none
  BY DEF OperationList, IsList, ToSet
<1>2. \/ Drop(rest) /\ staged' \in {todo, <<>>}
      \/ ~Blocked /\ PutForward(ops, TRUE, rest) /\ staged' \in {todo, <<>>}
  <2> HIDE DEF Drop, PutForward, Blocked
  <2> QED
    BY Zenon DEF ApplyPlan
<1>3. OperationList(staged') /\ (settings.readOnly => staged' = <<>>)
  BY <1>1, <1>2
<1>4. CASE Drop(rest)
  BY <1>3, <1>4, DroppedStep
<1>5. CASE ~Blocked /\ PutForward(ops, TRUE, rest)
  <2>1. ~settings.readOnly /\ ~failed
    BY <1>5 DEF Blocked
  <2>2. IsList(todo) /\ DOMAIN todo = 1..Len(todo)
    BY DEF OperationList, IsList
  <2>3. ASSUME NEW i \in DOMAIN todo PROVE Shaped(plan[i]) /\ Rightful(plan[i])
    <3> DEFINE wide == todo[i]
    <3> DEFINE op == NarrowedFor(todo[i], Current)
    <3>1. wide \in ToSet(todo)
      BY DEF ToSet
    <3>2. Shaped(wide) /\ (wide \in ToSet(staged) \/ Warranted(wide))
      BY <3>1 DEF OperationList
    <3>3. Narrower(op, wide)
      BY <3>2, NarrowedIsNarrower
    <3>4. plan[i] = op
      OBVIOUS
    <3> HIDE DEF op, wide
    <3>5. Shaped(op) /\ Rightful(op)
      BY <3>2, <3>3, NarrowerAgrees, WarrantedIsRightful, StagedIsRightful
    <3> HIDE DEF plan
    <3> QED
      BY <3>4, <3>5
  <2>4. plan \in [DOMAIN todo -> ToSet(plan)]
    BY DEF ToSet
  <2>5. DOMAIN plan = DOMAIN todo
    OBVIOUS
  <2> HIDE DEF plan, valid
  <2>6. plan \in Seq(ToSet(plan)) /\ Len(plan) = Len(todo)
    BY <2>2, <2>4, OnePerElement DEF IsList
  <2>7. \A x \in ToSet(plan) : Shaped(x) /\ Rightful(x)
    BY <2>3, <2>5 DEF ToSet
  <2>8. ops \in Seq(ToSet(plan))
    BY <2>6, KeptType
  <2> HIDE DEF ops
  <2>9. IsList(ops) /\ ToSet(ops) \subseteq ToSet(plan)
    BY <2>8, ElementsOf, Lists
  <2>10. OperationList(ops) /\ \A op \in ToSet(ops) : Rightful(op)
    BY <2>7, <2>9 DEF OperationList
  <2> QED
    BY <1>3, <1>5, <2>1, <2>10, PutForwardStep
<1> QED
  BY <1>2, <1>4, <1>5

(* A row that can be seen fits its view. *)
LEMMA SeenRows ==
    ASSUME ScreenInv, NEW row \in ToSet(Visible)
    PROVE  Fits(row, view)
<1> DEFINE rows == Visible
<1>1. Listed(rows, view)
  BY VisibleListed
<1> HIDE DEF rows
<1>2. \A x : x \in ToSet(rows) => Fits(x, view)
  BY <1>1, ElementsOf DEF Listed
<1> QED
  BY <1>2 DEF rows

LEMMA SelectedIsSeen == Selected \subseteq ToSet(Visible)
  BY DEF Selected, ToSet

LEMMA MadeIsShaped ==
    ASSUME NEW kind, NEW object, NEW element, NEW adding, NEW target
    PROVE  /\ Shaped(Make(kind, object, element, adding, target))
           /\ (kind # "Edit" \/ adding \/ element[1] \notin Listable)
                => Warranted(Make(kind, object, element, adding, target))
  BY DEF Shaped, Make, Warranted

(* What `remove_operation_for_row` and `delete_entry` make of a row. *)
LEMMA RemovalIsWarranted ==
    ASSUME ScreenInv, NEW row \in ToSet(Visible), NEW op,
           op \in Removal(row, settings.target) \/ op \in Deletion(row, settings.target)
    PROVE  Shaped(op) /\ Warranted(op)
<1>1. Fits(row, view) /\ settings.target \subseteq Both
  <2>1. Fits(row, view)
    BY SeenRows
  <2>2. settings.target \in Targets
    BY ScreenAssumption DEF ScreenInv
  <2> QED
    BY <2>1, <2>2 DEF Targets, Both, Runtime, Permanent
<1> DEFINE edit(field, target) == Make("Edit", row.id.object, <<field, row.id.value>>, FALSE, target)
<1>2. /\ DOMAIN EntryField = {"Services", "Ports", "Forwarding", "RichRules"}
      /\ DOMAIN NamedType = {"Zones", "IpSets", "Policies"}
  BY DEF EntryField, NamedType
<1>3. \/ \E field \in Listable : op = edit(field, row.scopes)
      \/ row.id.view \in DOMAIN EntryField /\ \E field \in Listable : op = edit(field, TargetOr(row, settings.target))
      \/ op = Make("Delete", row.id.object, <<>>, FALSE, Permanent)
  <2>1. ASSUME op \in Removal(row, settings.target)
        PROVE  \/ \E field \in Listable : op = edit(field, row.scopes)
               \/ row.id.view \in DOMAIN EntryField /\ \E field \in Listable : op = edit(field, TargetOr(row, settings.target))
    <3>1. CASE row.id.view \in DOMAIN EntryField
      <4>1. op = edit(EntryField[row.id.view], TargetOr(row, settings.target))
        BY <1>2, <2>1, <3>1 DEF Removal
      <4>2. EntryField[row.id.view] \in Listable
        BY <3>1 DEF EntryField, Listable
      <4> QED
        BY <3>1, <4>1, <4>2
    <3>2. CASE row.id.view \notin DOMAIN EntryField
      <4>1. op = edit("source", row.scopes)
        BY <2>1, <3>2 DEF Removal
      <4> QED
        BY <4>1 DEF Listable
    <3> QED
      BY <3>1, <3>2
  <2>2. CASE op \in Deletion(row, settings.target)
    <3>1. CASE row.id.view = "Interfaces"
      <4>1. op = edit("interface", row.scopes)
        BY <1>2, <2>2, <3>1 DEF Deletion
      <4> QED
        BY <4>1 DEF Listable
    <3>2. CASE row.id.view \in DOMAIN NamedType
      <4>1. op = Make("Delete", row.id.object, <<>>, FALSE, Permanent)
        BY <1>2, <2>2, <3>2 DEF Deletion
      <4> QED
        BY <4>1
    <3>3. CASE row.id.view # "Interfaces" /\ row.id.view \notin DOMAIN NamedType
      <4>1. op \in Removal(row, settings.target)
        BY <2>2, <3>3 DEF Deletion
      <4> QED
        BY <2>1, <4>1
    <3> QED
      BY <3>1, <3>2, <3>3
  <2> QED
    BY <2>1, <2>2
<1>4. ASSUME NEW field, NEW target, target \subseteq row.scopes, op = edit(field, target)
      PROVE  Shaped(op) /\ Warranted(op)
  <2>1. row.id.object = op.object /\ row.id.value = op.element[2] /\ op.target \subseteq row.scopes
    BY <1>4 DEF Make
  <2>2. Shaped(op)
    BY <1>4, MadeIsShaped
  <2> QED
    BY <2>1, <2>2 DEF Warranted
<1>5. row.id.view \in DOMAIN EntryField => TargetOr(row, settings.target) \subseteq row.scopes
  BY <1>1 DEF Fits, TargetOr
<1> HIDE DEF edit
<1> QED
  BY <1>3, <1>4, <1>5, MadeIsShaped

LEMMA RestIsDialogs ==
    ASSUME AskInv, overlays # <<>>
    PROVE  /\ Dialogs(Rest) /\ Last(overlays) \in ToSet(overlays)
           /\ Last(overlays).kind = "Confirm" => ~settings.readOnly /\ OperationList(Last(overlays).ops)
<1> DEFINE list == overlays
<1>1. Dialogs(list) /\ IsList(list) /\ list # <<>>
  BY DEF AskInv, Dialogs
<1>2. IsList(Front(list)) /\ ToSet(Front(list)) \subseteq ToSet(list) /\ Last(list) \in ToSet(list)
  BY <1>1, ListsShortened
<1> QED
  BY <1>1, <1>2 DEF Rest, Dialogs

LEMMA QuietStep ==
    ASSUME AskInv, NEW rest, Dialogs(rest), Quiet(rest)
    PROVE  Told
  BY DroppedStep DEF Quiet, Person, AskInv

LEMMA BulkDeleteAsks ==
    ASSUME ScreenInv, AskInv, NEW rest, Dialogs(rest), BulkDelete(rest)
    PROVE  Told
<1> DEFINE seen == Visible
<1> DEFINE removal(row) == Removal(row, settings.target)
<1> DEFINE wanted == {row \in ToSet(seen) : row.id \in marked /\ removal(row) # {}}
<1> DEFINE rows == Kept(seen, wanted)
<1> DEFINE ops == [i \in DOMAIN rows |-> Only(removal(rows[i]))]
<1>1. /\ settings' = settings
      /\ IF settings.readOnly \/ ops = <<>> THEN Drop(rest) /\ staged' = staged
         ELSE ApplyPlan(staged \o ops, rest)
  <2> HIDE DEF Drop, ApplyPlan
  <2> QED
    BY Zenon DEF BulkDelete, Person
<1>2. CASE settings.readOnly \/ ops = <<>>
  <2>1. Drop(rest) /\ staged' = staged
    BY <1>1, <1>2
  <2> QED
    BY <1>1, <2>1, DroppedStep DEF AskInv
<1>3. CASE ~settings.readOnly /\ ops # <<>>
  <2>1. ApplyPlan(staged \o ops, rest)
    BY <1>1, <1>3
  <2>2. seen \in Seq(ToSet(seen))
    BY VisibleListed DEF Listed
  <2>3. \A row \in wanted : row \in ToSet(Visible) /\ Only(removal(row)) \in removal(row)
    BY DEF Only
  <2>4. \A row \in wanted : Shaped(Only(removal(row))) /\ Warranted(Only(removal(row)))
    BY <2>3, RemovalIsWarranted
  <2> HIDE DEF seen, wanted
  <2>5. rows \in Seq(ToSet(seen)) /\ \A i \in 1..Len(rows) : rows[i] \in wanted
    BY <2>2, KeptType
  <2> HIDE DEF rows, removal
  <2>6. DOMAIN ops = DOMAIN rows /\ DOMAIN rows = 1..Len(rows)
    BY <2>5
  <2>7. \A i \in DOMAIN rows : Shaped(ops[i]) /\ Warranted(ops[i])
    <3>1. \A i \in DOMAIN rows : rows[i] \in wanted /\ ops[i] = Only(removal(rows[i]))
      BY <2>5, <2>6
    <3> QED
      BY <2>4, <3>1 DEF removal
  <2> HIDE DEF ops
  <2>8. ops \in [DOMAIN rows -> ToSet(ops)]
    <3>1. \A i \in DOMAIN rows : ops[i] \in ToSet(ops)
      BY <2>6 DEF ToSet
    <3>2. ops = [i \in DOMAIN rows |-> ops[i]]
      BY DEF ops
    <3> QED
      BY <3>1, <3>2
  <2>9. IsList(ops)
    BY <2>5, <2>8, OnePerElement DEF IsList
  <2>10. \A op \in ToSet(ops) : Shaped(op) /\ Warranted(op)
    BY <2>6, <2>7 DEF ToSet
  <2> DEFINE todo == staged \o ops
  <2>11. IsList(todo) /\ ToSet(todo) = ToSet(staged) \cup ToSet(ops)
    BY <2>9, ListsJoined DEF AskInv, OperationList
  <2>12. ApplyPlan(todo, rest)
    BY <2>1
  <2> HIDE DEF todo
  <2>13. OperationList(todo) /\ \A op \in ToSet(todo) : op \in ToSet(staged) \/ Warranted(op)
    BY <2>10, <2>11 DEF OperationList, AskInv
  <2> QED
    BY <1>1, <1>3, <2>12, <2>13, PlannedStep
<1> QED
  BY <1>2, <1>3

LEMMA DeleteAsks ==
    ASSUME ScreenInv, AskInv, NEW rest, Dialogs(rest), DeleteEntry(rest)
    PROVE  Told
<1>1. CASE marked # {}
  BY <1>1, BulkDeleteAsks DEF DeleteEntry
<1>2. CASE marked = {}
  <2>1. PICK row \in Selected : \E op \in Deletion(row, settings.target) : RequestOperation(op, rest)
    BY <1>2 DEF DeleteEntry
  <2>2. PICK op \in Deletion(row, settings.target) : RequestOperation(op, rest)
    BY <2>1
  <2>3. Shaped(op) /\ Warranted(op)
    BY SelectedIsSeen, RemovalIsWarranted
  <2> QED
    BY <2>2, <2>3, RequestedStep
<1> QED
  BY <1>1, <1>2

(* A request to change what no row of the table shows. *)
LEMMA MadeAsks ==
    ASSUME AskInv, NEW rest, Dialogs(rest),
           NEW kind, NEW object, NEW element, NEW adding, NEW target,
           kind # "Edit" \/ adding \/ element[1] \notin Listable,
           RequestOperation(Make(kind, object, element, adding, target), rest)
    PROVE  Told
  BY MadeIsShaped, RequestedStep

LEMMA SwitchesAsk ==
    ASSUME AskInv, NEW rest, Dialogs(rest),
           \/ SetDefaultZone(rest) \/ ReloadRequested(rest)
           \/ \E flag \in Flag : Toggle(flag, rest)
           \/ \E op \in Switches(Current) : RequestOperation(op, rest)
    PROVE  Told
<1>1. CASE SetDefaultZone(rest)
  <2>1. PICK z : RequestOperation(Make("DefaultZone", z, <<>>, TRUE, Both), rest)
    BY <1>1 DEF SetDefaultZone
  <2> QED
    BY <2>1, MadeAsks
<1>2. CASE ReloadRequested(rest)
  BY <1>2, MadeAsks DEF ReloadRequested
<1>3. CASE \E flag \in Flag : Toggle(flag, rest)
  <2>1. PICK flag \in Flag : Toggle(flag, rest)
    BY <1>3
  <2>2. \E z, on : RequestOperation(Make("Edit", z, <<flag, "on">>, on, settings.target), rest)
    BY <2>1, Zenon DEF Toggle
  <2>3. PICK z, on : RequestOperation(Make("Edit", z, <<flag, "on">>, on, settings.target), rest)
    BY <2>2
  <2> DEFINE element == <<flag, "on">>
  <2>4. element[1] \notin Listable
    BY DEF Flag, Listable
  <2>5. RequestOperation(Make("Edit", z, element, on, settings.target), rest)
    BY <2>3
  <2> HIDE DEF element
  <2> QED
    BY <2>4, <2>5, MadeAsks
<1>4. CASE \E op \in Switches(Current) : RequestOperation(op, rest)
  <2>1. PICK op \in Switches(Current) : RequestOperation(op, rest)
    BY <1>4
  <2>2. \E kind \in {"Panic", "LogDenied", "RuntimeToPermanent"} : \E element, adding, target :
           op = Make(kind, NoObject, element, adding, target)
    BY Zenon DEF Switches
  <2>3. PICK kind \in {"Panic", "LogDenied", "RuntimeToPermanent"} :
           \E element, adding, target : op = Make(kind, NoObject, element, adding, target)
    BY <2>2
  <2>4. PICK element, adding, target : op = Make(kind, NoObject, element, adding, target)
    BY <2>3
  <2>5. kind # "Edit"
    OBVIOUS
  <2> QED
    BY <2>1, <2>4, <2>5, MadeAsks
<1> QED
  BY <1>1, <1>2, <1>3, <1>4

LEMMA CommandsAsk ==
    ASSUME ScreenInv, AskInv, NEW rest, Dialogs(rest),
           \/ SwitchView(rest) \/ ToggleConfigView(rest) \/ ClearFilter(rest)
           \/ (\E dialog : dialog.kind # "Confirm" /\ Open(dialog, rest))
           \/ DiscardStagedPlan(rest) \/ ApplyStagedPlan(rest)
    PROVE  Told
<1>1. CASE SwitchView(rest) \/ ToggleConfigView(rest) \/ ClearFilter(rest)
  <2>1. Quiet(rest)
    BY <1>1 DEF SwitchView, ToggleConfigView, ClearFilter
  <2> QED
    BY <2>1, QuietStep
<1>2. CASE \E dialog : dialog.kind # "Confirm" /\ Open(dialog, rest)
  BY <1>2, OpenedStep
<1>3. CASE DiscardStagedPlan(rest)
  <2>1. Drop(rest) /\ staged' = <<>> /\ settings' = settings
    BY <1>3 DEF DiscardStagedPlan, Person
  <2>2. OperationList(<<>>)
    BY DEF OperationList, IsList, ToSet
  <2> QED
    BY <2>1, <2>2, DroppedStep
<1>4. CASE ApplyStagedPlan(rest)
  <2>1. ApplyPlan(staged, rest) /\ settings' = settings
    BY <1>4 DEF ApplyStagedPlan, Person
  <2> QED
    BY <2>1, PlannedStep DEF AskInv
<1> QED
  BY <1>1, <1>2, <1>3, <1>4

LEMMA PaletteAsks ==
    ASSUME ScreenInv, AskInv, PaletteExecute
    PROVE  Told
<1>1. Dialogs(Rest)
  BY RestIsDialogs DEF PaletteExecute, Top
<1>2. CASE Command(Rest)
  <2>1. \/ SwitchView(Rest) \/ ToggleConfigView(Rest) \/ ClearFilter(Rest)
        \/ (\E dialog : dialog.kind # "Confirm" /\ Open(dialog, Rest)) \/ DiscardStagedPlan(Rest)
    BY <1>2 DEF Command, Inspect
  <2> QED
    BY <1>1, <2>1, CommandsAsk
<1>3. CASE Mutation(Rest)
  <2>1. CASE \E f \in settings.forms : Open(Form(f), Rest)
    <3>1. \E dialog : dialog.kind # "Confirm" /\ Open(dialog, Rest)
      BY <2>1 DEF Form
    <3> QED
      BY <1>1, <3>1, CommandsAsk
  <2>2. CASE SetDefaultZone(Rest) \/ ReloadRequested(Rest) \/ (\E flag \in Flag : Toggle(flag, Rest))
             \/ (\E op \in Switches(Current) : RequestOperation(op, Rest))
    BY <1>1, <2>2, SwitchesAsk
  <2>3. CASE DeleteEntry(Rest)
    BY <1>1, <2>3, DeleteAsks
  <2>4. CASE ApplyStagedPlan(Rest)
    BY <1>1, <2>4, CommandsAsk
  <2> QED
    BY <1>3, <2>1, <2>2, <2>3, <2>4 DEF Mutation, Flag
<1> QED
  BY <1>2, <1>3 DEF PaletteExecute

LEMMA AddAsks ==
    ASSUME ScreenInv, AskInv, AddEntry \/ CloneEntry
    PROVE  Told
<1>1. Dialogs(overlays)
  BY DEF AskInv
<1>2. CASE \E dialog : dialog.kind # "Confirm" /\ Open(dialog, overlays)
  BY <1>1, <1>2, OpenedStep
<1>3. CASE ProposeFromLog
  <2>1. \E object, value :
           RequestOperation(Make("Edit", object, <<"rich_rule", value>>, TRUE, settings.target), overlays)
    BY <1>3, Zenon DEF ProposeFromLog
  <2> QED
    BY <1>1, <2>1, MadeAsks
<1>4. CASE CloneEntry
  <2>1. \E f : Open(Form(f), overlays)
    BY <1>4 DEF CloneEntry
  <2> QED
    BY <1>2, <2>1 DEF Form
<1>5. CASE AddEntry
  <2>1. /\ view \in {"Services", "Ports", "Forwarding", "RichRules", "Interfaces", "Sources", "Zones",
                     "IpSets", "Policies", "Direct", "Logs"}
        /\ DOMAIN EntryField = {"Services", "Ports", "Forwarding", "RichRules"}
        /\ DOMAIN BindingField = {"Interfaces", "Sources"}
    <3>1. view \in ViewId
      BY ScreenAssumption DEF ScreenInv
    <3> QED
      BY <3>1 DEF ViewId, EntryField, BindingField, NamedType
  <2>2. CASE view = "Logs"
    BY <1>3, <1>5, <2>1, <2>2, Zenon DEF AddEntry
  <2>3. CASE view # "Logs"
    <3>1. \E f : Open(Form(f), overlays)
      BY <1>5, <2>1, <2>3 DEF AddEntry
    <3> QED
      BY <1>2, <3>1 DEF Form
  <2> QED
    BY <2>2, <2>3
<1> QED
  BY <1>4, <1>5

LEMMA TableKeysAsk ==
    ASSUME ScreenInv, AskInv, TableKey
    PROVE  Told
<1>1. Dialogs(overlays)
  BY DEF AskInv
<1>2. CASE MoveSelection \/ ToggleMark \/ EnterFilterMode
  <2>1. Quiet(overlays)
    BY <1>2 DEF MoveSelection, ToggleMark, EnterFilterMode
  <2> QED
    BY <1>1, <2>1, QuietStep
<1>3. CASE ActivateRow
  <2> DEFINE details == [kind |-> "Details"]
  <2>1. /\ asked' = <<>> /\ UNCHANGED <<settings, staged>>
        /\ overlays' = overlays \/ overlays' = Append(overlays, details)
    BY <1>3 DEF ActivateRow, Person
  <2>2. details.kind # "Confirm"
    OBVIOUS
  <2> HIDE DEF details
  <2>3. IsList(Append(overlays, details)) /\ ToSet(Append(overlays, details)) = ToSet(overlays) \cup {details}
    BY <1>1, ListsExtended DEF Dialogs
  <2>4. Dialogs(overlays)'
    BY <1>1, <2>1, <2>2, <2>3 DEF Dialogs
  <2> QED
    BY <2>1, <2>4 DEF Told, AskInv
<1>4. CASE AddEntry \/ CloneEntry
  BY <1>4, AddAsks
<1>5. CASE SwitchView(overlays) \/ ToggleConfigView(overlays) \/ ClearFilter(overlays)
           \/ Inspect(overlays) \/ Open([kind |-> "Palette"], overlays)
  <2>1. \/ SwitchView(overlays) \/ ToggleConfigView(overlays) \/ ClearFilter(overlays)
        \/ (\E dialog : dialog.kind # "Confirm" /\ Open(dialog, overlays))
    BY <1>5 DEF Inspect
  <2> QED
    BY <1>1, <2>1, CommandsAsk
<1>6. CASE DeleteEntry(overlays)
  BY <1>1, <1>6, DeleteAsks
<1>7. CASE Toggle("masquerade", overlays)
  BY <1>1, <1>7, SwitchesAsk DEF Flag
<1> QED
  BY <1>2, <1>3, <1>4, <1>5, <1>6, <1>7 DEF TableKey

LEMMA SubmissionsRequest ==
    ASSUME NEW form, NEW rest, Submitted(form, rest)
    PROVE  \E kind, object, element, adding, target :
              /\ kind # "Edit" \/ adding \/ element[1] \notin Listable
              /\ RequestOperation(Make(kind, object, element, adding, target), rest)
<1> DEFINE entry(v) == <<"entry", v>>
<1>1. \A v : entry(v)[1] \notin Listable
  BY DEF Listable
<1>2. \/ \E z, v : RequestOperation(Make("Edit", z, <<form, v>>, TRUE, settings.target), rest)
      \/ \E o : RequestOperation(Make("Create", o, <<>>, TRUE, Permanent), rest)
      \/ \E o, v, adding : RequestOperation(Make("Edit", o, entry(v), adding, settings.target), rest)
      \/ \E o, v : RequestOperation(Make("Edit", o, <<"service", v>>, TRUE, settings.target), rest)
      \/ \E o, v : RequestOperation(Make("Migrate", o, <<"rich_rule", v>>, TRUE, Permanent), rest)
  BY Zenon DEF Submitted, entry
<1> HIDE DEF entry
<1>3. CASE \E z, v : RequestOperation(Make("Edit", z, <<form, v>>, TRUE, settings.target), rest)
  BY <1>3, Zenon
<1>4. CASE \E o : RequestOperation(Make("Create", o, <<>>, TRUE, Permanent), rest)
  <2>1. "Create" # "Edit"
    OBVIOUS
  <2> QED
    BY <1>4, <2>1, Zenon
<1>5. CASE \E o, v, adding : RequestOperation(Make("Edit", o, entry(v), adding, settings.target), rest)
  BY <1>1, <1>5, Zenon
<1>6. CASE \E o, v : RequestOperation(Make("Edit", o, <<"service", v>>, TRUE, settings.target), rest)
  BY <1>6, Zenon
<1>7. CASE \E o, v : RequestOperation(Make("Migrate", o, <<"rich_rule", v>>, TRUE, Permanent), rest)
  <2>1. "Migrate" # "Edit"
    OBVIOUS
  <2> QED
    BY <1>7, <2>1, Zenon
<1> QED
  BY <1>2, <1>3, <1>4, <1>5, <1>6, <1>7

LEMMA FormAsks ==
    ASSUME AskInv, FormSubmit
    PROVE  Told
<1>1. Dialogs(Rest)
  BY RestIsDialogs DEF FormSubmit, Top
<1>2. \E kind, object, element, adding, target :
         /\ kind # "Edit" \/ adding \/ element[1] \notin Listable
         /\ RequestOperation(Make(kind, object, element, adding, target), Rest)
  BY SubmissionsRequest DEF FormSubmit
<1>3. PICK kind, object, element, adding, target :
         /\ kind # "Edit" \/ adding \/ element[1] \notin Listable
         /\ RequestOperation(Make(kind, object, element, adding, target), Rest)
  BY <1>2
<1> QED
  BY <1>1, <1>3, MadeAsks

LEMMA OthersAsk ==
    ASSUME AskInv,
           FilterKey \/ ControlKey \/ CloseOverlay \/ SearchExecute \/ ConfirmAccept \/ ConfirmStage \/ ReportLoaded
    PROVE  Told
<1>1. Dialogs(overlays)
  BY DEF AskInv
<1>2. CASE FilterKey
  <2>1. Quiet(overlays)
    BY <1>2 DEF FilterKey
  <2> QED
    BY <1>1, <2>1, QuietStep
<1>3. CASE ControlKey
  <2>1. CASE ReloadRequested(overlays)
    BY <1>1, <2>1, SwitchesAsk
  <2>2. CASE Open([kind |-> "Search"], overlays)
    BY <1>1, <2>2, OpenedStep
  <2> QED
    BY <1>3, <2>1, <2>2 DEF ControlKey
<1>4. CASE CloseOverlay \/ SearchExecute
  <2>1. overlays # <<>> /\ Quiet(Rest)
    BY <1>4 DEF CloseOverlay, SearchExecute, Top
  <2> QED
    BY <2>1, RestIsDialogs, QuietStep
<1>5. CASE ConfirmAccept
  <2>1. /\ overlays # <<>> /\ Drop(Rest) /\ settings' = settings
        /\ staged' = <<>> \/ staged' = staged
    BY <1>5 DEF ConfirmAccept, Top, Person
  <2>2. OperationList(<<>>)
    BY DEF OperationList, IsList, ToSet
  <2>3. Dialogs(Rest)
    BY <2>1, RestIsDialogs
  <2> QED
    BY <2>1, <2>2, <2>3, DroppedStep DEF AskInv
<1>6. CASE ConfirmStage
  <2>1. /\ overlays # <<>> /\ Last(overlays).kind = "Confirm" /\ Drop(Rest) /\ settings' = settings
        /\ staged' = staged \/ staged' = staged \o Last(overlays).ops
    BY <1>6 DEF ConfirmStage, Top, Person
  <2> DEFINE more == Last(overlays).ops
  <2>2. ~settings.readOnly /\ OperationList(more) /\ Dialogs(Rest)
    BY <2>1, RestIsDialogs
  <2>3. staged' = staged \/ staged' = staged \o more
    BY <2>1
  <2> HIDE DEF more
  <2>4. IsList(staged \o more) /\ ToSet(staged \o more) = ToSet(staged) \cup ToSet(more)
    BY <2>2, ListsJoined DEF AskInv, OperationList
  <2>5. OperationList(staged')
    BY <2>2, <2>3, <2>4 DEF AskInv, OperationList
  <2> QED
    BY <2>1, <2>2, <2>5, DroppedStep
<1>7. CASE ReportLoaded
  <2> DEFINE details == [kind |-> "Details"]
  <2>1. asked' = <<>> /\ UNCHANGED <<settings, staged>> /\ overlays' = Append(overlays, details)
    BY <1>7 DEF ReportLoaded
  <2>2. details.kind # "Confirm"
    OBVIOUS
  <2> HIDE DEF details
  <2>3. IsList(Append(overlays, details)) /\ ToSet(Append(overlays, details)) = ToSet(overlays) \cup {details}
    BY <1>1, ListsExtended DEF Dialogs
  <2>4. Dialogs(overlays)'
    BY <1>1, <2>1, <2>2, <2>3 DEF Dialogs
  <2> QED
    BY <2>1, <2>4 DEF Told, AskInv
<1> QED
  BY <1>2, <1>3, <1>4, <1>5, <1>6, <1>7

LEMMA NewsAsk ==
    ASSUME AskInv,
           \/ RefreshStarted \/ OverviewReady \/ RefreshCompleted \/ RefreshCancelled
           \/ LogsReceived \/ EngineStopped
    PROVE  Told
<1>1. asked' = <<>> /\ UNCHANGED <<settings, overlays, staged>>
  <2>1. News
    BY DEF RefreshStarted, OverviewReady, RefreshCompleted, RefreshCancelled, LogsReceived, EngineStopped
  <2> QED
    BY <2>1 DEF News
<1>2. Dialogs(overlays)'
  BY <1>1 DEF AskInv, Dialogs
<1> QED
  BY <1>1, <1>2 DEF Told, AskInv

LEMMA StepsAsk ==
    ASSUME ScreenInv, AskInv, [Next]_vars
    PROVE  AskInv' /\ [Told]_vars
<1>1. CASE UNCHANGED vars
  <2>1. Dialogs(overlays)'
    BY <1>1 DEF vars, AskInv, Dialogs
  <2> QED
    BY <1>1, <2>1 DEF vars, AskInv
<1>2. CASE Next
  <2>1. Told
    BY <1>2, NewsAsk, TableKeysAsk, PaletteAsks, FormAsks, OthersAsk DEF Next
  <2> QED
    BY <2>1 DEF Told
<1> QED
  BY <1>1, <1>2

LEMMA AskingStarts == Init => AskInv
<1>1. IsList(<<>>) /\ ToSet(<<>>) = {}
  BY DEF IsList, ToSet
<1> QED
  BY <1>1 DEF Init, AskInv, Dialogs, OperationList

LEMMA AlwaysTold == Spec => [][Told]_vars
<1>1. Init => ScreenInv /\ TableHeld /\ AskInv
  BY ScreenStarts, AskingStarts
<1>2. ScreenInv /\ TableHeld /\ AskInv /\ [Next]_vars
      => ScreenInv' /\ TableHeld' /\ AskInv' /\ [Told]_vars
  BY StepsKeepTable, StepsAsk
<1> QED
  BY <1>1, <1>2, PTL DEF Spec

(***************************************************************************)
(* `AsksWhatIsShown` for every session.  Each removal that is put forward  *)
(* is made of a row under the cursor or with a mark, which is visible, and *)
(* covers the scopes that the row shows at most (RemovalIsWarranted); being  *)
(* narrowed against the snapshot only takes scopes away from it            *)
(* (NarrowedIsNarrower); and what no row warrants adds something, or comes *)
(* out of the staging area.                                                *)
(***************************************************************************)
THEOREM RemovalsAreShown == Spec => AsksWhatIsShown
<1>1. [Told]_vars =>
        [\A i \in DOMAIN asked' :
            LET op == asked'[i]
            IN  /\ op.kind = "Edit" /\ ~op.adding /\ ~FromStaging(op)
                /\ op.element[1] \in {"service", "port", "forward_port", "rich_rule", "interface", "source"}
                => \E row \in ToSet(Visible) :
                      /\ row.id.object = op.object /\ row.id.value = op.element[2]
                      /\ op.target \subseteq row.scopes]_vars
  BY Zenon DEF Told, Rightful
<1> QED
  BY <1>1, AlwaysTold, PTL DEF AsksWhatIsShown

(***************************************************************************)
(* `GatesHold` for every session: by the invariant that a reader has       *)
(* nothing staged and no question open, so that neither the plan nor a     *)
(* confirmation is a way around the gate.                                  *)
(***************************************************************************)
THEOREM ReadersAreNeverAsked == Spec => GatesHold
<1>1. [Told]_vars =>
        [/\ settings.readOnly \/ failed => asked' = <<>>
         /\ settings.readOnly => staged' = <<>>]_vars
  BY DEF Told
<1> QED
  BY <1>1, AlwaysTold, PTL DEF GatesHold

=============================================================================
