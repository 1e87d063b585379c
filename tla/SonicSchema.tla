---------------------------- MODULE SonicSchema ----------------------------
(***************************************************************************)
(* The part of a SONiC YANG schema that translib and cvl read: the tables, *)
(* their modules, leafrefs, defaults, mandatory fields and sizes; and the  *)
(* table orders that cvl derives from the leafrefs.                        *)
(*                                                                         *)
(* A row is a pair <<table, key>> where key is a sequence of key values.   *)
(* An entry maps the fields it has to sets of values: a leaf to a set of   *)
(* one, a leaf-list to any set, and the empty string to {}.  A row that    *)
(* does not exist has no field; NullField stands for the "NULL" field that *)
(* redis needs to keep a row without fields.                               *)
(***************************************************************************)
EXTENDS Naturals, Sequences, FiniteSets, SequencesExt

CONSTANTS
  Table,
  ModuleOf,   \* [Table -> YANG modules]
  Row,        \* the rows of all tables, those that may never exist included
  Field,
  LeafList,   \* SUBSET Field
  Atom,       \* field values
  NullField,
  DefaultsOf, \* [Table -> entries]: the leafs with a default statement
  Mandatory,  \* [Table -> SUBSET Field]: mandatory, or min-elements above 0
  MaxElements,\* [the tables with a limit -> Nat]
  LeafRef     \* leafrefs: see below

\* A leafref of table `from' to the (only) key of table `to': from the key
\* component number `key', or from field `field' when `key' is 0.
LeafRefs == [from: Table, key: Nat, field: Field \cup {NullField}, to: Table]

IsEntry(e) ==
  /\ DOMAIN e \subseteq Field \cup {NullField}
  /\ \A f \in DOMAIN e : e[f] \subseteq Atom
  /\ \A f \in DOMAIN e \ LeafList : Cardinality(e[f]) <= 1
Absent == [f \in {} |-> {}]
OnlyNull == [f \in {NullField} |-> {}]
IsPopulated(e) == e # Absent

ASSUME SchemaAssumption ==
  /\ IsFiniteSet(Table) /\ IsFiniteSet(Row)
  /\ DOMAIN ModuleOf = Table
  /\ \A r \in Row : r[1] \in Table /\ Len(r[2]) > 0
  /\ LeafList \subseteq Field
  /\ NullField \notin Field
  /\ DOMAIN DefaultsOf = Table
  /\ \A t \in Table : DOMAIN DefaultsOf[t] \subseteq Field \ LeafList
  /\ Mandatory \in [Table -> SUBSET Field]
  /\ DOMAIN MaxElements \subseteq Table
  /\ \A t \in DOMAIN MaxElements : MaxElements[t] \in Nat
  /\ LeafRef \subseteq LeafRefs
  /\ \A r \in LeafRef : r.key = 0 <=> r.field # NullField

\* Function f, mapping k to v.
With(f, k, v) == [x \in DOMAIN f \cup {k} |-> IF x = k THEN v ELSE f[x]]

\* Entry e with the fields of e2 set, with the fields of F removed.
Merged(e, e2) == e2 @@ e
Without(e, F) == RestrictDomain(e, LAMBDA f : f \notin F)

\* The real fields: two rows with the same ones hold the same configuration.
Config(e) == Without(e, {NullField})

RowsOf(t) == {r \in Row : r[1] = t}
Existing(view, t) == {r \in RowsOf(t) : IsPopulated(view[r])}

(***************************************************************************)
(* References.                                                             *)
(***************************************************************************)
\* The values that row r with entry e holds for leafref ref.
RefValues(ref, r, e) ==
  CASE r[1] # ref.from -> {}
    [] r[1] = ref.from /\ ref.key > 0 -> {r[2][ref.key]}
    [] r[1] = ref.from /\ ref.key = 0 /\ ref.field \in DOMAIN e -> e[ref.field]
    [] OTHER -> {}

RefTargets(ref, r, e) == {<<ref.to, <<x>>>> : x \in RefValues(ref, r, e)}

RefersTo(view, r, target) ==
  {ref \in LeafRef : target \in RefTargets(ref, r, view[r])}

\* refFromTables: the rows that exist and refer to target.
Referrers(view, target) ==
  {r \in Row : IsPopulated(view[r]) /\ RefersTo(view, r, target) # {}}

\* The rows that GetDepDataForDelete wants deleted with target: those that
\* refer to it by a key or by a mandatory field.
KeyReferrers(view, target) ==
  {r \in Referrers(view, target) :
     \E ref \in RefersTo(view, r, target) :
       ref.key > 0 \/ ref.field \in Mandatory[r[1]]}

(***************************************************************************)
(* Orders of tables (sortDepTables): the referring table first.            *)
(***************************************************************************)
RefersToTable(t, t2) == \E ref \in LeafRef : ref.from = t /\ ref.to = t2

SortDepTables(T) ==
  {s \in SetToSeqs(T) :
     \A i, j \in DOMAIN s : RefersToTable(s[i], s[j]) /\ i # j => i < j}

\* GetOrderedDepTables: the tables of the same module that refer to t.
ChildTables(t) ==
  {c \in Table \ {t} : ModuleOf[c] = ModuleOf[t] /\ RefersToTable(c, t)}

\* GetDepTables: t and, transitively, every table it refers to.
DepTables(t) ==
  LET reach[n \in 0..Cardinality(Table)] ==
        IF n = 0 THEN {t}
        ELSE reach[n - 1] \cup
             {u \in Table : \E c \in reach[n - 1] : RefersToTable(c, u)}
  IN reach[Cardinality(Table)]
=============================================================================
