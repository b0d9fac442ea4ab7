----------------------------- MODULE SchemaPlan -----------------------------
(***************************************************************************)
(* A schema change (src/database_schema.rs): the list of changes becomes a *)
(* plan, the plan converts every row into a shadow table. A definition is  *)
(* a function from column names, other than the primary key's, to columns. *)
(***************************************************************************)
EXTENDS Values, Sequences

CONSTANTS Names,   \* spellings of column names, in byte order
          Lower    \* the lower-case spelling of each

Spellings == {Names[i] : i \in DOMAIN Names}

ASSUME NamesAssumption == Names \in Seq(Spellings)

IsColumn(col) == col.type \in ColumnType /\ col.nullable \in BOOLEAN

\* A change as a request can hold it.
IsChange(ch) ==
  /\ ch.kind \in {"add", "drop", "rename", "alter", "store"}
  /\ {ch.name, ch.to} \subseteq Spellings /\ IsColumn(ch.col) /\ IsJson(ch.default)

\* The map f over the map g, and the map with one key.
Over(f, g) == [x \in DOMAIN f \cup DOMAIN g |-> IF x \in DOMAIN f THEN f[x] ELSE g[x]]
Single(x, v) == [y \in {x} |-> v]

SameName(a, b) == Lower[a] = Lower[b]

Position(name) == CHOOSE i \in DOMAIN Names : Names[i] = name

Without(f, x) == [y \in DOMAIN f \ {x} |-> f[y]]

NoPlan == [target |-> <<>>, sources |-> <<>>, defaults |-> <<>>, ok |-> FALSE]

\* The index of a column by any spelling: the stored spelling of it.
Stored(target, name) == CHOOSE c \in DOMAIN target : SameName(c, name)
Known(target, name)  == \E c \in DOMAIN target : SameName(c, name)

AddColumn(plan, ch) ==
  IF Known(plan.target, ch.name) \/ (~ch.col.nullable /\ ch.default = Null) THEN NoPlan
  ELSE [plan EXCEPT !.target = Over(@, Single(ch.name, ch.col)),
                    !.defaults = Over(Single(ch.name, ch.default), @)]

\* Mutant: the source of a dropped column is kept.
DropColumnSourceKept(plan, ch) ==
  LET c == Stored(plan.target, ch.name)
  IN  IF ~Known(plan.target, ch.name) THEN NoPlan
      ELSE [plan EXCEPT !.target = Without(@, c), !.defaults = Without(@, c)]

DropColumn(plan, ch) ==
  LET c == Stored(plan.target, ch.name)
  IN  IF ~Known(plan.target, ch.name) THEN NoPlan
      ELSE [plan EXCEPT !.target = Without(@, c), !.sources = Without(@, c),
                        !.defaults = Without(@, c)]

Moved(f, from, to) == IF from \in DOMAIN f THEN Over(Single(to, f[from]), Without(f, from)) ELSE f

\* The column is found in any spelling; its source and default are moved only
\* when the request spells it as it is stored.
RenameColumn(plan, ch) ==
  LET c == Stored(plan.target, ch.name)
  IN  IF ~Known(plan.target, ch.name) \/ Known(plan.target, ch.to) THEN NoPlan
      ELSE [plan EXCEPT !.target = Moved(@, c, ch.to),
                        !.sources = Moved(@, ch.name, ch.to),
                        !.defaults = Moved(@, ch.name, ch.to)]

\* The new definition replaces the old one, with its own spelling of the name.
AlterColumn(plan, ch) ==
  LET c == Stored(plan.target, ch.name)
  IN  IF ~Known(plan.target, ch.name) \/ ~SameName(ch.to, ch.name) THEN NoPlan
      ELSE [plan EXCEPT !.target = Over(Single(ch.to, ch.col), Without(@, c))]

\* One change. Primary-key changes are refused; alter_document_store changes no
\* column.
PlanChange(plan, ch) ==
  IF ~plan.ok THEN plan
  ELSE CASE ch.kind = "add"    -> AddColumn(plan, ch)
         [] ch.kind = "drop"   -> DropColumn(plan, ch)
         [] ch.kind = "rename" -> RenameColumn(plan, ch)
         [] ch.kind = "alter"  -> AlterColumn(plan, ch)
         [] ch.kind = "store"  -> plan

Unchanged(def) ==
  [target |-> def, sources |-> [c \in DOMAIN def |-> c], defaults |-> <<>>, ok |-> TRUE]

\* SchemaPlan::build: the changes in their order.
Build(def, changes) ==
  LET plans[n \in 0..Len(changes)] ==
        IF n = 0 THEN Unchanged(def) ELSE PlanChange(plans[n - 1], changes[n])
  IN  plans[Len(changes)]

\* One cell of the shadow table. The look-up of a default that is not there
\* panics.
Panic == Val("panic", "none", 0, TRUE)

ConvertCell(def, plan, row, c) ==
  LET col == plan.target[c]
      value == IF c \in DOMAIN plan.sources
               THEN LET s == plan.sources[c]
                        v == RowValueFromRef(def[s], row[s])
                    IN  IF v = Err THEN Err ELSE ConvertValue(col, v)
               ELSE IF c \in DOMAIN plan.defaults THEN JsonToRow(col, plan.defaults[c])
               ELSE Panic
  IN  IF value \in {Err, Panic} THEN value ELSE SqliteValue(col, value)

\* copy_converted_rows: one row; the whole transaction fails with a cell.
ConvertRow(def, plan, row) == [c \in DOMAIN plan.target |-> ConvertCell(def, plan, row, c)]

=============================================================================
