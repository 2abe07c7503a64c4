--------------------------- MODULE GeneratedCode ---------------------------
(***************************************************************************)
(* What becomes of an expansion: the Rust compiler takes the generated     *)
(* code or rejects it, the generated migrate function makes the tables of  *)
(* a new file, and the functions are called.  A call binds its arguments,  *)
(* SQLite stores them or delivers a row, and from_row converts the row to  *)
(* the function's struct.                                                  *)
(*                                                                         *)
(* A stored cell keeps, next to its value, the argument that was bound for *)
(* it (arg), the argument of the placeholder's name (meant) and whether    *)
(* all placeholders of its statement had names (named).                    *)
(***************************************************************************)
EXTENDS SqlMacro, Values, FiniteSets

CONSTANTS
  Samples,  \* the contents of the arguments of calls, by Rust type
  MaxRows,  \* bound on the rows of a table
  Keywords, \* the names that Rust takes for no field and no argument
  Prelude   \* the names of structs that hide one which generated code uses, as Vec and Option

ASSUME SamplesAssumption ==
  Samples \in [Bases -> SUBSET Data] /\ \A b \in Bases : Samples[b] \subseteq Contents[b]
ASSUME MaxRowsAssumption == MaxRows \in Nat \ {0}

VARIABLES
  tables,   \* the tables of the file, as schema
  recorded, \* the rows of its table __migrations__
  refused,  \* the texts a call of migrate failed with
  db,       \* the rows of the other tables
  last      \* the answer of the last call
fileVars == <<tables, recorded, refused>>
vars == <<macroVars, fileVars, db, last>>

Nothing == [of |-> "nothing"] \* no argument
NoAnswer == [outcome |-> "none"]
-----------------------------------------------------------------------------
(* The Rust compiler on the generated code.  Structs share one name space, *)
(* and so do functions, migrate among them; the first argument of each     *)
(* function is db; a match on a value that is no Option does not compile; a*)
(* From impl must take its struct apart completely and find every field,   *)
(* with its type, in the struct of the table.  Whether a struct that hides *)
(* a name of the prelude does harm depends on which code uses that name;   *)
(* the model allows both.                                                  *)
NameOf(fn) == snake_to_pascal_case(fn.ident)
Names(fields) == [k \in DOMAIN fields |-> fields[k].name]
Database == <<"db">>
ImplCompiles(impl) ==
  \E i \in DOMAIN fns :
    /\ fns[i].ident = impl.of
    /\ IsInjective(impl.fields)
    /\ Range(impl.fields) = Range(Names(fns[i].fields))
    /\ impl.table \in DOMAIN structs
    /\ \A field \in Range(fns[i].fields) :
         \E own \in Range(structs[impl.table]) : own.name = field.name /\ own.type = field.type
Compiles ==
  /\ \A i, j \in DOMAIN fns : NameOf(fns[i]) = NameOf(fns[j]) => i = j
  /\ \A fn \in Range(fns) :
       /\ NameOf(fn) \notin DOMAIN structs /\ fn.ident # migrate.ident
       /\ IsInjective(Names(fn.fields))
       /\ \A arg \in Range(fn.args) : arg.name # Database /\ (arg.matched => arg.type.optional)
       /\ \A x \in Range(fn.fields) \cup Range(fn.args) : x.name \notin Keywords
  /\ \A t \in DOMAIN structs : \A field \in Range(structs[t]) : field.name \notin Keywords
  /\ \A i, j \in DOMAIN impls :
       impls[i].of = impls[j].of /\ impls[i].table = impls[j].table => i = j
  /\ \A impl \in Range(impls) : ImplCompiles(impl)

Hides == \E name \in DOMAIN structs \cup {NameOf(fn) : fn \in Range(fns)} : name \in Prelude

Build ==
  /\ phase = "expanded" /\ Compiles
  /\ phase' = "built"
  /\ UNCHANGED <<program, migrate, rest, at, schema, structs, fns, impls, fileVars, db, last>>

Reject ==
  /\ phase = "expanded" /\ (~Compiles \/ Hides)
  /\ Stop("rejected") /\ UNCHANGED <<fileVars, db, last>>
-----------------------------------------------------------------------------
(* The generated migrate function, called once at a time: the script is    *)
(* split at each semicolon, and a piece whose text is new is recorded and  *)
(* executed.  What happens between these two is in module Migration; here a*)
(* call may end between two pieces, as one of an earlier release with      *)
(* fewer statements does, and is repeated until one returns Ok.            *)
MigrationsTable == <<"", "", "migrations", "", "">>
MigrationsColumns ==
  <<[table_name |-> MigrationsTable, column_name |-> <<"sql">>, column_type |-> "TEXT",
     not_null |-> 1, pk |-> 1, refs |-> {}]>>

PiecesOf(stmt) ==
  [k \in DOMAIN stmt.pieces |->
     [text |-> stmt.pieces[k].text, whole |-> stmt.pieces[k].whole, stmt |-> stmt]]
Pieces_Terminated == \* a mutant: loses what follows the last semicolon
  FlattenSeq([i \in 1..(Len(migrate.statements) - 1) |-> PiecesOf(migrate.statements[i])])
Pieces == FlattenSeq([i \in DOMAIN migrate.statements |-> PiecesOf(migrate.statements[i])])

StartMigrate ==
  /\ phase = "built"
  /\ phase' = "migrating" /\ at' = 1
  /\ tables' = IF MigrationsTable \in DOMAIN tables THEN tables
               ELSE [t \in DOMAIN tables \cup {MigrationsTable} |->
                       IF t = MigrationsTable THEN MigrationsColumns ELSE tables[t]]
  /\ UNCHANGED <<program, migrate, rest, schema, structs, fns, impls, recorded, refused, db, last>>

MigratePiece ==
  /\ phase = "migrating" /\ at \in DOMAIN Pieces
  /\ LET piece == Pieces[at]
         works == piece.whole /\ Accepts(piece.stmt, tables)
     IN /\ recorded' = recorded \cup {piece.text}
        /\ \/ /\ piece.text \in recorded
              /\ at' = at + 1 /\ UNCHANGED <<phase, tables, refused>>
           \/ /\ piece.text \notin recorded /\ works
              /\ tables' = After(piece.stmt, tables)
              /\ at' = at + 1 /\ UNCHANGED <<phase, refused>>
           \/ /\ piece.text \notin recorded /\ ~works
              /\ phase' = "built" /\ refused' = refused \cup {piece.text}
              /\ UNCHANGED <<at, tables>>
  /\ UNCHANGED <<program, migrate, rest, schema, structs, fns, impls, db, last>>

MigrateStops ==
  phase = "migrating" /\ Stop("built") /\ UNCHANGED <<fileVars, db, last>>

MigrateReturns ==
  /\ phase = "migrating" /\ at > Len(Pieces)
  /\ phase' = "running"
  /\ db' = [t \in DOMAIN schema |-> {}]
  /\ UNCHANGED <<program, migrate, rest, at, schema, structs, fns, impls, fileVars, last>>

(* The file has the tables the functions were generated from.              *)
IsSchema ==
  tables = [t \in DOMAIN schema \cup {MigrationsTable} |->
              IF t = MigrationsTable THEN MigrationsColumns ELSE schema[t]]
-----------------------------------------------------------------------------
(* The arguments a caller can pass, one for each name, and what is bound:  *)
(* the i-th argument to the i-th placeholder, NULL to those left over.     *)
Accepted(type) ==
  {[of |-> type.of, data |-> d] : d \in Samples[type.of]} \cup (IF type.optional THEN {None} ELSE {})
Calls(fn) ==
  {args \in [DOMAIN fn.args -> UNION {Accepted(arg.type) : arg \in Range(fn.args)}] :
     \A i \in DOMAIN fn.args : args[i] \in Accepted(fn.args[i].type)}
Bound_Shifted(args, j) == IF j + 1 \in DOMAIN args THEN args[j + 1] ELSE None \* counts from 0
Bound(args, j) == IF j \in DOMAIN args THEN args[j] ELSE None
MeantFor(fn, args, j) ==
  IF fn.statement.params[j] = <<>> THEN Nothing
  ELSE args[SelectInSeq(fn.args, LAMBDA arg : arg.name = fn.statement.params[j])]

ColumnRow(table, c) == schema[table][SelectInSeq(schema[table], LAMBDA row : row.column_name = c)]
ColumnsOf(table) == {row.column_name : row \in Range(schema[table])}
RowId(row) == row.column_type = "INTEGER" /\ row.pk = 1

(* SQLite: a row as a statement writes it.  An INTEGER PRIMARY KEY is the  *)
(* rowid, which SQLite supplies to a new row, and which can be no other    *)
(* NULL.                                                                   *)
Cell(fn, args, row, j) ==
  LET v == Store(Bind(From(Bound(args, j))), row.column_type)
      supplied == fn.statement.op = "insert" /\ RowId(row) /\ v = Null
  IN [value |-> IF supplied THEN [class |-> "Integer", data |-> "whole"] ELSE v,
      arg |-> Bound(args, j), meant |-> MeantFor(fn, args, j),
      named |-> \A k \in DOMAIN fn.statement.params : fn.statement.params[k] # <<>>]
Empty(value) == [value |-> value, arg |-> Nothing, meant |-> Nothing, named |-> TRUE]
Blank(table) ==
  [c \in ColumnsOf(table) |->
     Empty(IF RowId(ColumnRow(table, c)) THEN [class |-> "Integer", data |-> "whole"] ELSE Null)]
Written(fn, args, old) ==
  LET table == fn.statement.relations[1].table
      sets == fn.statement.sets
  IN [c \in ColumnsOf(table) |->
        IF c \in DOMAIN sets THEN Cell(fn, args, ColumnRow(table, c), sets[c]) ELSE old[c]]
Allowed(table, new) ==
  \A c \in ColumnsOf(table) :
    /\ ColumnRow(table, c).not_null = 1 => new[c].value # Null
    /\ RowId(ColumnRow(table, c)) => new[c].value.class = "Integer"

(* from_row on the delivered row: each column goes through the first arm   *)
(* of its name, and the first that does not convert fails the row.         *)
Answer(fn, picks, computed) ==
  LET outputs == Outputs(fn.statement)
      column(n) ==
        LET o == outputs[n]
            cell == IF o.relation = 0 THEN Empty(computed) ELSE picks[o.relation][o.column]
            field == fn.fields[SelectInSeq(fn.fields, LAMBDA x : x.label = o.label)]
        IN [field |-> field, cell |-> cell, value |-> get_column_value(cell.value)]
      columns == [n \in DOMAIN outputs |-> column(n)]
  IN IF outputs = <<>> THEN NoAnswer
     ELSE [outcome |-> IF \A n \in DOMAIN columns : Converts(columns[n].value, columns[n].field.type)
                       THEN "row" ELSE "mismatch",
           statement |-> fn.statement, columns |-> columns]

Computed == {Null, [class |-> "Integer", data |-> "whole"], [class |-> "Text", data |-> "word"]}

Insert(fn, args, computed) ==
  LET table == fn.statement.relations[1].table
      new == Written(fn, args, Blank(table))
  IN /\ fn.statement.op = "insert" /\ Cardinality(db[table]) < MaxRows
     /\ IF Allowed(table, new)
        THEN /\ db' = [db EXCEPT ![table] = @ \cup {new}]
             /\ last' = Answer(fn, <<new>>, computed)
        ELSE last' = [outcome |-> "refused"] /\ UNCHANGED db

Update(fn, args, computed) ==
  LET table == fn.statement.relations[1].table IN
  /\ fn.statement.op = "update"
  /\ \E old \in db[table] :
       LET new == Written(fn, args, old) IN
       IF Allowed(table, new)
       THEN /\ db' = [db EXCEPT ![table] = (@ \ {old}) \cup {new}]
            /\ last' = Answer(fn, <<new>>, computed)
       ELSE last' = [outcome |-> "refused"] /\ UNCHANGED db

Delete(fn, computed) ==
  LET table == fn.statement.relations[1].table IN
  /\ fn.statement.op = "delete"
  /\ \E old \in db[table] :
       /\ db' = [db EXCEPT ![table] = @ \ {old}]
       /\ last' = Answer(fn, <<old>>, computed)

(* A query delivers one row of each relation, or NULLs for a relation that *)
(* is joined by an outer join; which ones its WHERE clause decides.        *)
Delivered(relation) ==
  db[relation.table] \cup
    (IF relation.join = "outer" THEN {[c \in ColumnsOf(relation.table) |-> Empty(Null)]} ELSE {})
Select(fn, computed) ==
  LET relations == fn.statement.relations IN
  /\ fn.statement.op = "select"
  /\ \E picks \in [DOMAIN relations -> UNION {Delivered(r) : r \in Range(relations)}] :
       /\ \A i \in DOMAIN relations : picks[i] \in Delivered(relations[i])
       /\ last' = Answer(fn, picks, computed)
  /\ UNCHANGED db

(* Bound: functions are called on a file with the right tables.            *)
Call ==
  /\ phase = "running" /\ IsSchema
  /\ \E i \in DOMAIN fns, computed \in Computed :
       \/ \E args \in Calls(fns[i]) : Insert(fns[i], args, computed) \/ Update(fns[i], args, computed)
       \/ Delete(fns[i], computed)
       \/ Select(fns[i], computed)
  /\ UNCHANGED <<macroVars, fileVars>>
-----------------------------------------------------------------------------
GCInit ==
  Init /\ tables = <<>> /\ recorded = {} /\ refused = {} /\ db = <<>> /\ last = NoAnswer
Next ==
  \/ Expand /\ UNCHANGED <<fileVars, db, last>>
  \/ Build
  \/ Reject
  \/ StartMigrate
  \/ MigratePiece
  \/ MigrateStops
  \/ MigrateReturns
  \/ Call
Spec == GCInit /\ [][Next]_vars
-----------------------------------------------------------------------------
(* The column an output of a statement shows, and the type of its field in *)
(* the struct of its table.                                                *)
Shown(stmt, n) == ColumnRow(stmt.relations[Outputs(stmt)[n].relation].table, Outputs(stmt)[n].column)
TypeOf(row) == Field(FromSchemaRow(row)).type

(* The variables range over their types; in particular an expansion ends   *)
(* in code, an error or a panic, rows have exactly the columns of their    *)
(* tables, and a generated struct has Rust types only.                     *)
TypeOK ==
  /\ phase \in {"split", "migrate", "fns", "expanded", "built", "migrating", "running",
               "rejected"} \cup Ended
  /\ Len(fns) <= Len(rest) /\ Len(rest) < Len(program) + 1
  /\ \A fn \in Range(fns) : \A f \in Range(fn.fields) \cup Range(fn.args) : f.type \in RustType
  /\ \A t \in DOMAIN db : \A row \in db[t] :
       DOMAIN row = ColumnsOf(t) /\ \A c \in DOMAIN row : row[c].value \in Value

(* A call of a generated function fails with a column type mismatch only   *)
(* for a reason the program can be blamed for: a type hint overrides the   *)
(* schema, the column has the name of another one, of another type or of a *)
(* table mentioned earlier, which types it, or is computed, the row was    *)
(* made up by an outer join, a key that may be NULL is NULL, or the column *)
(* was written through an argument of another type.  The types of          *)
(* arguments, of bound values and of struct fields are derived apart       *)
(* (lib.rs, fn_args, params and struct_tokens).                            *)
Explained(stmt, n, c) ==
  LET row == Shown(stmt, n)
      relation == stmt.relations[Outputs(stmt)[n].relation]
  IN \/ Converts(c.value, c.field.type)
     \/ c.field.hinted
     \/ Outputs(stmt)[n].relation = 0
     \/ TypeOf(row) # c.field.type
     \/ c.cell.value = Null /\ relation.join = "outer"
     \/ c.cell.value = Null /\ row.pk = 1 /\ row.not_null = 0 /\ ~RowId(row)
     \/ c.cell.arg \notin {None, Nothing} /\ c.cell.arg.of # TypeOf(row).of
MismatchIsExplained ==
  last.outcome = "mismatch" =>
    \A n \in DOMAIN last.columns : Explained(last.statement, n, last.columns[n])

(* What a caller passed for a parameter is what a later call reads from    *)
(* the column it was written to, as a Rust value of the same type, through *)
(* any number of functions; except that a NaN comes back as None, text     *)
(* only up to a zero character, and None as the key SQLite supplied in its *)
(* place.  Statements with positional placeholders are left out: their     *)
(* arguments shift.                                                        *)
ReadBack(stmt, n, c) ==
  LET given == c.cell.meant
      read == TryFrom(c.value, c.field.type)
  IN ~c.field.hinted /\ c.cell.named /\ given # Nothing =>
       \/ read = given
       \/ given = None /\ RowId(Shown(stmt, n))
       \/ given = [of |-> "f64", data |-> "nan"] /\ read = None
       \/ given = [of |-> "String", data |-> "nul"] /\ read.data = "word"
       \/ given # None /\ given.of # TypeOf(Shown(stmt, n)).of
ReadsWhatWasWritten ==
  last.outcome = "row" =>
    \A n \in DOMAIN last.columns : ReadBack(last.statement, n, last.columns[n])

(* Every table a column of the database references exists when functions   *)
(* are generated from it, unless a statement dropped it after it was       *)
(* created, or the column has the reference from where the macro does not  *)
(* look: an ALTER TABLE, or a FOREIGN KEY constraint of its table.  SQLite *)
(* itself accepts a reference to a table that does not exist.              *)
DroppedLater(t) ==
  \E i, j \in DOMAIN migrate.statements :
    /\ i < j /\ migrate.statements[i].op = "create" /\ migrate.statements[i].table = t
    /\ migrate.statements[j].op = "drop" /\ migrate.statements[j].table = t
Unchecked(t, row, ref) ==
  \E stmt \in Range(migrate.statements) :
    /\ stmt.op \in {"create", "alter"} /\ stmt.table = t
    /\ \E col \in Range(stmt.columns) :
         /\ col.name = row.column_name
         /\ ref \in IF stmt.op = "create" THEN col.fks ELSE col.refs \cup col.fks
NoDanglingReference ==
  phase \in {"fns", "expanded", "built", "migrating", "running"} =>
    \A t \in DOMAIN schema : \A row \in Range(schema[t]) : \A ref \in row.refs :
      ref.table \in DOMAIN schema \/ DroppedLater(ref.table) \/ Unchecked(t, row, ref)

(* Migrate makes the database the functions were generated from, however   *)
(* often it is stopped and repeated, and no statement of it fails, as none *)
(* failed in the database in memory: if no statement occurs twice, none has*)
(* a semicolon in it or a comment after it, and none makes a table that is *)
(* called like the table of migrations.  The macro executes what the parser*)
(* made of the script; migrate splits its text.                            *)
Regular ==
  /\ \A i, j \in DOMAIN Pieces : Pieces[i].text = Pieces[j].text => i = j
  /\ \A piece \in Range(Pieces) :
       piece.whole /\ (piece.stmt.op = "create" => piece.stmt.table # MigrationsTable)
MigrateMakesTheSchema ==
  Regular => refused = {} /\ (phase = "running" => IsSchema)

(* Generated code has a function for each let expression of the program    *)
(* that follows the migrate expression, the first of DDL only, and is not  *)
(* DDL itself, in the order of the program, under its name and for its     *)
(* first statement, and no other function.                                 *)
LetsAreAccountedFor ==
  phase = "expanded" =>
    \E m \in DOMAIN program, of \in [DOMAIN fns -> DOMAIN program] :
      /\ migrate = program[m] /\ FirstDdl(m)
      /\ Range(of) = {k \in DOMAIN program : k > m /\ ~is_ddl(program[k])}
      /\ \A i, j \in DOMAIN fns : i < j => of[i] < of[j]
      /\ \A i \in DOMAIN fns :
           /\ fns[i].ident = program[of[i]].ident
           /\ fns[i].statement = program[of[i]].statements[1]

(* "Each let ident becomes a function" (macros lib.rs:43): each let        *)
(* expression of the program is the one migrate is made of, or has a       *)
(* function.                                                               *)
EveryLetBecomesAFunction ==
  phase = "expanded" =>
    \A expr \in Range(program) : expr = migrate \/ \E fn \in Range(fns) : fn.ident = expr.ident

(* The part of SQL the macro supports without hints: every table has a     *)
(* supported type for each column and a key of one column that is not a    *)
(* nullable text, and every let expression with a function is one          *)
(* statement over one table, with parameters named after its columns, that *)
(* returns its columns or some of them under their names.  Such a program  *)
(* is expanded and compiles, if its names get along: structs and functions *)
(* of generated code, those of tables and migrate among them, have names   *)
(* of their own, no struct hides a name of the prelude, no column is called*)
(* by a keyword and no parameter db.                                       *)
Supported(row) ==
  /\ row.column_type \in DOMAIN RustBase /\ Len(row.column_name) = 1
  /\ \/ row.pk = 0
     \/ row.pk = 1 /\ (row.column_type = "TEXT" => row.not_null = 1)
Plain(expr) ==
  /\ Len(expr.statements) = 1
  /\ LET stmt == expr.statements[1]
     IN /\ stmt.op \notin Ddl /\ Prepares(stmt)
        /\ Len(stmt.relations) = 1
        /\ Range(Inputs(stmt)) \subseteq ColumnsOf(stmt.relations[1].table)
        /\ \A item \in Range(stmt.items) : item.form \in {"ident", "star"} /\ item.alias = <<>>
        /\ IsInjective(Labels(stmt))
NamesGetAlong ==
  /\ \A i, j \in DOMAIN rest :
       snake_to_pascal_case(rest[i].ident) = snake_to_pascal_case(rest[j].ident) => i = j
  /\ \A expr \in Range(rest) :
       /\ expr.ident # migrate.ident
       /\ snake_to_pascal_case(expr.ident) \notin DOMAIN schema \cup Prelude
       /\ Database \notin Range(Inputs(expr.statements[1]))
  /\ \A t \in DOMAIN schema : t \notin Prelude /\ ColumnsOf(t) \cap Keywords = {}
PlainProgramsCompile ==
  /\ phase \in {"panic", "rejected"}
  /\ \A t \in DOMAIN schema : \A row \in Range(schema[t]) : Supported(row)
  /\ \A expr \in Range(rest) : Plain(expr)
  => ~NamesGetAlong
=============================================================================
