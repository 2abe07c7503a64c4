------------------------------ MODULE SqlMacro ------------------------------
(***************************************************************************)
(* The expansion of one sql! invocation: the let expressions are split     *)
(* into the migrate expression and the others, the migrate statements run  *)
(* against a database in memory, and structs, functions and From impls are *)
(* generated from its schema.  An expansion ends in generated code, in a   *)
(* compile error or in a panic of the macro (a panic!, todo!, unreachable! *)
(* or unimplemented! of the source).                                       *)
(*                                                                         *)
(* A column, an alias or a parameter name is the sequence of its parts     *)
(* between double underscores; a let identifier is the sequence of its     *)
(* words between single ones.  A table is the words its Rust name is made  *)
(* of.  Parsing SQL is not modelled: a program is a sequence of parsed     *)
(* expressions [ident, statements], where a statement is                   *)
(*   [op : "create", table, columns], [op : "alter", table, columns],      *)
(*   [op : "drop", table], [op : "index"], each with its pieces, or        *)
(*   [op : insert, update, delete or select, relations, items, params,     *)
(*    sets]                                                                *)
(* with columns [name, type, not_null, pk, refs, fks], the references of   *)
(* whose REFERENCES clauses (refs) and of the FOREIGN KEY constraints of   *)
(* the table that name the column (fks) are [table, columns], with the     *)
(* columns spelled out; relations [table, aliased, join : first, comma,    *)
(* inner or outer]; items of the select or returning list, [form : ident,  *)
(* path, other, star, tablestar; relation, column, alias], where relation  *)
(* and column say what SQLite resolves the name to; params in SQLite's     *)
(* order, <<>> for a positional one; sets, a function from columns to      *)
(* placeholders; and pieces [text, whole], what lies between the semicolons*)
(* of a statement's text and of a comment after it: the text without       *)
(* whitespace, and whether the piece is the statement and not a part of it *)
(* or a comment.                                                           *)
(***************************************************************************)
EXTENDS Naturals, SequencesExt

Ddl == {"create", "alter", "drop", "index"}

CONSTANT Programs \* the programs that are expanded, a set of sequences of expressions

IsSeq(s) == s \in Seq(Range(s))
WellFormed(stmt) ==
  /\ stmt.op \in Ddl => IsSeq(stmt.pieces) /\ stmt.pieces # <<>>
  /\ stmt.op \in Ddl => \A i, j \in DOMAIN stmt.pieces :
       stmt.pieces[i].whole /\ stmt.pieces[j].whole => i = j
  /\ stmt.op \in {"create", "alter"} =>
       IsSeq(stmt.columns) /\ \A c \in Range(stmt.columns) : c.not_null \in {0, 1}
  /\ stmt.op \notin Ddl =>
       /\ IsSeq(stmt.relations) /\ IsSeq(stmt.items) /\ IsSeq(stmt.params)
       /\ stmt.op # "select" => Len(stmt.relations) = 1
       /\ \A item \in Range(stmt.items) :
            \/ item.form \in {"ident", "path", "tablestar"} /\ item.relation \in DOMAIN stmt.relations
            \/ item.form = "other" /\ item.relation = 0
            \/ item.form = "star"
       /\ \A i, j \in DOMAIN stmt.params :
            stmt.params[i] = stmt.params[j] /\ stmt.params[i] # <<>> => i = j
       /\ Range(stmt.sets) \subseteq DOMAIN stmt.params

ASSUME ProgramsAssumption ==
  \A p \in Programs : IsSeq(p) /\ \A expr \in Range(p) :
    IsSeq(expr.statements) /\ \A stmt \in Range(expr.statements) : WellFormed(stmt)

VARIABLES
  program, \* the expressions of the invocation
  phase,   \* where the expansion is, or how it ended
  migrate, \* the migrate expression
  rest,    \* the expressions that get functions
  at,      \* the next statement or expression of the phase
  schema,  \* the tables of the database in memory: sequences of SchemaRow, with the references of
           \* the column, which the macro does not read
  structs, \* the structs generated for tables: their fields
  fns,     \* the functions generated, with the struct of their rows
  impls    \* the From impls generated
macroVars == <<program, phase, migrate, rest, at, schema, structs, fns, impls>>

Ended == {"error", "panic"}

Init ==
  /\ program \in Programs
  /\ phase = "split"
  /\ migrate = [ident |-> <<>>, statements |-> <<>>]
  /\ rest = <<>> /\ at = 1
  /\ schema = <<>> /\ structs = <<>> /\ fns = <<>> /\ impls = <<>>

Stop(how) == phase' = how /\ UNCHANGED <<program, migrate, rest, at, schema, structs, fns, impls>>
-----------------------------------------------------------------------------
(* The migrate expression: the first whose statements are all DDL (which   *)
(* an expression without statements is).  The search consumes what comes   *)
(* before it.                                                              *)
is_ddl(expr) == \A stmt \in Range(expr.statements) : stmt.op \in Ddl
FirstDdl(i) == is_ddl(program[i]) /\ \A j \in 1..(i - 1) : ~is_ddl(program[j])
OthersFrom(i) ==
  FlattenSeq([k \in DOMAIN program |->
    IF k < i \/ is_ddl(program[k]) THEN <<>> ELSE <<program[k]>>])

Split_SkipsNext == \* a mutant: loses the expression after the migrate expression
  /\ phase = "split"
  /\ \E i \in DOMAIN program :
       FirstDdl(i) /\ migrate' = program[i] /\ rest' = OthersFrom(i + 2)
  /\ phase' = "migrate"
  /\ UNCHANGED <<program, at, schema, structs, fns, impls>>

Split ==
  /\ phase = "split"
  /\ \E i \in DOMAIN program :
       FirstDdl(i) /\ migrate' = program[i] /\ rest' = OthersFrom(i + 1)
  /\ phase' = "migrate"
  /\ UNCHANGED <<program, at, schema, structs, fns, impls>>

NoMigration ==
  phase = "split" /\ (\A expr \in Range(program) : ~is_ddl(expr)) /\ Stop("error")

(* What SQLite makes of a DDL statement in a database with these tables,   *)
(* read back by schema().                                                  *)
Accepts(stmt, tables) ==
  CASE stmt.op = "create" -> stmt.table \notin DOMAIN tables
    [] stmt.op = "index" -> TRUE
    [] stmt.op = "drop" -> stmt.table \in DOMAIN tables
    [] stmt.op = "alter" ->
         /\ stmt.table \in DOMAIN tables
         /\ \A c \in Range(stmt.columns), r \in Range(tables[stmt.table]) : c.name # r.column_name
SchemaRows(stmt) ==
  [i \in DOMAIN stmt.columns |->
     [table_name |-> stmt.table, column_name |-> stmt.columns[i].name,
      column_type |-> stmt.columns[i].type, not_null |-> stmt.columns[i].not_null,
      pk |-> stmt.columns[i].pk, refs |-> stmt.columns[i].refs \cup stmt.columns[i].fks]]
After(stmt, tables) ==
  CASE stmt.op = "create" ->
         [t \in DOMAIN tables \cup {stmt.table} |->
            IF t = stmt.table THEN SchemaRows(stmt) ELSE tables[t]]
    [] stmt.op = "alter" -> [tables EXCEPT ![stmt.table] = @ \o SchemaRows(stmt)]
    [] stmt.op = "drop" -> [t \in DOMAIN tables \ {stmt.table} |-> tables[t]]
    [] stmt.op = "index" -> tables

RunMigrate ==
  /\ phase = "migrate" /\ at <= Len(migrate.statements)
  /\ Accepts(migrate.statements[at], schema)
  /\ schema' = After(migrate.statements[at], schema)
  /\ at' = at + 1
  /\ UNCHANGED <<program, phase, migrate, rest, structs, fns, impls>>

MigrateFails ==
  /\ phase = "migrate" /\ at <= Len(migrate.statements)
  /\ ~Accepts(migrate.statements[at], schema)
  /\ Stop("error")

(* Foreign keys are looked up in what the CREATE TABLE statements of the   *)
(* migrate expression declare, columns whatever their table; only those of *)
(* a REFERENCES clause in a CREATE TABLE are.                              *)
Creates == {stmt \in Range(migrate.statements) : stmt.op = "create"}
Declared == UNION {Range(stmt.columns) : stmt \in Creates}
validate_migrate_expr_ColumnsOnly == \* does not look up the table of a reference
  \A ref \in UNION {col.refs : col \in Declared} :
    Range(ref.columns) \subseteq {col.name : col \in Declared}
validate_migrate_expr ==
  \A ref \in UNION {col.refs : col \in Declared} :
    /\ \E stmt \in Creates : stmt.table = ref.table
    /\ Range(ref.columns) \subseteq {col.name : col \in Declared}
Validated == phase = "migrate" /\ at > Len(migrate.statements)
MissingReference == Validated /\ ~validate_migrate_expr /\ Stop("error")
-----------------------------------------------------------------------------
(* Typed tokens: what a column, an alias or a parameter stands for.        *)
RustBase == [BLOB |-> "bytes", INTEGER |-> "i64", REAL |-> "f64", DOUBLE |-> "f64", TEXT |-> "String"]
Nullability == [nullable |-> 0, NULLABLE |-> 0, not_null |-> 1, NOT_NULL |-> 1] \* in any case

FromSchemaRow(row) ==
  [label |-> row.column_name, name |-> row.column_name, column_type |-> row.column_type,
   not_null |-> row.not_null, pk |-> row.pk, hinted |-> FALSE]
HasToken(label, rows) ==
  \/ Len(label) = 1 /\ \E row \in Range(rows) : row.column_name = label
  \/ Len(label) = 2
  \/ Len(label) = 3 /\ label[3] \in DOMAIN Nullability
parse_type_hinted_column_name(label, rows) ==
  IF Len(label) = 1
  THEN FromSchemaRow(rows[SelectInSeq(rows, LAMBDA row : row.column_name = label)])
  ELSE [label |-> label, name |-> <<label[1]>>, column_type |-> label[2],
        not_null |-> IF Len(label) = 2 THEN 1 ELSE Nullability[label[3]],
        pk |-> 0, hinted |-> TRUE]

(* A mutant: a nullable column makes no optional argument.                 *)
Argument_NeverOptional(token) ==
  [name |-> token.label, type |-> [of |-> RustBase[token.column_type], optional |-> FALSE],
   matched |-> token.column_type = "TEXT" /\ token.not_null = 0]

(* The type of an argument, and whether the expression that binds it is a  *)
(* match on an Option.                                                     *)
Argument(token) ==
  [name |-> token.label,
   type |-> [of |-> RustBase[token.column_type], optional |-> token.pk = 0 /\ token.not_null = 0],
   matched |-> token.column_type = "TEXT" /\ token.not_null = 0]

(* A field of a struct; a key of several columns has no arm for the pk of  *)
(* its second one.                                                         *)
HasField(token) == token.column_type \in DOMAIN RustBase /\ token.pk \in {0, 1}
Field(token) ==
  [name |-> token.name, label |-> token.label, hinted |-> token.hinted,
   type |-> [of |-> RustBase[token.column_type],
             optional |-> token.not_null = 0 /\ token.pk = 0]]
Fields(tokens) == [i \in DOMAIN tokens |-> Field(tokens[i])]
Tokens(rows) == [i \in DOMAIN rows |-> FromSchemaRow(rows[i])]

structs_tokens ==
  /\ Validated /\ validate_migrate_expr
  /\ \A t \in DOMAIN schema : \A token \in Range(Tokens(schema[t])) : HasField(token)
  /\ structs' = [t \in DOMAIN schema |-> Fields(Tokens(schema[t]))]
  /\ phase' = "fns" /\ at' = 1
  /\ UNCHANGED <<program, migrate, rest, schema, fns, impls>>

StructPanics ==
  /\ Validated /\ validate_migrate_expr
  /\ \E t \in DOMAIN schema : \E token \in Range(Tokens(schema[t])) : ~HasField(token)
  /\ Stop("panic")
-----------------------------------------------------------------------------
(* What SQLite says of a statement: whether it compiles, and the name and  *)
(* origin of every column of its rows (relation 0 for a computed one).     *)
(* Foreign keys are on: a statement that uses one, as the child that is    *)
(* written or the parent whose key goes away, must find the key it names.  *)
Columns(relation) == {row.column_name : row \in Range(schema[relation.table])}
UsedRefs(stmt) ==
  LET own == stmt.relations[1].table
      child(t, row) == t = own /\ (stmt.op = "update" => row.column_name \in DOMAIN stmt.sets)
      parent(ref) ==
        /\ ref.table = own /\ stmt.op # "insert"
        /\ stmt.op = "update" => Range(ref.columns) \cap DOMAIN stmt.sets # {}
  IN UNION {UNION {{ref \in row.refs : child(t, row) \/ parent(ref)} :
                     row \in Range(schema[t])} : t \in DOMAIN schema}
KeyExists(ref) ==
  /\ ref.table \in DOMAIN schema
  /\ Range(ref.columns) =
       {row.column_name : row \in {r \in Range(schema[ref.table]) : r.pk # 0}}
Prepares(stmt) ==
  /\ \A r \in Range(stmt.relations) : r.table \in DOMAIN schema
  /\ \A item \in Range(stmt.items) :
       /\ item.form \in {"ident", "path"} => item.column \in Columns(stmt.relations[item.relation])
       /\ item.form = "ident" =>
            \A i \in DOMAIN stmt.relations :
              item.column \in Columns(stmt.relations[i]) => i = item.relation
  /\ DOMAIN stmt.sets = {} \/ DOMAIN stmt.sets \subseteq Columns(stmt.relations[1])
  /\ stmt.op # "select" => \A ref \in UsedRefs(stmt) : KeyExists(ref)

Star(stmt, i) ==
  LET rows == schema[stmt.relations[i].table]
  IN [k \in DOMAIN rows |->
        [label |-> rows[k].column_name, relation |-> i, column |-> rows[k].column_name]]
Outputs(stmt) ==
  FlattenSeq([n \in DOMAIN stmt.items |->
    LET item == stmt.items[n] IN
    CASE item.form = "star" -> FlattenSeq([i \in DOMAIN stmt.relations |-> Star(stmt, i)])
      [] item.form = "tablestar" -> Star(stmt, item.relation)
      [] OTHER -> << [label |-> IF item.alias = <<>> THEN item.column ELSE item.alias,
                      relation |-> item.relation, column |-> item.column] >>])

(* The tables whose columns type an expression, the first match first: for *)
(* a query those its columns come from, then all that are mentioned.  Only *)
(* the first statement of an expression is ever prepared.                  *)
Origins(stmt) ==
  LET outputs == Outputs(stmt)
  IN FlattenSeq([n \in DOMAIN outputs |->
       IF outputs[n].relation = 0 THEN <<>> ELSE <<stmt.relations[outputs[n].relation].table>>])
Mentioned(stmt) == [i \in DOMAIN stmt.relations |-> stmt.relations[i].table]
table_names(expr) ==
  FlattenSeq([i \in DOMAIN expr.statements |->
    IF expr.statements[i].op = "select" THEN Origins(expr.statements[1])
    ELSE Mentioned(expr.statements[i])])
join_table_names(expr) ==
  FlattenSeq([i \in DOMAIN expr.statements |-> Mentioned(expr.statements[i])])
TypingRows(expr) ==
  LET names == table_names(expr) \o join_table_names(expr)
  IN FlattenSeq([i \in DOMAIN names |->
       IF names[i] \in DOMAIN schema THEN schema[names[i]] ELSE <<>>])

(* bind_param_names: positional parameters have no name and are skipped.   *)
Inputs(stmt) ==
  FlattenSeq([j \in DOMAIN stmt.params |->
    IF stmt.params[j] = <<>> THEN <<>> ELSE <<stmt.params[j]>>])
Labels(stmt) ==
  LET outputs == Outputs(stmt) IN [i \in DOMAIN outputs |-> outputs[i].label]
TokensOf(labels, rows) == [i \in DOMAIN labels |-> parse_type_hinted_column_name(labels[i], rows)]

(* Underscores vanish; the capitals they stand for separate the words.     *)
snake_to_pascal_case(ident) == SelectSeq(ident, LAMBDA word : word # "")

(* One function and the struct of its rows.  The three kinds of function   *)
(* (_first, _stream and the rest) type a row alike.                        *)
Generating == phase = "fns" /\ at <= Len(rest)
Refused(expr) == expr.statements = <<>> \/ ~Prepares(expr.statements[1])
Typed(label, rows) ==
  HasToken(label, rows) /\ HasField(parse_type_hinted_column_name(label, rows))
Panics(expr) ==
  \/ \E stmt \in Range(expr.statements) : stmt.op \in Ddl
  \/ /\ \A stmt \in Range(expr.statements) : stmt.op \notin Ddl
     /\ \E label \in Range(Inputs(expr.statements[1])) \cup Range(Labels(expr.statements[1])) :
          ~Typed(label, TypingRows(expr))

fn_tokens_Repeats == \* does not advance to the next expression
  /\ Generating /\ ~Refused(rest[at]) /\ ~Panics(rest[at])
  /\ fns' = Append(fns, [ident |-> rest[at].ident, statement |-> rest[at].statements[1],
                         args |-> <<>>, fields |-> <<>>])
  /\ UNCHANGED <<program, phase, migrate, rest, at, schema, structs, impls>>

fn_tokens ==
  /\ Generating /\ ~Refused(rest[at]) /\ ~Panics(rest[at])
  /\ LET expr == rest[at]
         first == expr.statements[1]
         rows == TypingRows(expr)
         inputs == TokensOf(Inputs(first), rows)
     IN fns' = Append(fns, [ident |-> expr.ident, statement |-> first,
                            args |-> [i \in DOMAIN inputs |-> Argument(inputs[i])],
                            fields |-> Fields(TokensOf(Labels(first), rows))])
  /\ at' = at + 1
  /\ UNCHANGED <<program, phase, migrate, rest, schema, structs, impls>>

FnRefused == Generating /\ Refused(rest[at]) /\ Stop("error")
FnPanics == Generating /\ ~Refused(rest[at]) /\ Panics(rest[at]) /\ Stop("panic")

(* From<row of a statement> for the struct of its table: the fields that   *)
(* its list names, those of * being the columns of the first table.        *)
HasImpl(stmt) ==
  stmt.items # <<>> /\ stmt.relations # <<>> /\ \A r \in Range(stmt.relations) : r.join # "comma"
Unlisted(stmt, item) ==
  \/ item.form \in {"path", "other"}
  \/ item.form = "star" /\ stmt.relations[1].table \notin DOMAIN schema
  \/ item.form = "tablestar" /\ stmt.relations[item.relation].aliased
Listed(stmt) ==
  LET of(t) == [k \in DOMAIN schema[t] |-> schema[t][k].column_name]
  IN FlattenSeq([n \in DOMAIN stmt.items |->
       LET item == stmt.items[n] IN
       CASE item.form = "ident" -> <<item.column>>
         [] item.form = "star" -> of(stmt.relations[1].table)
         [] item.form = "tablestar" -> of(stmt.relations[item.relation].table)])
Impls(expr) ==
  FlattenSeq([i \in DOMAIN expr.statements |->
    LET stmt == expr.statements[i] IN
    IF HasImpl(stmt)
    THEN <<[of |-> expr.ident, table |-> stmt.relations[1].table, fields |-> Listed(stmt)]>>
    ELSE <<>>])
ImplPanics(expr) ==
  \E stmt \in Range(expr.statements) :
    HasImpl(stmt) /\ \E item \in Range(stmt.items) : Unlisted(stmt, item)

trait_tokens ==
  /\ phase = "fns" /\ at > Len(rest)
  /\ \A expr \in Range(rest) : ~ImplPanics(expr)
  /\ impls' = FlattenSeq([i \in DOMAIN rest |-> Impls(rest[i])])
  /\ phase' = "expanded"
  /\ UNCHANGED <<program, migrate, rest, at, schema, structs, fns>>

TraitPanics ==
  /\ phase = "fns" /\ at > Len(rest)
  /\ \E expr \in Range(rest) : ImplPanics(expr)
  /\ Stop("panic")

Expand ==
  \/ Split \/ NoMigration
  \/ RunMigrate \/ MigrateFails \/ MissingReference
  \/ structs_tokens \/ StructPanics
  \/ fn_tokens \/ FnRefused \/ FnPanics
  \/ trait_tokens \/ TraitPanics
=============================================================================
