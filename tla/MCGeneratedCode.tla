-------------------------- MODULE MCGeneratedCode --------------------------
(***************************************************************************)
(* Programs for GeneratedCode: a migrate expression over two tables, Row   *)
(* and Item, an insert into Row, and one more expression, in each order.   *)
(***************************************************************************)
EXTENDS GeneratedCode

Row == <<"row">>
Item == <<"item">>
id == <<"id">>
a == <<"a">>
b == <<"b">>

Col(name, type, not_null, pk) ==
  [name |-> name, type |-> type, not_null |-> not_null, pk |-> pk, refs |-> {}, fks |-> {}]
(* A statement without a semicolon in it is one piece.                     *)
Whole(stmt) == stmt @@ [pieces |-> <<[text |-> stmt, whole |-> TRUE]>>]
Create(table, columns) == Whole([op |-> "create", table |-> table, columns |-> columns])
Drop(table) == Whole([op |-> "drop", table |-> table])
Index == Whole([op |-> "index"])

(* Row has a key, of each kind, and a typed column; Item may reference it  *)
(* or a table that is not there, and has a column of the same name.        *)
Keys == {Col(id, "INTEGER", 0, 1), Col(id, "TEXT", 0, 1), Col(id, "TEXT", 1, 1), Col(id, "REAL", 0, 1)}
As == {Col(a, "TEXT", 0, 0), Col(a, "REAL", 0, 0), Col(a, "INTEGER", 1, 0), Col(a, "BLOB", 1, 0)}
RowTables == {Create(Row, <<key, c>>) : key \in Keys, c \in As}
Refs(table, column) == {[table |-> table, columns |-> <<column>>]}
ItemTable(refs) == Create(Item, <<[Col(b, "INTEGER", 1, 0) EXCEPT !.refs = refs], Col(a, "TEXT", 0, 0)>>)

(* References the macro does not look up, to a table that is not there: of *)
(* an added column, and of a constraint of the table.                      *)
AddedRef(refs) ==
  Whole([op |-> "alter", table |-> Item, columns |-> <<[Col(<<"d">>, "INTEGER", 0, 0) EXCEPT !.refs = refs]>>])
Constrained(fks) ==
  Create(Item, <<[Col(b, "INTEGER", 1, 0) EXCEPT !.fks = fks], Col(a, "TEXT", 0, 0)>>)
Added == Whole([op |-> "alter", table |-> Item, columns |-> <<Col(<<"c">>, "DOUBLE", 0, 0)>>])

(* A statement with a semicolon in a literal, and one with a comment after *)
(* it.                                                                     *)
Broken(stmt) ==
  [stmt EXCEPT !.pieces = <<[text |-> [op |-> "head"], whole |-> FALSE], [text |-> [op |-> "tail"], whole |-> FALSE]>>]
Remarked(stmt) ==
  [stmt EXCEPT !.pieces = Append(@, [text |-> [op |-> "remark"], whole |-> FALSE])]
Migrations ==
  {<<t, ItemTable(Refs(Row, id)), Added>> : t \in RowTables}
  \cup LET t == Create(Row, <<Col(id, "INTEGER", 0, 1), Col(a, "TEXT", 1, 0)>>) IN
    {<<t>>, <<t, Index>>, <<t, t>>, <<t, Added>>,
     <<t, Drop(Row), t>>, <<ItemTable({}), Drop(Item), t, Broken(ItemTable({}))>>,
     <<Remarked(t)>>, <<t, Remarked(Index), ItemTable({}), Remarked(Added)>>,
     <<t, Create(MigrationsTable, <<Col(<<"sql">>, "TEXT", 1, 1)>>)>>,
     <<t, ItemTable(Refs(<<"rows">>, id))>>, <<t, ItemTable(Refs(Row, <<"key">>))>>,
     <<t, ItemTable(Refs(Row, b))>>,
     <<t, ItemTable(Refs(Row, id)), Drop(Row)>>,
     <<t, ItemTable({}), AddedRef(Refs(<<"rows">>, id))>>, <<t, Constrained(Refs(<<"rows">>, id))>>,
     <<Create(Row, <<Col(id, "INTEGER", 0, 1), Col(a, "INTEGER", 0, 2)>>)>>,
     <<Create(Row, <<Col(id, "INTEGER", 0, 1), Col(a, "VARCHAR", 0, 0)>>)>>}

One(table) == <<[table |-> table, aliased |-> FALSE, join |-> "first"]>>
Joined(how, aliased) == One(Row) \o <<[table |-> Item, aliased |-> aliased, join |-> how]>>
It(form, relation, column, alias) ==
  [form |-> form, relation |-> relation, column |-> column, alias |-> alias]
Star1 == <<It("star", 0, <<>>, <<>>)>>
Dml(op, relations, items, params, sets) ==
  [op |-> op, relations |-> relations, items |-> items, params |-> params, sets |-> sets]
Let(ident, statements) == [ident |-> ident, statements |-> statements]

None0 == [c \in {} |-> 0]
InsertRow == Dml("insert", One(Row), Star1, <<a>>, (a :> 1))
SelectRows == Dml("select", One(Row), Star1, <<>>, None0)
Inserts ==
  {Dml("insert", One(Row), Star1, <<a, id>>, (a :> 1) @@ (id :> 2)),
   Dml("insert", One(Row), <<It("ident", 1, a, <<>>)>>, <<a>>, (a :> 1)),
   Dml("insert", One(Row), <<>>, <<<<"x", "TEXT">>>>, (a :> 1)),
   Dml("insert", One(Row), Star1, <<<<"x", "INTEGER", "nullable">>, a>>, (id :> 1) @@ (a :> 2)),
   Dml("insert", One(Row), Star1, <<<<>>, a>>, (id :> 1) @@ (a :> 2))}
Selects ==
  {Dml("select", One(Row), items, <<>>, None0) : items \in
     {Star1, <<It("tablestar", 1, <<>>, <<>>)>>, <<It("path", 1, a, <<>>)>>,
      <<It("ident", 1, a, <<>>)>>, <<It("ident", 1, a, <<"x">>)>>,
      <<It("ident", 1, a, <<"a", "TEXT", "NULLABLE">>)>>, <<It("ident", 1, a, <<"a", "TEXT", "NOT_NULL">>)>>, <<It("ident", 1, a, <<"a", "TEXT">>)>>}}
  \cup {Dml("select", Joined(how, TRUE), items, params, None0) :
     how \in {"comma", "inner"},
     params \in {<<>>, <<<<"x", "INTEGER">>>>, <<<<"a", "b", "c">>>>, <<<<"a", "b", "c", "d">>>>},
     items \in {Star1, <<It("path", 2, a, <<>>), It("ident", 2, b, <<>>)>>,
                <<It("other", 0, <<>>, <<"n", "INTEGER">>), It("path", 1, id, <<"m", "TEXT", "nullable">>)>>,
                <<It("ident", 2, b, <<>>), It("path", 1, a, <<>>)>>,
                <<It("tablestar", 2, <<>>, <<>>)>>, <<It("other", 0, <<>>, a)>>}}
Others ==
  {Dml("update", One(Row), Star1, <<a, id>>, (a :> 1)),
   Dml("update", One(Row), <<>>, <<a, <<>>>>, (a :> 1)),
   Dml("delete", One(Row), Star1, <<id>>, None0),
   Dml("delete", One(Row), <<>>, <<<<"x", "REAL", "nullable">>>>, None0),
   Dml("insert", One(Item), Star1, <<b>>, (a :> 1) @@ (b :> 1))}

InsertItem == Dml("insert", One(Item), Star1, <<a, b>>, (a :> 1) @@ (b :> 2))
Mig(m) == Let(<<"migrate">>, m)
Q(stmt) == Let(<<"query", "row">>, <<stmt>>)
FromTwo == Dml("select", One(Row) \o <<[table |-> Row, aliased |-> TRUE, join |-> "comma"],
                                      [table |-> Item, aliased |-> TRUE, join |-> "outer"]>>,
               <<It("ident", 3, b, <<>>)>>, <<>>, None0)

(* One table of a key and one more column, an insert of that column, and a *)
(* query: names that Rust gives another meaning to.                        *)
Named(table, column, let) ==
  <<Mig(<<Create(table, <<Col(id, "INTEGER", 0, 1), Col(column, "TEXT", 1, 0)>>)>>),
    Let(<<"insert", "row">>, <<Dml("insert", One(table), <<>>, <<column>>, (column :> 1))>>),
    Let(let, <<Dml("select", One(table), Star1, <<>>, None0)>>)>>
OddNames ==
  {Named(Row, a, <<"migrate">>), Named(Row, a, <<"", "migrate">>), Named(Row, a, <<"vec">>),
   Named(Row, a, <<"db">>), Named(Row, <<"db">>, <<"all", "rows">>),
   Named(Row, <<"type">>, <<"all", "rows">>), Named(<<"string">>, a, <<"all", "rows">>)}
MCKeywords == {<<"type">>, <<"self">>, <<"fn">>}
MCPrelude == {<<"vec">>, <<"string">>, <<"option">>, <<"to", "string">>, <<"from">>, <<"default">>, <<"self">>}

(* The migrate expression first, last, in the middle and missing, a second *)
(* one, and lets of several statements or none.                            *)
Orders ==
  LET m == <<Create(Row, <<Col(id, "INTEGER", 0, 1), Col(a, "TEXT", 1, 0)>>)>>
      i == Let(<<"insert", "row">>, <<InsertRow>>)
      s == Let(<<"all", "rows">>, <<SelectRows>>)
  IN {<<i, Mig(m), s>>, <<i, s>>, <<s, i, Mig(m)>>, <<Mig(m), Let(<<"row">>, <<SelectRows>>)>>,
      <<Mig(m), i, Let(<<"insert", "", "row">>, <<SelectRows>>)>>,
      <<Mig(m), Let(<<"nothing">>, <<>>), i>>, <<Let(<<"nothing">>, <<>>), Mig(m), i>>,
      <<Mig(m), i, Mig(<<Drop(Row)>>), s>>,
      <<Mig(m), Let(<<"two">>, <<InsertRow, SelectRows>>), s>>,
      <<Mig(m), Let(<<"two">>, <<SelectRows, Index>>), s>>}

MCPrograms ==
  {<<Mig(m), Let(<<"insert", "row">>, <<i>>), Q(stmt)>> :
     m \in Migrations, i \in {InsertRow} \cup Inserts, stmt \in Inserts \cup Selects \cup Others}
  \cup
  {<<Mig(m), Let(<<"insert", "row">>, <<InsertRow>>), Let(<<"new", "item">>, <<InsertItem>>), Q(stmt)>> :
     m \in Migrations, stmt \in Selects \cup Others \cup {FromTwo}}
  \cup Orders \cup OddNames

MCSamples == [String |-> {"word", "whole", "nul"}, i64 |-> {"whole"}, f64 |-> {"fraction", "nan"}, bytes |-> {"word"}]
=============================================================================
