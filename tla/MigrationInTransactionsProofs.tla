-------------------- MODULE MigrationInTransactionsProofs --------------------
(***************************************************************************)
(* Safety of migrations on connections that other tasks open transactions  *)
(* on, for any number of calls, connections, statements and transactions.  *)
(* The argument: a request executed outside of a transaction finds the     *)
(* connection's view and the file equal, so what it wins, it wins for good:*)
(* no roll back reaches below the file.  What is executed inside of one is *)
(* in mixed, and the properties say what is left to it.                    *)
(***************************************************************************)
EXTENDS MigrationInTransactions, MigrationProofs

-----------------------------------------------------------------------------
(* The inductive invariant.                                                *)

Entries == [statement : Statements, by : Calls]
TextOf(e) == Script[e.statement]

FileTypes ==
    /\ file \in [table : BOOLEAN, recorded : SUBSET Texts, applied : Seq(Entries)]
    /\ owner \in Connections \cup {NoConnection}

\* Only a transaction holds the write lock, and without it there is nothing to
\* roll back; with it, the file is behind.
FileInv ==
    /\ owner # NoConnection => owner \in intx
    /\ owner = NoConnection => file = Committed
    /\ file.recorded \subseteq recorded

\* The call recorded the text outside of transactions, each time it did.
Clean(c, t) == ~Mixed(c, "record", t)

\* A text won outside of transactions is in the file, and nobody else wins it
\* there: not two entries, not two tickets, not a ticket beside an entry.
OnceIn(s) ==
    \A i \in 1..Len(s) : Clean(s[i].by, TextOf(s[i])) =>
        /\ TextOf(s[i]) \in file.recorded
        /\ \A j \in 1..Len(s) :
               TextOf(s[j]) = TextOf(s[i]) /\ Clean(s[j].by, TextOf(s[j])) => i = j
        /\ \A c \in Calls : Ticket(c) /\ Script[at[c]] = TextOf(s[i]) => ~Clean(c, Script[at[c]])
TicketsOnce ==
    \A c \in Calls : Ticket(c) /\ Clean(c, Script[at[c]]) =>
        /\ Script[at[c]] \in file.recorded
        /\ \A d \in Calls :
               Ticket(d) /\ Script[at[d]] = Script[at[c]] /\ Clean(d, Script[at[d]]) => d = c
OnceInv == OnceIn(applied) /\ OnceIn(file.applied) /\ TicketsOnce

\* Behind its current statement a call that recorded outside of transactions
\* leaves only statements that are recorded in the file.
CleanCall(c) == \A t \in Texts : Clean(c, t)
FileLoopInv ==
    \A c \in Calls : status[c] \in {"running", "ok"} /\ CleanCall(c) =>
        Behind(c, file.recorded)

\* Somebody answers for a text that is recorded and not executed, in the file
\* as in the view of a connection.
Covered(t) == \E c \in Calls : Accountable(c, t) \/ Mixed(c, "apply", t)
FileLossInv ==
    /\ \A t \in recorded \ Applied : Covered(t)
    /\ \A t \in file.recorded \ InFile : Covered(t)

Base == TypeInv /\ ChannelInv /\ FileTypes /\ FileInv
TInv == Base /\ OnceInv /\ FileLoopInv /\ FileLossInv

-----------------------------------------------------------------------------
(* What steps do to the file.                                              *)

\* A roll back takes the connection's view to what it is or to the file, and
\* leaves the file alone.
LEMMA UndoneEffect ==
    ASSUME FileTypes, FileInv, NEW n \in Connections, Undone(n)
    PROVE  /\ UNCHANGED <<file, mixed>>
           /\ \/ UNCHANGED <<table, recorded, applied>>
              \/ table' = file.table /\ recorded' = file.recorded /\ applied' = file.applied
           /\ FileTypes' /\ FileInv'
<1>1. /\ UNCHANGED <<file, mixed>> /\ intx' = intx \ {n}
      /\ owner' = IF owner = n THEN NoConnection ELSE owner
      /\ IF owner = n THEN Restored ELSE UNCHANGED database
  BY DEF Undone, Released
<1>2. FileTypes'
  BY <1>1 DEF FileTypes
<1>3. CASE owner = n
  <2>1. table' = file.table /\ recorded' = file.recorded /\ applied' = file.applied
    BY <1>1, <1>3 DEF Restored
  <2>2. file' = Committed'
    BY <1>1, <2>1 DEF FileTypes, Committed
  <2> QED
    BY <1>1, <1>2, <1>3, <2>1, <2>2 DEF FileInv
<1>4. CASE owner # n
  <2>1. UNCHANGED <<table, recorded, applied>>
    BY <1>1, <1>4 DEF database
  <2> QED
    BY <1>1, <1>2, <1>4, <2>1 DEF FileInv, Committed
<1> QED
  BY <1>3, <1>4

\* A connection that serves c outside of a transaction brings the file up to
\* date; inside of one it leaves the file alone and the request is in mixed.
Outside(n) == /\ n \notin intx /\ file = Committed /\ file' = Committed' /\ mixed' = mixed
Inside(n, c) == /\ n \in intx /\ file' = file
                /\ mixed' = IF request[c] = "create" THEN mixed
                            ELSE mixed \cup {<<c, request[c], at[c]>>}

LEMMA TExecuteEffect ==
    ASSUME Base, NEW n \in Connections, NEW c \in Calls, TExecute(n, c)
    PROVE  /\ Execute(n)
           /\ \/ HandsOut(n, c) \/ Performs(n, c)
              \/ \E a \in {"err", "done", "unchanged"} : Declines(n, c, a)
           /\ Outside(n) \/ Inside(n, c)
           /\ FileInv' /\ owner' \in Connections \cup {NoConnection}
<1>1. /\ MayWrite(n) /\ UNCHANGED intx
      /\ ExecuteCreate(n, c) \/ ExecuteRecord(n, c) \/ ExecuteApply(n, c)
  BY DEF TExecute
<1>2. /\ Execute(n)
      /\ \/ HandsOut(n, c) \/ Performs(n, c)
         \/ \E a \in {"err", "done", "unchanged"} : Declines(n, c, a)
  BY <1>1, ServeEffect DEF Execute
<1>3. recorded \subseteq recorded'
  BY <1>2 DEF HandsOut, Performs, Declines
<1>4. CASE n \notin intx
  <2>1. owner = NoConnection /\ file = Committed
    BY <1>1, <1>4 DEF Base, FileInv, MayWrite
  <2>2. file' = Committed' /\ UNCHANGED <<owner, mixed>>
    BY <1>4 DEF TExecute
  <2>3. FileInv'
    BY <2>1, <2>2 DEF FileInv, Committed
  <2> QED
    BY <1>2, <1>4, <2>1, <2>2, <2>3 DEF Outside
<1>5. CASE n \in intx
  <2>1. /\ Inside(n, c) /\ UNCHANGED file
        /\ owner' = IF Locks(c) THEN n ELSE owner
    BY <1>5 DEF TExecute, Inside
  <2>2. CASE Locks(c)
    <3>1. FileInv'
      BY <1>1, <1>3, <1>5, <2>1, <2>2, MigrationAssumption DEF Base, FileInv
    <3> QED
      BY <1>2, <2>1, <2>2, <3>1
  <2>3. CASE ~Locks(c)
    <3>1. (request[c] = "create" /\ table) \/ answer'[c] = "err"
      BY <2>3 DEF Locks
    <3>2. UNCHANGED <<recorded, applied>>
      <4>1. CASE request[c] = "create" /\ table
        BY <1>1, <4>1 DEF ExecuteCreate, ExecuteRecord, ExecuteApply
      <4>2. CASE answer'[c] = "err"
        <5>1. \A a : Reply(n, c, a) => a = "err"
          BY <4>2 DEF Reply, Base, TypeInv, TypeOK
        <5> QED
          BY <1>2, <5>1 DEF HandsOut, Performs, Declines
      <4> QED
        BY <3>1, <4>1, <4>2
    <3>3. UNCHANGED table
      <4>1. CASE request[c] = "create" /\ table
        BY <1>1, <4>1 DEF ExecuteCreate, ExecuteRecord, ExecuteApply
      <4>2. CASE answer'[c] = "err"
        <5>1. \A a : Reply(n, c, a) => a = "err"
          BY <4>2 DEF Reply, Base, TypeInv, TypeOK
        <5> QED
          BY <1>1, <5>1 DEF ExecuteCreate, ExecuteRecord, ExecuteApply
      <4> QED
        BY <3>1, <4>1, <4>2
    <3>4. FileInv'
      BY <1>1, <2>1, <2>3, <3>2, <3>3 DEF Base, FileInv, Committed
    <3> QED
      BY <1>2, <2>1, <2>3, <3>4 DEF Base, FileTypes
  <2> QED
    BY <2>2, <2>3
<1> QED
  BY <1>4, <1>5

\* The view of the connection that may write is one a file may have.
LEMMA CommittedType ==
    ASSUME TypeOK
    PROVE  Committed \in [table : BOOLEAN, recorded : SUBSET Texts, applied : Seq(Entries)]
BY DEF TypeOK, Committed, Entries

LEMMA BaseStep == Base /\ [TNext]_allVars => Base'
<1> SUFFICES ASSUME Base, [TNext]_allVars
             PROVE  Base'
  OBVIOUS
<1>0. /\ TypeInv /\ TypeOK /\ RequestInv /\ ChannelInv /\ FileTypes /\ FileInv
  BY DEF Base, TypeInv
<1>1. ASSUME [Next]_vars, FileTypes', FileInv'
      PROVE  Base'
  BY <1>0, <1>1, TypeStep, ChannelStep DEF Base
<1>2. ASSUME [Next]_vars, UNCHANGED <<database, transactions>>
      PROVE  Base'
  BY <1>0, <1>1, <1>2 DEF database, transactions, FileTypes, FileInv, Committed
<1>3. ASSUME NEW n \in Connections, Begin(n) \/ GiveUpAtRow(n)
      PROVE  Base'
  <2>1. /\ UNCHANGED vars /\ UNCHANGED <<database, file>>
        /\ \/ UNCHANGED owner /\ intx \subseteq intx'
           \/ owner' = n /\ n \in intx'
    BY <1>3 DEF Begin, GiveUpAtRow, vars, database
  <2>2. FileTypes' /\ FileInv'
    <3>1. CASE UNCHANGED owner /\ intx \subseteq intx'
      BY <1>0, <2>1, <3>1 DEF database, FileTypes, FileInv, Committed
    <3>2. CASE owner' = n /\ n \in intx'
      BY <1>0, <2>1, <3>2, MigrationAssumption DEF database, FileTypes, FileInv
    <3> QED
      BY <2>1, <3>1, <3>2
  <2> QED
    BY <1>1, <2>1, <2>2
<1>4. ASSUME NEW n \in Connections, Commit(n)
      PROVE  Base'
  <2>1. /\ UNCHANGED vars /\ UNCHANGED <<table, recorded, applied>>
        /\ intx' = intx \ {n} /\ owner' = IF owner = n THEN NoConnection ELSE owner
        /\ file' = IF owner = n THEN Committed ELSE file
    BY <1>4 DEF Commit, Released, vars
  <2>2. Committed' = Committed
    BY <2>1 DEF Committed
  <2>3. FileTypes' /\ FileInv'
    <3>1. CASE owner = n
      <4>1. FileTypes'
        BY <1>0, <2>1, <3>1, CommittedType DEF FileTypes
      <4>2. FileInv'
        BY <1>0, <2>1, <2>2, <3>1 DEF FileInv, Committed
      <4> QED
        BY <4>1, <4>2
    <3>2. CASE owner # n
      BY <1>0, <2>1, <2>2, <3>2 DEF FileTypes, FileInv
    <3> QED
      BY <3>1, <3>2
  <2> QED
    BY <1>1, <2>1, <2>3
<1>5. ASSUME NEW n \in Connections, Undone(n),
             \/ UNCHANGED <<channel, callVars, request, at, answer, failed, solo>>
             \/ \E c \in Calls : Reply(n, c, "err") /\ failed' \in SUBSET Calls /\ UNCHANGED solo
             \/ Killed(n)
      PROVE  Base'
  <2>1. /\ FileTypes' /\ FileInv'
        /\ table' \in BOOLEAN /\ recorded' \in SUBSET Texts
        /\ applied' \in Seq([statement : Statements, by : Calls])
    BY <1>0, <1>5, UndoneEffect DEF FileTypes, TypeOK, Entries
  <2>2. CASE UNCHANGED <<channel, callVars, request, at, answer, failed, solo>>
    <3>1. TypeInv'
      BY <1>0, <2>1, <2>2 DEF callVars, TypeInv, TypeOK, RequestInv
    <3>2. ChannelInv'
      BY <1>0, <2>2 DEF callVars, ChannelInv, InChannel
    <3> QED
      BY <2>1, <3>1, <3>2 DEF Base
  <2>3. ASSUME NEW c \in Calls, Reply(n, c, "err"), failed' \in SUBSET Calls, UNCHANGED solo
        PROVE  Base'
    <3>1. TypeInv'
      BY <1>0, <2>1, <2>3, ReplyTypes DEF TypeInv, TypeOK, RequestInv
    <3>2. ChannelInv'
      BY <1>0, <2>3, ReplyKeepsChannels
    <3> QED
      BY <2>1, <3>1, <3>2 DEF Base
  <2>4. CASE Killed(n)
    <3>1. TypeInv'
      BY <1>0, <2>1, <2>4 DEF Killed, TypeInv, TypeOK, RequestInv
    <3>2. ChannelInv'
      BY <1>0, <2>4, KilledKeepsChannels
    <3> QED
      BY <2>1, <3>1, <3>2 DEF Base
  <2> QED
    BY <1>5, <2>2, <2>3, <2>4
<1>6. ASSUME NEW n \in Connections, NEW c \in Calls, TExecute(n, c)
      PROVE  Base'
  <2>1. Execute(n) /\ FileInv' /\ owner' \in Connections \cup {NoConnection} /\ [Next]_vars
    BY <1>6, TExecuteEffect DEF Next, Progress
  <2>2. file' = Committed' \/ file' = file
    BY <1>6, TExecuteEffect DEF Outside, Inside
  <2>3. TypeOK'
    BY <1>0, <2>1, TypeStep DEF TypeInv
  <2>4. Committed' \in [table : BOOLEAN, recorded : SUBSET Texts, applied : Seq(Entries)]
    BY <2>3 DEF TypeOK, Committed, Entries
  <2> QED
    BY <1>0, <1>1, <2>1, <2>2, <2>4 DEF FileTypes
<1>7. ASSUME NEW n \in Connections, NEW c \in Calls, TFail(n, c)
      PROVE  Base'
  <2>1. CASE UNCHANGED <<database, transactions, mixed>>
    <3>1. Fail(n, c)
      BY <1>7, <2>1 DEF TFail, Fail
    <3> QED
      BY <1>2, <2>1, <3>1 DEF Next, Progress, Execute
  <2>2. Reply(n, c, "err") /\ failed' \in SUBSET Calls /\ UNCHANGED solo
    BY <1>0, <1>7 DEF TFail, Refused, TypeOK
  <2> QED
    BY <1>5, <1>7, <2>1, <2>2 DEF TFail
<1>8. ASSUME NEW c \in Calls, CallStep(c), UNCHANGED transactions
      PROVE  Base'
  <2>1. UNCHANGED database
    BY <1>0, <1>8, CallTickets DEF database
  <2> QED
    BY <1>2, <1>8, <2>1 DEF CallStep, Next, Progress, Interrupt
<1>9. CASE UNCHANGED allVars
  BY <1>2, <1>9 DEF allVars, vars, database
<1> QED
  BY <1>3, <1>4, <1>5, <1>6, <1>7, <1>8, <1>9
  DEF TNext, Others, RollBack, Serve, TCrash, TResume, CallStep

-----------------------------------------------------------------------------
(* The steps of the inductive invariant.                                   *)

\* A request about a statement that is served inside of a transaction is in
\* mixed, and nothing leaves it.
LEMMA InsideIsMixed ==
    ASSUME TypeInv, NEW n \in Connections, NEW c \in Calls, Inside(n, c),
           NEW req \in {"record", "apply"}, request[c] = req, NEW t, t = Script[at[c]]
    PROVE  Mixed(c, req, t)'
<1>1. at[c] \in Statements /\ <<c, req, at[c]>> \in mixed'
  BY DEF Inside, TypeInv, RequestInv
<1> QED
  BY <1>1 DEF Mixed

LEMMA MixedGrows ==
    ASSUME mixed \subseteq mixed', NEW c, NEW req, NEW t, Mixed(c, req, t)
    PROVE  Mixed(c, req, t)'
BY DEF Mixed

\* What the steps other than TExecute do, to the file, the view, the tickets
\* and the calls.
Settled ==
    /\ UNCHANGED mixed /\ file.recorded \subseteq file'.recorded
    /\ {<<recorded', applied'>>, <<file'.recorded, file'.applied>>} \subseteq
           {<<recorded, applied>>, <<file.recorded, file.applied>>}
    /\ \A d \in Calls : Ticket(d)' => Ticket(d) /\ at'[d] = at[d]
    /\ \A d \in Calls, t \in Texts : Accountable(d, t) => Accountable(d, t)'
    /\ \A d \in Calls, R \in SUBSET Texts :
           /\ status'[d] \in {"running", "ok"}
           /\ status[d] \in {"running", "ok"} => Behind(d, R)
           => Behind(d, R)'

LEMMA SettledSteps ==
    ASSUME Base, [TNext]_allVars
    PROVE  Settled \/ \E n \in Connections, c \in Calls : TExecute(n, c)
<1>0. /\ TypeInv /\ TypeOK /\ ChannelInv /\ FileTypes /\ FileInv
  BY DEF Base, TypeInv
<1>1. ASSUME UNCHANGED <<channel, status, over, upto, request, at, answer, mixed>>,
             \/ UNCHANGED <<recorded, applied>> /\ (file' = file \/ file' = Committed)
             \/ UNCHANGED file /\ recorded' = file.recorded /\ applied' = file.applied
      PROVE  Settled
  BY <1>0, <1>1 DEF Settled, Ticket, InChannel, Accountable, Winning, Behind, Undecided, Committed, FileInv
<1>2. ASSUME NEW n \in Connections, Undone(n)
      PROVE  /\ UNCHANGED <<file, mixed>>
             /\ \/ UNCHANGED <<recorded, applied>>
                \/ recorded' = file.recorded /\ applied' = file.applied
  BY <1>0, <1>2, UndoneEffect
<1>3. ASSUME Others
      PROVE  Settled
  BY <1>1, <1>2, <1>3 DEF Others, Begin, GiveUpAtRow, Commit, Released, RollBack, vars, callVars
<1>4. ASSUME NEW n \in Connections, NEW c \in Calls, Reply(n, c, "err"),
             UNCHANGED <<file, mixed>>,
             \/ UNCHANGED <<recorded, applied>>
             \/ recorded' = file.recorded /\ applied' = file.applied
      PROVE  Settled
  <2>1. \A d \in Calls : Ticket(d)' => Ticket(d) /\ at'[d] = at[d]
    BY <1>0, <1>4, ReplyEffect DEF Ticket
  <2>2. \A d \in Calls, t \in Texts : Accountable(d, t) => Accountable(d, t)'
    BY <1>0, <1>4, ReplyAccountable
  <2>3. ASSUME NEW d \in Calls, NEW R \in SUBSET Texts, status'[d] \in {"running", "ok"},
               status[d] \in {"running", "ok"} => Behind(d, R)
        PROVE  Behind(d, R)'
    <3>1. UNCHANGED status
      BY <1>0, <1>4, ReplyEffect
    <3> QED
      BY <1>0, <1>4, <2>3, <3>1, ReplyBehind
  <2> QED
    BY <1>4, <2>1, <2>2, <2>3 DEF Settled
<1>5. ASSUME NEW n \in Connections, NEW c \in Calls, TFail(n, c)
      PROVE  Settled
  BY <1>2, <1>4, <1>5 DEF TFail, Refused, database, transactions
<1>6. ASSUME NEW n \in Connections, TCrash(n)
      PROVE  Settled
  <2>1. Killed(n) /\ Undone(n)
    BY <1>6 DEF TCrash
  <2>2. \A d \in Calls : Ticket(d)' => Ticket(d) /\ at'[d] = at[d]
    BY <1>0, <2>1, KilledTickets
  <2>3. \A d \in Calls, t \in Texts : Accountable(d, t) => Accountable(d, t)'
    BY <2>1, KilledAccountable
  <2>4. ASSUME NEW d \in Calls, NEW R \in SUBSET Texts, status'[d] \in {"running", "ok"},
               status[d] \in {"running", "ok"} => Behind(d, R)
        PROVE  Behind(d, R)'
    <3>1. status'[d] = status[d] /\ UNCHANGED <<at, upto, request, answer>>
      BY <2>1, <2>4 DEF Killed
    <3> QED
      BY <2>4, <3>1 DEF Behind, Undecided
  <2> QED
    BY <1>2, <2>1, <2>2, <2>3, <2>4 DEF Settled
<1>7. ASSUME NEW c \in Calls, CallStep(c), UNCHANGED <<transactions, mixed>>
      PROVE  Settled
  <2>1. /\ UNCHANGED <<file, mixed, recorded, applied>>
        /\ \A d \in Calls : Ticket(d)' => Ticket(d) /\ at'[d] = at[d]
    BY <1>0, <1>7, CallTickets DEF transactions
  <2>2. \A d \in Calls, t \in Texts : Accountable(d, t) => Accountable(d, t)'
    BY <1>0, <1>7, CallAccountable
  <2>3. \A d \in Calls, R \in SUBSET Texts :
            /\ status'[d] \in {"running", "ok"}
            /\ status[d] \in {"running", "ok"} => Behind(d, R)
            => Behind(d, R)'
    BY <1>0, <1>7, CallBehind
  <2> QED
    BY <2>1, <2>2, <2>3 DEF Settled
<1>8. CASE UNCHANGED allVars
  BY <1>1, <1>8 DEF allVars, vars, transactions
<1> QED
  BY <1>3, <1>5, <1>6, <1>7, <1>8 DEF TNext, Serve, TResume, CallStep

\* What executing a request does to them.
LEMMA ServedSteps ==
    ASSUME Base, NEW n \in Connections, NEW c \in Calls, TExecute(n, c)
    PROVE  /\ mixed \subseteq mixed' /\ UNCHANGED <<status, at>>
           /\ file.recorded \subseteq file'.recorded
           /\ \A d \in Calls \ {c} : Ticket(d)' => Ticket(d)
           /\ \/ HandsOut(n, c) \/ Performs(n, c)
              \/ ~Ticket(c)' /\ UNCHANGED <<recorded, applied>>
           /\ \/ file = Committed /\ file' = Committed' /\ UNCHANGED mixed
              \/ Inside(n, c)
<1>0. TypeInv /\ TypeOK /\ ChannelInv /\ FileInv
  BY DEF Base, TypeInv
<1>1. /\ \/ HandsOut(n, c) \/ Performs(n, c)
         \/ \E a \in {"err", "done", "unchanged"} : Declines(n, c, a)
      /\ Outside(n) \/ Inside(n, c)
  BY TExecuteEffect
<1>2. PICK a : Reply(n, c, a) /\ (a = "changed" => HandsOut(n, c))
  BY <1>1 DEF HandsOut, Performs, Declines
<1>3. /\ \A d \in Calls : InChannel(d)' <=> InChannel(d) /\ d # c
      /\ answer'[c] = a /\ \A d \in Calls \ {c} : answer'[d] = answer[d]
      /\ UNCHANGED <<status, request, at>>
  BY <1>0, <1>2, ReplyEffect
<1>4. recorded \subseteq recorded'
  BY <1>1 DEF HandsOut, Performs, Declines
<1>5. mixed \subseteq mixed' /\ file.recorded \subseteq file'.recorded
  BY <1>0, <1>1, <1>4 DEF Outside, Inside, FileInv, Committed
<1>6. \A d \in Calls \ {c} : Ticket(d)' => Ticket(d)
  BY <1>3 DEF Ticket
<1>7. HandsOut(n, c) \/ Performs(n, c) \/ (~Ticket(c)' /\ UNCHANGED <<recorded, applied>>)
  BY <1>1, <1>2, <1>3 DEF Ticket, Declines
<1> QED
  BY <1>1, <1>3, <1>5, <1>6, <1>7 DEF Outside

\* As long as no clean ticket is handed out and nothing is executed, what was
\* won once stays won once.
LEMMA OnceKept ==
    ASSUME TicketsOnce, mixed \subseteq mixed', file.recorded \subseteq file'.recorded,
           \A d \in Calls : Ticket(d)' /\ Clean(d, Script[at[d]])' => Ticket(d) /\ at'[d] = at[d]
    PROVE  TicketsOnce' /\ \A s : OnceIn(s) => OnceIn(s)'
<1>1. \A c, t : Clean(c, t)' => Clean(c, t)
  BY MixedGrows DEF Clean
<1>2. TicketsOnce'
  BY <1>1 DEF TicketsOnce
<1>3. ASSUME NEW s, OnceIn(s)
      PROVE  OnceIn(s)'
  BY <1>1, <1>3 DEF OnceIn
<1> QED
  BY <1>2, <1>3

LEMMA OnceStep == Base /\ OnceInv /\ [TNext]_allVars => OnceInv'
<1> SUFFICES ASSUME Base, OnceInv, [TNext]_allVars
             PROVE  OnceInv'
  OBVIOUS
<1>0. TypeInv /\ TypeOK /\ ChannelInv /\ FileTypes /\ FileInv
  BY DEF Base, TypeInv
<1>1. ASSUME {applied', file'.applied} \subseteq {applied, file.applied},
             mixed \subseteq mixed', file.recorded \subseteq file'.recorded,
             \A d \in Calls : Ticket(d)' /\ Clean(d, Script[at[d]])' => Ticket(d) /\ at'[d] = at[d]
      PROVE  OnceInv'
  <2>1. TicketsOnce' /\ \A s : OnceIn(s) => OnceIn(s)'
    BY <1>1, OnceKept DEF OnceInv
  <2>2. PICK s, u : s = applied' /\ u = file'.applied
    OBVIOUS
  <2>3. OnceIn(s) /\ OnceIn(u)
    BY <1>1, <2>2 DEF OnceInv
  <2>4. OnceIn(s)' /\ OnceIn(u)'
    BY <2>1, <2>3
  <2> QED
    BY <2>1, <2>2, <2>4 DEF OnceInv, OnceIn
<1>2. CASE Settled
  BY <1>1, <1>2 DEF Settled
<1>3. ASSUME NEW n \in Connections, NEW c \in Calls, TExecute(n, c)
      PROVE  OnceInv'
  <2>1. /\ mixed \subseteq mixed' /\ UNCHANGED <<status, at>>
        /\ file.recorded \subseteq file'.recorded
        /\ \A d \in Calls \ {c} : Ticket(d)' => Ticket(d)
        /\ \/ HandsOut(n, c) \/ Performs(n, c)
           \/ ~Ticket(c)' /\ UNCHANGED <<recorded, applied>>
        /\ \/ file = Committed /\ file' = Committed' /\ UNCHANGED mixed
           \/ Inside(n, c)
    BY <1>3, ServedSteps
  <2>2. \A e, t : Clean(e, t)' => Clean(e, t)
    BY <2>1, MixedGrows DEF Clean
  <2>3. CASE ~Ticket(c)' /\ UNCHANGED <<recorded, applied>>
    BY <1>1, <2>1, <2>3 DEF Inside, Committed
  <2>4. CASE HandsOut(n, c)
    <3>1. /\ request[c] = "record" /\ Script[at[c]] \notin recorded
          /\ recorded' = recorded \cup {Script[at[c]]} /\ UNCHANGED applied
      BY <2>4 DEF HandsOut
    <3>2. CASE Inside(n, c)
      <4>1. PICK t : t = Script[at[c]]
        OBVIOUS
      <4>2. ~Clean(c, t)'
        BY <1>0, <3>1, <3>2, <4>1, InsideIsMixed DEF Clean
      <4>3. ~Clean(c, Script[at[c]])'
        BY <2>1, <4>1, <4>2 DEF Clean, Mixed
      <4> QED
        BY <1>1, <2>1, <3>1, <3>2, <4>3 DEF Inside
    <3>3. CASE file = Committed /\ file' = Committed' /\ UNCHANGED mixed
      <4>1. /\ file.applied = applied /\ file'.applied = applied
            /\ file.recorded = recorded /\ file'.recorded = recorded \cup {Script[at[c]]}
        BY <3>1, <3>3 DEF Committed
      <4>2. \A e, t : Clean(e, t)' <=> Clean(e, t)
        BY <3>3 DEF Clean, Mixed
      <4>3. OnceIn(applied)'
        BY <2>1, <3>1, <4>1, <4>2 DEF OnceInv, OnceIn
      <4>4. TicketsOnce'
        BY <2>1, <3>1, <4>1, <4>2 DEF OnceInv, TicketsOnce
      <4> QED
        BY <3>1, <4>1, <4>3, <4>4 DEF OnceInv, OnceIn
    <3> QED
      BY <2>1, <3>2, <3>3
  <2>5. CASE Performs(n, c)
    <3> DEFINE t == Script[at[c]]
    <3>1. /\ request[c] = "apply" /\ Reply(n, c, "done")
          /\ applied' = Append(applied, [statement |-> at[c], by |-> c])
      BY <2>5 DEF Performs
    <3>2. /\ Len(applied) \in Nat /\ Len(applied') = Len(applied) + 1
          /\ applied'[Len(applied) + 1] = [statement |-> at[c], by |-> c]
          /\ \A i \in 1..Len(applied) : applied'[i] = applied[i]
      BY <1>0, <3>1, AppliedGrows
    <3>3. Ticket(c) /\ ~Ticket(c)'
      <4>1. InChannel(c) /\ ~InChannel(c)' /\ UNCHANGED request
        BY <1>0, <3>1, ReplyEffect
      <4> QED
        BY <3>1, <4>1 DEF Ticket
    <3>4. TicketsOnce' /\ \A s : OnceIn(s) => OnceIn(s)'
      BY <2>1, <3>3, OnceKept DEF OnceInv
    <3>5. ASSUME Clean(c, t)
          PROVE  /\ t \in file.recorded
                 /\ \A i \in 1..Len(applied) :
                        TextOf(applied[i]) = t => ~Clean(applied[i].by, TextOf(applied[i]))
                 /\ \A d \in Calls \ {c} : Ticket(d) /\ Script[at[d]] = t => ~Clean(d, t)
      BY <3>3, <3>5 DEF OnceInv, OnceIn, TicketsOnce
    <3>6. ASSUME NEW i \in 1..Len(applied'), Clean(applied[i].by, TextOf(applied[i]))'
          PROVE  /\ TextOf(applied'[i]) \in file'.recorded
                 /\ \A j \in 1..Len(applied') :
                        /\ TextOf(applied'[j]) = TextOf(applied'[i])
                        /\ Clean(applied[j].by, TextOf(applied[j]))'
                        => i = j
                 /\ \A d \in Calls : Ticket(d)' /\ Script[at'[d]] = TextOf(applied'[i])
                                       => ~Clean(d, Script[at[d]])'
      <4>1. \A k \in 1..Len(applied') : k = Len(applied) + 1 \/ k \in 1..Len(applied)
        BY <3>2
      <4>2. TextOf(applied'[Len(applied) + 1]) = t /\ applied'[Len(applied) + 1].by = c
        BY <3>2 DEF TextOf
      <4>3. CASE i = Len(applied) + 1
        BY <2>1, <2>2, <3>2, <3>3, <3>5, <3>6, <4>1, <4>2, <4>3
      <4>4. CASE i \in 1..Len(applied)
        <5>1. Clean(applied[i].by, TextOf(applied[i])) /\ applied'[i] = applied[i]
          BY <2>2, <3>2, <3>6, <4>4
        <5>2. TextOf(applied[i]) = t => ~Clean(c, t)
          BY <3>3, <5>1, <4>4 DEF OnceInv, OnceIn
        <5>3. ASSUME NEW j \in 1..Len(applied'), TextOf(applied'[j]) = TextOf(applied'[i]),
                     Clean(applied[j].by, TextOf(applied[j]))'
              PROVE  i = j
          BY <2>2, <3>2, <4>1, <4>2, <4>4, <5>1, <5>2, <5>3 DEF OnceInv, OnceIn
        <5>4. ASSUME NEW d \in Calls, Ticket(d)', Script[at'[d]] = TextOf(applied'[i]),
                     Clean(d, Script[at[d]])'
              PROVE  FALSE
          BY <2>1, <2>2, <3>3, <4>4, <5>1, <5>4 DEF OnceInv, OnceIn
        <5> QED
          BY <2>1, <4>4, <5>1, <5>3, <5>4 DEF OnceInv, OnceIn
      <4> QED
        BY <4>1, <4>3, <4>4
    <3>7. OnceIn(applied)'
      BY <3>6 DEF OnceIn
    <3>8. OnceIn(file.applied)'
      <4>1. CASE file' = Committed'
        BY <3>7, <4>1 DEF Committed, OnceIn
      <4>2. CASE file' = file
        <5>1. PICK s : s = file.applied
          OBVIOUS
        <5>2. OnceIn(s)'
          BY <3>4, <5>1 DEF OnceInv
        <5> QED
          BY <4>2, <5>1, <5>2 DEF OnceIn
      <4> QED
        BY <2>1, <4>1, <4>2 DEF Inside
    <3> QED
      BY <3>4, <3>7, <3>8 DEF OnceInv
  <2> QED
    BY <2>1, <2>3, <2>4, <2>5
<1> QED
  BY <1>2, <1>3, SettledSteps

\* A call that records outside of transactions only moves past a statement that
\* is recorded in the file.
LEMMA FileLoopStep == Base /\ FileLoopInv /\ [TNext]_allVars => FileLoopInv'
<1> SUFFICES ASSUME Base, FileLoopInv, [TNext]_allVars,
                    NEW d \in Calls, status'[d] \in {"running", "ok"}, CleanCall(d)'
             PROVE  Behind(d, file.recorded)'
  BY DEF FileLoopInv
<1>0. TypeInv /\ TypeOK /\ RequestInv /\ ChannelInv /\ FileTypes /\ FileInv
  BY DEF Base, TypeInv
<1>1. PICK R, S : R = file.recorded /\ S = file'.recorded
  OBVIOUS
<1>2. R \in SUBSET Texts
  BY <1>0, <1>1 DEF FileTypes
<1>3. SUFFICES Behind(d, S)'
  BY <1>1, <1>3 DEF Behind
<1>4. ASSUME mixed \subseteq mixed'
      PROVE  status[d] \in {"running", "ok"} => Behind(d, R)
  <2>1. CleanCall(d)
    BY <1>4, MixedGrows DEF CleanCall, Clean
  <2> QED
    BY <1>1, <2>1 DEF FileLoopInv, Behind
<1>5. CASE Settled
  <2>1. Behind(d, R)' /\ R \subseteq S
    BY <1>1, <1>2, <1>4, <1>5 DEF Settled
  <2> QED
    BY <2>1 DEF Behind
<1>6. ASSUME NEW n \in Connections, NEW c \in Calls, TExecute(n, c)
      PROVE  Behind(d, S)'
  <2>1. /\ mixed \subseteq mixed' /\ UNCHANGED status /\ R \subseteq S
        /\ \/ file = Committed /\ file' = Committed'
           \/ Inside(n, c)
    BY <1>1, <1>6, ServedSteps
  <2>2. Behind(d, R)
    BY <1>4, <2>1
  <2>3. \/ HandsOut(n, c) \/ Performs(n, c)
        \/ \E a \in {"err", "done", "unchanged"} : Declines(n, c, a)
    BY <1>6, TExecuteEffect
  <2>4. PICK a : /\ Reply(n, c, a)
                 /\ request[c] = "record" => a = "err" \/ Script[at[c]] \in recorded'
    BY <2>3 DEF HandsOut, Performs, Declines
  <2>5. CASE file' = Committed'
    <3>1. S = recorded'
      BY <1>1, <2>5 DEF Committed
    <3> QED
      BY <1>0, <2>1, <2>2, <2>4, <3>1, ReplyBehind
  <2>6. CASE Inside(n, c) /\ request[c] # "record"
    BY <1>0, <2>1, <2>2, <2>4, <2>6, ReplyBehind
  <2>7. CASE Inside(n, c) /\ request[c] = "record"
    <3>1. PICK t : t = Script[at[c]]
      OBVIOUS
    <3>2. Mixed(c, "record", t)' /\ t \in Texts
      BY <1>0, <2>7, <3>1, InsideIsMixed, ScriptType DEF RequestInv
    <3>3. d # c
      BY <3>2 DEF CleanCall, Clean
    <3>4. /\ UNCHANGED <<request, at, upto>> /\ answer'[d] = answer[d]
      BY <1>0, <2>4, <3>3, ReplyEffect
    <3> QED
      BY <2>1, <2>2, <3>4 DEF Behind, Undecided
  <2> QED
    BY <2>1, <2>5, <2>6, <2>7
<1> QED
  BY <1>5, <1>6, SettledSteps

\* A text that is recorded and not executed, in the file or in the view of it,
\* stays in somebody's hands, or was executed in a transaction.
LEMMA FileLossStep == Base /\ FileLossInv /\ [TNext]_allVars => FileLossInv'
<1> SUFFICES ASSUME Base, FileLossInv, [TNext]_allVars
             PROVE  FileLossInv'
  OBVIOUS
<1>0. TypeInv /\ TypeOK /\ RequestInv /\ ChannelInv /\ FileTypes /\ FileInv
  BY DEF Base, TypeInv
<1>1. recorded \subseteq Texts /\ file.recorded \subseteq Texts
  BY <1>0 DEF TypeOK, FileTypes
<1>2. CASE Settled
  <2>1. \A t \in Texts : Covered(t) => Covered(t)'
    BY <1>2, MixedGrows DEF Settled, Covered
  <2>2. /\ \/ recorded' = recorded /\ Applied' = Applied
           \/ recorded' = file.recorded /\ Applied' = InFile
        /\ \/ file'.recorded = recorded /\ InFile' = Applied
           \/ file'.recorded = file.recorded /\ InFile' = InFile
    BY <1>2 DEF Settled, Applied, InFile
  <2> QED
    BY <1>1, <2>1, <2>2 DEF FileLossInv
<1>3. ASSUME NEW n \in Connections, NEW c \in Calls, TExecute(n, c)
      PROVE  FileLossInv'
  <2>1. /\ mixed \subseteq mixed' /\ UNCHANGED <<status, at>>
        /\ \/ file = Committed /\ file' = Committed'
           \/ Inside(n, c)
    BY <1>3, ServedSteps
  <2>2. \A d \in Calls : \A req, t : Mixed(d, req, t) => Mixed(d, req, t)'
    BY <2>1, MixedGrows
  <2>3. ASSUME NEW t \in Texts, Covered(t)
        PROVE  Covered(t)' \/ (Performs(n, c) /\ t = Script[at[c]])
    <3>1. PICK d \in Calls : Accountable(d, t) \/ Mixed(d, "apply", t)
      BY <2>3 DEF Covered
    <3>2. \/ HandsOut(n, c) \/ Performs(n, c)
          \/ \E a \in {"err", "done", "unchanged"} : Declines(n, c, a)
      BY <1>3, TExecuteEffect
    <3>3. PICK a : Reply(n, c, a) /\ (a = "err" \/ request[c] # "apply" \/ Performs(n, c))
      BY <3>2 DEF HandsOut, Performs, Declines
    <3>4. CASE Mixed(d, "apply", t)
      BY <2>2, <3>4 DEF Covered
    <3>5. CASE Accountable(d, t)
      <4>1. CASE d = c /\ Performs(n, c)
        BY <3>5, <4>1 DEF Accountable
      <4>2. CASE d # c \/ a = "err" \/ request[c] # "apply"
        <5>1. Accountable(d, t)'
          BY <1>0, <3>3, <3>5, <4>2, ReplyAccountable
        <5> QED
          BY <5>1 DEF Covered
      <4> QED
        BY <3>3, <4>1, <4>2
    <3> QED
      BY <3>1, <3>4, <3>5
  <2>4. \A t \in recorded' \ Applied' : Covered(t)'
    <3>1. CASE UNCHANGED <<recorded, applied>> /\ ~Performs(n, c)
      BY <1>1, <2>3, <3>1 DEF FileLossInv, Applied
    <3>2. CASE HandsOut(n, c)
      <4>1. /\ request[c] = "record" /\ Reply(n, c, "changed") /\ UNCHANGED applied
            /\ recorded' = recorded \cup {Script[at[c]]}
        BY <3>2 DEF HandsOut
      <4>2. PICK u : u = Script[at[c]]
        OBVIOUS
      <4>3. Accountable(c, u)'
        BY <1>0, <4>1, <4>2, ReplyEffect DEF Accountable, Winning, RequestInv
      <4>4. ~Performs(n, c)
        BY <4>1 DEF Performs
      <4>5. Covered(u)'
        BY <4>3 DEF Covered
      <4> QED
        BY <1>1, <2>3, <4>1, <4>2, <4>4, <4>5 DEF FileLossInv, Applied
    <3>3. CASE Performs(n, c)
      <4>1. Applied' = Applied \cup {Script[at[c]]} /\ UNCHANGED recorded
        BY <1>0, <3>3, AppliedGrows DEF Performs
      <4> QED
        BY <1>1, <2>3, <4>1 DEF FileLossInv
    <3> QED
      BY <1>3, <3>1, <3>2, <3>3, ServedSteps
  <2>5. \A t \in file'.recorded \ InFile' : Covered(t)'
    <3>1. CASE file' = Committed'
      <4>1. file'.recorded = recorded' /\ InFile' = Applied'
        BY <3>1 DEF Committed, InFile, Applied
      <4> QED
        BY <2>4, <4>1
    <3>2. CASE Inside(n, c)
      <4>1. file' = file /\ InFile' = InFile
        BY <3>2 DEF Inside, InFile
      <4>2. PICK u : u = Script[at[c]]
        OBVIOUS
      <4>3. Performs(n, c) => Covered(u)'
        BY <1>0, <3>2, <4>2, InsideIsMixed DEF Performs, Covered
      <4> QED
        BY <1>1, <2>3, <4>1, <4>2, <4>3 DEF FileLossInv
    <3> QED
      BY <2>1, <3>1, <3>2
  <2> QED
    BY <2>4, <2>5 DEF FileLossInv
<1> QED
  BY <1>2, <1>3, SettledSteps

-----------------------------------------------------------------------------
(* The theorems.                                                           *)

\* The inductive invariant holds of every reachable state.
THEOREM TInvariance == TSpec => []TInv
<1>1. TInit => TInv
  <2> SUFFICES ASSUME TInit
               PROVE  TInv
    OBVIOUS
  <2>1. /\ file = Committed /\ intx = {} /\ owner = NoConnection /\ mixed = {} /\ Init
    BY DEF TInit
  <2>2. Inv
    BY <2>1, InitInv
  <2>3. TypeInv /\ TypeOK /\ ChannelInv
    BY <2>2 DEF Inv, TypeInv
  <2>4. FileTypes /\ FileInv
    BY <2>1, <2>3, CommittedType DEF FileTypes, FileInv, Committed
  <2>5. /\ applied = <<>> /\ file.applied = <<>> /\ Len(applied) = 0 /\ recorded = {}
        /\ \A c \in Calls : status[c] = "new" /\ request[c] = "none"
    BY <2>1 DEF Init, Committed
  <2>6. OnceInv
    BY <2>5 DEF OnceInv, OnceIn, TicketsOnce, Ticket
  <2>7. FileLoopInv /\ FileLossInv
    BY <2>1, <2>5 DEF FileLoopInv, FileLossInv, Committed
  <2> QED
    BY <2>3, <2>4, <2>6, <2>7 DEF TInv, Base
<1>2. TInv /\ [TNext]_allVars => TInv'
  BY BaseStep, OnceStep, FileLoopStep, FileLossStep DEF TInv
<1> QED
  BY <1>1, <1>2, PTL DEF TSpec

\* The calls keep their types, whatever is rolled back under them.
THEOREM TTypeCorrect == TSpec => []TypeOK
<1>1. TInv => TypeOK
  BY DEF TInv, Base, TypeInv
<1> QED
  BY <1>1, TInvariance, PTL

\* A statement is in the file twice only if one of the two calls that executed
\* it had recorded it in somebody's transaction.
THEOREM DuplicatesMixed == TSpec => []DuplicatesAreMixed
<1>1. TInv => DuplicatesAreMixed
  BY DEF TInv, OnceInv, OnceIn, Clean, TextOf, DuplicatesAreMixed
<1> QED
  BY <1>1, TInvariance, PTL

\* A statement that is recorded in the file and not executed there has a call
\* that answers for it, or was executed in somebody's transaction.
THEOREM LossInFileAccounted == TSpec => []LossIsAccountedForInFile
<1>1. TInv => LossIsAccountedForInFile
  BY DEF TInv, FileLossInv, Covered, LossIsAccountedForInFile
<1> QED
  BY <1>1, TInvariance, PTL

\* What a call recorded outside of transactions before it returned Ok, nobody
\* rolls back.
THEOREM OkDurable == TSpec => []OkIsDurable
<1>1. TInv => OkIsDurable
  <2> SUFFICES ASSUME TInv, NEW c \in Calls, status[c] = "ok", CleanCall(c), NEW i \in 1..upto[c]
               PROVE  Script[i] \in file.recorded
    BY DEF OkIsDurable, Release, CleanCall, Clean
  <2> QED
    BY DEF TInv, FileLoopInv, Behind
<1> QED
  BY <1>1, TInvariance, PTL
=============================================================================
