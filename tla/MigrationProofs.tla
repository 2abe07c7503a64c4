--------------------------- MODULE MigrationProofs ---------------------------
(***************************************************************************)
(* Safety of concurrent migrations, for any number of calls, connections   *)
(* and statements.  The argument: a row inserted into __migrations__ is a  *)
(* ticket to execute the statement; at most one call has the ticket for a  *)
(* text, it is used up by executing the statement, and a call that loses it*)
(* stops at that statement with its status saying so.                      *)
(***************************************************************************)
EXTENDS Migration, SequenceTheorems, TLAPS

-----------------------------------------------------------------------------
(* The inductive invariant.                                                *)

InChannel(c) == \E n \in Connections : \E i \in 1..Len(channel[n]) : channel[n][i] = c

\* A call has at most one request in the channels, that of its own connection,
\* and is not answered before it is taken out.
ChannelInv ==
    /\ \A n \in Connections : \A i \in 1..Len(channel[n]) :
           /\ over[channel[n][i]] = n
           /\ \A j \in 1..Len(channel[n]) : channel[n][i] = channel[n][j] => i = j
    /\ \A c \in Calls : InChannel(c) =>
           answer[c] = "none" /\ status[c] \in {"running", "stopped"}

\* A request about a statement names one.
RequestInv ==
    \A c \in Calls : /\ request[c] \in {"record", "apply"} => at[c] \in Statements
                     /\ request[c] = "create" => at[c] = 0
                     /\ at[c] <= upto[c]
                     /\ status[c] # "new" => over[c] \in Connections

\* The right to execute the statement the call is at.
Ticket(c) == \/ status[c] = "running" /\ request[c] = "record" /\ answer[c] = "changed"
             \/ request[c] = "apply" /\ InChannel(c)

\* Tickets are for recorded texts not executed yet, one for each.
TicketInv ==
    /\ Applied \subseteq recorded
    /\ \A c \in Calls : Ticket(c) => Script[at[c]] \in recorded \ Applied
    /\ \A c, d \in Calls : Ticket(c) /\ Ticket(d) /\ Script[at[c]] = Script[at[d]] => c = d

\* The statement a call is at is not recorded for certain.
Undecided(c) == request[c] = "record" /\ answer[c] \in {"none", "err"}

\* Behind its current statement a call leaves only statements of R.
Behind(c, R) ==
    /\ \A i \in 1..at[c] : Script[i] \in R \/ (i = at[c] /\ Undecided(c))
    /\ status[c] = "ok" => at[c] = upto[c] /\ ~Undecided(c)

LoopInv == \A c \in Calls : status[c] \in {"running", "ok"} => Behind(c, recorded)

TypeInv == TypeOK /\ RequestInv
Inv == TypeInv /\ ChannelInv /\ TicketInv /\ LoopInv /\ AppliedAtMostOnce /\ LossIsAccountedFor

-----------------------------------------------------------------------------
(* Types.                                                                  *)

\* The script is a sequence of texts.
LEMMA ScriptType ==
    /\ Script \in Seq(Texts) /\ Len(Script) \in Nat
    /\ \A i \in Statements : Script[i] \in Texts
BY MigrationAssumption, LenProperties, ElementOfSeq DEF Statements

\* What Send does to the types.
LEMMA SendTypes ==
    ASSUME TypeInv, NEW c \in Calls, NEW n \in Connections,
           NEW req \in {"create", "record", "apply"}, NEW i \in 0..Len(Script),
           Send(c, n, req, i)
    PROVE  /\ channel' \in [Connections -> Seq(Calls)]
           /\ request' \in [Calls -> {"none", "create", "record", "apply"}]
           /\ at' \in [Calls -> 0..Len(Script)]
           /\ answer' \in [Calls -> {"none", "changed", "unchanged", "done", "err"}]
<1>1. channel[n] \in Seq(Calls)
  BY DEF TypeInv, TypeOK
<1>2. Append(channel[n], c) \in Seq(Calls)
  BY <1>1, AppendProperties
<1> QED
  BY <1>2 DEF Send, TypeInv, TypeOK

\* What Reply does to the types.
LEMMA ReplyTypes ==
    ASSUME TypeInv, NEW n \in Connections, NEW c \in Calls,
           NEW a \in {"changed", "unchanged", "done", "err"}, Reply(n, c, a)
    PROVE  /\ channel' \in [Connections -> Seq(Calls)]
           /\ answer' \in [Calls -> {"none", "changed", "unchanged", "done", "err"}]
           /\ UNCHANGED <<status, over, upto, request, at>>
<1>1. channel[n] \in Seq(Calls) /\ channel[n] # <<>>
  BY DEF TypeInv, TypeOK, Reply
<1>2. Tail(channel[n]) \in Seq(Calls)
  BY <1>1, HeadTailProperties
<1> QED
  BY <1>2 DEF Reply, TypeInv, TypeOK, callVars

\* The continuation of a running call keeps types and goes to the next
\* statement of its release.
LEMMA ContinueTypes ==
    ASSUME TypeInv, NEW c \in Calls, status[c] = "running", Continue(c),
           UNCHANGED <<database, over, upto, failed, solo>>
    PROVE  TypeInv'
<1>0. TypeOK /\ RequestInv /\ Len(Script) \in Nat /\ over[c] \in Connections
  BY ScriptType DEF TypeInv, RequestInv
<1>1. CASE at[c] < upto[c]
  <2>1. Send(c, over[c], "record", at[c] + 1) /\ UNCHANGED status
    BY <1>1 DEF Continue
  <2>2. at[c] \in 0..Len(Script) /\ upto[c] \in 0..Len(Script)
    BY <1>0 DEF TypeOK
  <2>3. at[c] + 1 \in 0..Len(Script) /\ at[c] + 1 \in Statements /\ at[c] + 1 <= upto[c]
    BY <1>0, <1>1, <2>2 DEF Statements
  <2>4. TypeOK'
    BY <1>0, <2>1, <2>3, SendTypes DEF TypeOK, database
  <2>5. RequestInv'
    BY <1>0, <2>1, <2>3 DEF Send, RequestInv, TypeOK
  <2> QED
    BY <2>4, <2>5 DEF TypeInv
<1>2. CASE ~(at[c] < upto[c])
  BY <1>0, <1>2 DEF Continue, End, TypeInv, TypeOK, RequestInv, database
<1> QED
  BY <1>1, <1>2

LEMMA TypeStep == TypeInv /\ [Next]_vars => TypeInv'
<1> SUFFICES ASSUME TypeInv, [Next]_vars
             PROVE  TypeInv'
  OBVIOUS
<1>0. TypeOK /\ RequestInv /\ Len(Script) \in Nat
  BY ScriptType DEF TypeInv
<1>1. ASSUME NEW c \in Calls, NEW n \in Connections, NEW u \in Releases, Start(c, n, u)
      PROVE  TypeInv'
  <2>1. /\ status' = [status EXCEPT ![c] = "running"] /\ over' = [over EXCEPT ![c] = n]
        /\ upto' = [upto EXCEPT ![c] = u] /\ Send(c, n, "create", 0)
        /\ UNCHANGED <<table, recorded, applied, failed>> /\ solo' \in BOOLEAN
    BY <1>1 DEF Start, Alone, database
  <2>2. u \in Nat /\ u \in 0..Len(Script) /\ 0 \in 0..Len(Script) /\ 0 <= u
    BY <1>0, MigrationAssumption
  <2>3. TypeOK'
    BY <1>0, <2>1, <2>2, SendTypes DEF TypeOK
  <2>4. RequestInv'
    BY <1>0, <2>1, <2>2 DEF Send, RequestInv, TypeOK
  <2> QED
    BY <2>3, <2>4 DEF TypeInv
<1>2. ASSUME NEW c \in Calls, NEW st \in {"ok", "err"}, End(c, st), status[c] = "running",
             UNCHANGED <<database, over, upto, failed, solo>>
      PROVE  TypeInv'
  BY <1>0, <1>2 DEF End, TypeInv, TypeOK, RequestInv, database
<1>3. ASSUME NEW c \in Calls, Resume(c)
      PROVE  TypeInv'
  <2>1. CASE AfterCreate(c)
    BY <2>1, ContinueTypes DEF AfterCreate, Answered
  <2>2. CASE AfterApply(c)
    BY <1>2, <2>2, ContinueTypes DEF AfterApply, Answered
  <2>3. CASE AfterRecord(c)
    <3>1. /\ status[c] = "running" /\ request[c] = "record"
          /\ UNCHANGED <<database, over, upto, failed, solo>>
      BY <2>3 DEF AfterRecord, Answered
    <3>2. CASE Send(c, over[c], "apply", at[c]) /\ UNCHANGED status
      <4>1. at[c] \in Statements /\ at[c] \in 0..Len(Script) /\ over[c] \in Connections
        BY <1>0, <3>1 DEF RequestInv, TypeOK
      <4>2. TypeOK'
        BY <1>0, <3>1, <3>2, <4>1, SendTypes DEF TypeOK, database
      <4>3. RequestInv'
        BY <1>0, <3>1, <3>2, <4>1 DEF Send, RequestInv, TypeOK
      <4> QED
        BY <4>2, <4>3 DEF TypeInv
    <3> QED
      BY <1>2, <2>3, <3>1, <3>2, ContinueTypes DEF AfterRecord
  <2> QED
    BY <1>3, <2>1, <2>2, <2>3 DEF Resume
<1>4. ASSUME NEW n \in Connections, Execute(n)
      PROVE  TypeInv'
  <2>0. ASSUME NEW c \in Calls, NEW a \in {"changed", "unchanged", "done", "err"},
               Reply(n, c, a), table' \in BOOLEAN, recorded' \in SUBSET Texts,
               applied' \in Seq([statement : Statements, by : Calls]),
               failed' \in SUBSET Calls, solo' \in BOOLEAN
        PROVE  TypeInv'
    BY <1>0, <2>0, ReplyTypes DEF TypeInv, TypeOK, RequestInv
  <2>1. ASSUME NEW c \in Calls, ExecuteCreate(n, c)
        PROVE  TypeInv'
    BY <1>0, <2>0, <2>1 DEF ExecuteCreate, TypeOK
  <2>2. ASSUME NEW c \in Calls, ExecuteRecord(n, c)
        PROVE  TypeInv'
    <3>1. Script[at[c]] \in Texts
      BY <1>0, <2>2, ScriptType DEF ExecuteRecord, RequestInv
    <3> QED
      BY <1>0, <2>0, <2>2, <3>1 DEF ExecuteRecord, TypeOK
  <2>3. ASSUME NEW c \in Calls, ExecuteApply(n, c)
        PROVE  TypeInv'
    <3> DEFINE Entries == [statement : Statements, by : Calls]
               e       == [statement |-> at[c], by |-> c]
    <3>1. e \in Entries
      BY <1>0, <2>3 DEF ExecuteApply, RequestInv
    <3>2. UNCHANGED applied \/ applied' = Append(applied, e)
      BY <2>3 DEF ExecuteApply
    <3>3. applied \in Seq(Entries)
      BY <1>0 DEF TypeOK
    <3>4. applied' \in Seq(Entries)
      <4> HIDE DEF Entries, e
      <4> QED
        BY <3>1, <3>2, <3>3, AppendProperties
    <3>5. \E a \in {"done", "err"} : Reply(n, c, a)
      BY <2>3 DEF ExecuteApply
    <3>6. UNCHANGED <<table, recorded, failed, solo>>
      BY <2>3 DEF ExecuteApply
    <3> QED
      BY <1>0, <2>0, <3>4, <3>5, <3>6 DEF TypeOK
  <2>4. ASSUME NEW c \in Calls, Fail(n, c)
        PROVE  TypeInv'
    BY <1>0, <2>0, <2>4 DEF Fail, Refused, TypeOK, database
  <2> QED
    BY <1>4, <2>1, <2>2, <2>3, <2>4 DEF Execute
<1>5. ASSUME NEW c \in Calls, Cancel(c)
      PROVE  TypeInv'
  BY <1>0, <1>5 DEF Cancel, TypeInv, TypeOK, RequestInv, database
<1>6. ASSUME NEW n \in Connections, Crash(n)
      PROVE  TypeInv'
  BY <1>0, <1>6 DEF Crash, Killed, TypeInv, TypeOK, RequestInv, database
<1>7. CASE UNCHANGED vars
  BY <1>0, <1>7 DEF vars, database, TypeInv, TypeOK, RequestInv
<1> QED
  BY <1>1, <1>3, <1>4, <1>5, <1>6, <1>7 DEF Next, Progress, Interrupt

-----------------------------------------------------------------------------
(* Channels.                                                               *)

\* Sending puts the call in the channel, behind what is there.
LEMMA SendChannel ==
    ASSUME TypeInv, NEW c \in Calls, NEW n \in Connections, NEW req, NEW i, Send(c, n, req, i)
    PROVE  /\ \A m \in Connections \ {n} : channel'[m] = channel[m]
           /\ Len(channel[n]) \in Nat
           /\ Len(channel'[n]) = Len(channel[n]) + 1 /\ channel'[n][Len(channel[n]) + 1] = c
           /\ \A k \in 1..Len(channel[n]) : channel'[n][k] = channel[n][k]
           /\ \A d \in Calls : InChannel(d)' <=> InChannel(d) \/ d = c
<1>1. channel \in [Connections -> Seq(Calls)] /\ channel[n] \in Seq(Calls)
  BY DEF TypeInv, TypeOK
<1>2. channel'[n] = Append(channel[n], c) /\ \A m \in Connections \ {n} : channel'[m] = channel[m]
  BY <1>1 DEF Send
<1>3. /\ Len(channel[n]) \in Nat
      /\ Len(channel'[n]) = Len(channel[n]) + 1 /\ channel'[n][Len(channel[n]) + 1] = c
      /\ \A k \in 1..Len(channel[n]) : channel'[n][k] = channel[n][k]
  BY <1>1, <1>2, AppendProperties, LenProperties
<1>4. \A k \in 1..Len(channel'[n]) : k = Len(channel[n]) + 1 \/ k \in 1..Len(channel[n])
  BY <1>3
<1>5. Len(channel[n]) + 1 \in 1..Len(channel'[n]) /\ 1..Len(channel[n]) \subseteq 1..Len(channel'[n])
  BY <1>3
<1>6. \A d \in Calls : InChannel(d)' <=> InChannel(d) \/ d = c
  <2>1. ASSUME NEW d \in Calls, InChannel(d)'
        PROVE  InChannel(d) \/ d = c
    <3> PICK m \in Connections : \E k \in 1..Len(channel'[m]) : channel'[m][k] = d
      BY <2>1 DEF InChannel
    <3>1. CASE m # n
      BY <1>2, <3>1 DEF InChannel
    <3>2. CASE m = n
      BY <1>3, <1>4, <3>2 DEF InChannel
    <3> QED
      BY <3>1, <3>2
  <2>2. ASSUME NEW d \in Calls, InChannel(d)
        PROVE  InChannel(d)'
    <3> PICK m \in Connections : \E k \in 1..Len(channel[m]) : channel[m][k] = d
      BY <2>2 DEF InChannel
    <3>1. CASE m # n
      BY <1>2, <3>1 DEF InChannel
    <3>2. CASE m = n
      BY <1>3, <1>5, <3>2 DEF InChannel
    <3> QED
      BY <3>1, <3>2
  <2>3. InChannel(c)'
    BY <1>3, <1>5 DEF InChannel
  <2> QED
    BY <2>1, <2>2, <2>3
<1> QED
  BY <1>2, <1>3, <1>6

\* A reply takes the call out of the channels.
LEMMA ReplyChannel ==
    ASSUME TypeInv, ChannelInv, NEW n \in Connections, NEW c \in Calls, NEW a, Reply(n, c, a)
    PROVE  /\ InChannel(c) /\ over[c] = n
           /\ \A m \in Connections \ {n} : channel'[m] = channel[m]
           /\ Len(channel'[n]) \in Nat /\ Len(channel[n]) = Len(channel'[n]) + 1
           /\ \A k \in 1..Len(channel'[n]) : channel'[n][k] = channel[n][k + 1]
           /\ \A d \in Calls : InChannel(d)' <=> InChannel(d) /\ d # c
<1>1. channel \in [Connections -> Seq(Calls)] /\ channel[n] \in Seq(Calls) /\ channel[n] # <<>>
  BY DEF TypeInv, TypeOK, Reply
<1>2. /\ channel'[n] = Tail(channel[n]) /\ c = channel[n][1]
      /\ \A m \in Connections \ {n} : channel'[m] = channel[m]
  BY <1>1 DEF Reply
<1>3. /\ Len(channel[n]) \in Nat \ {0}
      /\ Len(channel'[n]) \in Nat /\ Len(channel[n]) = Len(channel'[n]) + 1
      /\ \A k \in 1..Len(channel'[n]) : channel'[n][k] = channel[n][k + 1]
  BY <1>1, <1>2, EmptySeq, HeadTailProperties
<1>4. 1 \in 1..Len(channel[n])
  BY <1>3
<1>5. InChannel(c) /\ over[c] = n
  BY <1>2, <1>4 DEF InChannel, ChannelInv
<1>6. ASSUME NEW d \in Calls, InChannel(d)'
      PROVE  InChannel(d) /\ d # c
  <2>0. PICK m \in Connections : \E k \in 1..Len(channel'[m]) : channel'[m][k] = d
    BY <1>6 DEF InChannel
  <2>1. PICK k \in 1..Len(channel'[m]) : channel'[m][k] = d
    BY <2>0
  <2>2. CASE m = n
    <3>1. k + 1 \in 1..Len(channel[n]) /\ channel[n][k + 1] = d /\ k + 1 # 1
      BY <1>3, <2>1, <2>2
    <3> QED
      BY <1>2, <1>4, <3>1 DEF InChannel, ChannelInv
  <2>3. CASE m # n
    <3>1. k \in 1..Len(channel[m]) /\ channel[m][k] = d
      BY <1>2, <2>1, <2>3
    <3> QED
      BY <1>5, <2>3, <3>1 DEF InChannel, ChannelInv
  <2> QED
    BY <2>2, <2>3
<1>7. ASSUME NEW d \in Calls, InChannel(d), d # c
      PROVE  InChannel(d)'
  <2>0. PICK m \in Connections : \E k \in 1..Len(channel[m]) : channel[m][k] = d
    BY <1>7 DEF InChannel
  <2>1. PICK k \in 1..Len(channel[m]) : channel[m][k] = d
    BY <2>0
  <2>2. CASE m = n
    <3>1. k # 1 /\ k - 1 \in 1..Len(channel'[n]) /\ channel'[n][k - 1] = d
      BY <1>2, <1>3, <1>7, <2>1, <2>2
    <3> QED
      BY <3>1 DEF InChannel
  <2>3. CASE m # n
    BY <1>2, <2>1, <2>3 DEF InChannel
  <2> QED
    BY <2>2, <2>3
<1> QED
  BY <1>2, <1>3, <1>5, <1>6, <1>7

-----------------------------------------------------------------------------
(* What steps do, in the terms of the invariant.                           *)

\* A call that resumes goes on to the next statement, is done, fails, or goes
\* on to execute the statement it has the ticket for.
Advances(c) == /\ at[c] < upto[c] /\ ~Winning(c) /\ ~Undecided(c)
               /\ Send(c, over[c], "record", at[c] + 1) /\ UNCHANGED status
Succeeds(c) == ~(at[c] < upto[c]) /\ ~Winning(c) /\ ~Undecided(c) /\ End(c, "ok")
GivesUp(c)  == request[c] \in {"record", "apply"} /\ answer[c] = "err" /\ End(c, "err")
Wins(c)     == /\ request[c] = "record" /\ answer[c] = "changed"
               /\ Send(c, over[c], "apply", at[c]) /\ UNCHANGED status

LEMMA ResumeEffect ==
    ASSUME NEW c \in Calls, Resume(c)
    PROVE  /\ status[c] = "running" /\ answer[c] # "none"
           /\ UNCHANGED <<table, recorded, applied, over, upto>>
           /\ Advances(c) \/ Succeeds(c) \/ GivesUp(c) \/ Wins(c)
<1>1. status[c] = "running" /\ answer[c] # "none" /\ UNCHANGED <<database, over, upto>>
  BY DEF Resume, AfterCreate, AfterRecord, AfterApply, Answered
<1>2. ASSUME ~Winning(c), ~Undecided(c), Continue(c)
      PROVE  Advances(c) \/ Succeeds(c)
  BY <1>2 DEF Continue, Advances, Succeeds
<1>3. CASE AfterCreate(c)
  <2>1. request[c] = "create" /\ Continue(c)
    BY <1>3 DEF AfterCreate, Answered
  <2> QED
    BY <1>1, <1>2, <2>1 DEF Winning, Undecided, database
<1>4. CASE AfterRecord(c)
  <2>1. request[c] = "record"
    BY <1>4 DEF AfterRecord, Answered
  <2>2. CASE answer[c] = "err" /\ End(c, "err")
    BY <1>1, <2>1, <2>2 DEF GivesUp, database
  <2>3. CASE answer[c] = "unchanged" /\ Continue(c)
    BY <1>1, <1>2, <2>1, <2>3 DEF Winning, Undecided, database
  <2>4. CASE answer[c] = "changed" /\ Send(c, over[c], "apply", at[c]) /\ UNCHANGED status
    BY <1>1, <2>1, <2>4 DEF Wins, database
  <2> QED
    BY <1>4, <2>2, <2>3, <2>4 DEF AfterRecord
<1>5. CASE AfterApply(c)
  <2>1. request[c] = "apply" /\ IF answer[c] = "err" THEN End(c, "err") ELSE Continue(c)
    BY <1>5 DEF AfterApply, Answered
  <2>2. CASE answer[c] = "err"
    BY <1>1, <2>1, <2>2 DEF GivesUp, database
  <2>3. CASE answer[c] # "err"
    BY <1>1, <1>2, <2>1, <2>3 DEF Winning, Undecided, database
  <2> QED
    BY <2>2, <2>3
<1> QED
  BY <1>3, <1>4, <1>5 DEF Resume

\* A connection that serves c hands out the ticket for a new text, executes the
\* statement c is at, or leaves records and schema alone.
HandsOut(n, c) == /\ request[c] = "record" /\ Reply(n, c, "changed")
                  /\ Script[at[c]] \notin recorded
                  /\ recorded' = recorded \cup {Script[at[c]]} /\ UNCHANGED applied
Performs(n, c) == /\ request[c] = "apply" /\ Reply(n, c, "done")
                  /\ applied' = Append(applied, [statement |-> at[c], by |-> c])
                  /\ UNCHANGED recorded
Declines(n, c, a) == /\ Reply(n, c, a) /\ UNCHANGED <<recorded, applied>>
                     /\ \/ a = "err"
                        \/ a = "done" /\ request[c] = "create"
                        \/ a = "unchanged" /\ request[c] = "record" /\ Script[at[c]] \in recorded

LEMMA ServeEffect ==
    ASSUME NEW n \in Connections, NEW c \in Calls,
           ExecuteCreate(n, c) \/ ExecuteRecord(n, c) \/ ExecuteApply(n, c) \/ Fail(n, c)
    PROVE  \/ HandsOut(n, c) \/ Performs(n, c)
           \/ \E a \in {"err", "done", "unchanged"} : Declines(n, c, a)
<1>1. CASE ExecuteCreate(n, c)
  BY <1>1 DEF ExecuteCreate, Declines
<1>2. CASE ExecuteRecord(n, c)
  BY <1>2 DEF ExecuteRecord, HandsOut, Declines
<1>3. CASE ExecuteApply(n, c)
  BY <1>3 DEF ExecuteApply, Performs, Declines
<1>4. CASE Fail(n, c)
  BY <1>4 DEF Fail, Refused, Declines, database
<1> QED
  BY <1>1, <1>2, <1>3, <1>4

LEMMA ExecuteEffect ==
    ASSUME NEW n \in Connections, Execute(n)
    PROVE  \E c \in Calls : \/ HandsOut(n, c) \/ Performs(n, c)
                           \/ \E a \in {"err", "done", "unchanged"} : Declines(n, c, a)
BY ServeEffect DEF Execute

\* Being answered takes a call out of the channels and changes nothing else of
\* the calls.
LEMMA ReplyEffect ==
    ASSUME TypeInv, ChannelInv, NEW n \in Connections, NEW c \in Calls, NEW a, Reply(n, c, a)
    PROVE  /\ InChannel(c) /\ \A d \in Calls : InChannel(d)' <=> InChannel(d) /\ d # c
           /\ answer[c] = "none" /\ status[c] \in {"running", "stopped"}
           /\ answer'[c] = a /\ \A d \in Calls \ {c} : answer'[d] = answer[d]
           /\ UNCHANGED <<status, over, upto, request, at>>
<1>1. InChannel(c) /\ \A d \in Calls : InChannel(d)' <=> InChannel(d) /\ d # c
  BY ReplyChannel
<1>2. answer' = [answer EXCEPT ![c] = a] /\ UNCHANGED <<status, over, upto, request, at>>
  BY DEF Reply, callVars
<1> QED
  BY <1>1, <1>2 DEF ChannelInv, TypeInv, TypeOK

\* Executing a statement adds its text to the schema, and nothing else.
LEMMA AppliedGrows ==
    ASSUME TypeInv, NEW c \in Calls, request[c] = "apply",
           applied' = Append(applied, [statement |-> at[c], by |-> c])
    PROVE  /\ Len(applied) \in Nat /\ Len(applied') = Len(applied) + 1
           /\ applied'[Len(applied) + 1].statement = at[c]
           /\ \A i \in 1..Len(applied) : applied'[i] = applied[i]
           /\ Applied' = Applied \cup {Script[at[c]]}
<1> DEFINE Entries == [statement : Statements, by : Calls]
           e       == [statement |-> at[c], by |-> c]
<1>1. e \in Entries /\ e.statement = at[c] /\ applied \in Seq(Entries)
  BY DEF TypeInv, TypeOK, RequestInv
<1>2. applied' = Append(applied, e)
  OBVIOUS
<1>3. /\ Len(applied) \in Nat /\ Len(applied') = Len(applied) + 1
      /\ applied'[Len(applied) + 1] = e
      /\ \A i \in 1..Len(applied) : applied'[i] = applied[i]
  <2> HIDE DEF Entries, e
  <2> QED
    BY <1>1, <1>2, AppendProperties, LenProperties
<1>4. 1..Len(applied') = 1..Len(applied) \cup {Len(applied) + 1}
  BY <1>3
<1>5. Applied' = Applied \cup {Script[at[c]]}
  <2> HIDE DEF e
  <2> QED
    BY <1>1, <1>3, <1>4 DEF Applied
<1> QED
  BY <1>1, <1>3, <1>5

-----------------------------------------------------------------------------
(* The steps of the inductive invariant.                                   *)

\* A call that is in no channel may send.
LEMMA SendKeepsChannels ==
    ASSUME TypeInv, ChannelInv, NEW c \in Calls, NEW n \in Connections, NEW req, NEW i,
           Send(c, n, req, i), ~InChannel(c), status'[c] = "running", over'[c] = n,
           \A d \in Calls \ {c} : over'[d] = over[d] /\ status'[d] = status[d]
    PROVE  ChannelInv'
<1>1. /\ \A m \in Connections \ {n} : channel'[m] = channel[m]
      /\ Len(channel[n]) \in Nat
      /\ Len(channel'[n]) = Len(channel[n]) + 1 /\ channel'[n][Len(channel[n]) + 1] = c
      /\ \A k \in 1..Len(channel[n]) : channel'[n][k] = channel[n][k]
      /\ \A d \in Calls : InChannel(d)' <=> InChannel(d) \/ d = c
  BY SendChannel
<1>2. \A m \in Connections : \A k \in 1..Len(channel[m]) : channel[m][k] \in Calls \ {c}
  BY ElementOfSeq DEF TypeInv, TypeOK, InChannel
<1>3. \A k \in 1..Len(channel'[n]) : k = Len(channel[n]) + 1 \/ k \in 1..Len(channel[n])
  BY <1>1
<1>4. ASSUME NEW m \in Connections, NEW k \in 1..Len(channel'[m])
      PROVE  over'[channel'[m][k]] = m
  BY <1>1, <1>2, <1>3, <1>4 DEF ChannelInv
<1>5. ASSUME NEW m \in Connections, NEW k \in 1..Len(channel'[m]), NEW j \in 1..Len(channel'[m]),
             channel'[m][k] = channel'[m][j]
      PROVE  k = j
  <2>1. CASE m # n
    BY <1>1, <1>5, <2>1 DEF ChannelInv
  <2>2. CASE m = n /\ channel'[n][k] = c
    BY SMTT(30), <1>1, <1>2, <1>3, <1>5, <2>2
  <2>3. CASE m = n /\ channel'[n][k] # c
    <3>1. /\ k \in 1..Len(channel[n]) /\ j \in 1..Len(channel[n])
          /\ channel[n][k] = channel[n][j]
      BY <1>1, <1>3, <1>5, <2>3
    <3> QED
      BY <3>1 DEF ChannelInv
  <2> QED
    BY <2>1, <2>2, <2>3
<1>6. ASSUME NEW d \in Calls, InChannel(d)'
      PROVE  answer'[d] = "none" /\ status'[d] \in {"running", "stopped"}
  <2>1. answer' = [answer EXCEPT ![c] = "none"] /\ answer \in [Calls -> {"none", "changed", "unchanged", "done", "err"}]
    BY DEF Send, TypeInv, TypeOK
  <2> QED
    BY <1>1, <1>6, <2>1 DEF ChannelInv
<1> QED
  BY <1>4, <1>5, <1>6 DEF ChannelInv

\* A reply takes one request out of the channels and leaves the others alone.
LEMMA ReplyKeepsChannels ==
    ASSUME TypeInv, ChannelInv, NEW n \in Connections, NEW c \in Calls, NEW a, Reply(n, c, a)
    PROVE  ChannelInv'
<1>0. TypeOK /\ \A m \in Connections : \A i \in 1..Len(channel[m]) : channel[m][i] \in Calls
  BY ElementOfSeq DEF TypeInv, TypeOK
<1>1. /\ InChannel(c) /\ over[c] = n
      /\ \A m \in Connections \ {n} : channel'[m] = channel[m]
      /\ Len(channel'[n]) \in Nat /\ Len(channel[n]) = Len(channel'[n]) + 1
      /\ \A k \in 1..Len(channel'[n]) : channel'[n][k] = channel[n][k + 1]
      /\ \A d \in Calls : InChannel(d)' <=> InChannel(d) /\ d # c
  BY ReplyChannel
<1>2. answer' = [answer EXCEPT ![c] = a] /\ UNCHANGED <<status, over>>
  BY DEF Reply, callVars
<1>3. \A k \in 1..Len(channel'[n]) : k + 1 \in 1..Len(channel[n])
  BY <1>1
<1>4. ASSUME NEW m \in Connections, NEW k \in 1..Len(channel'[m])
      PROVE  over'[channel'[m][k]] = m
  BY SMTT(30), <1>0, <1>1, <1>2, <1>3 DEF ChannelInv
<1>5. ASSUME NEW m \in Connections, NEW k \in 1..Len(channel'[m]), NEW j \in 1..Len(channel'[m]),
             channel'[m][k] = channel'[m][j]
      PROVE  k = j
  <2>1. CASE m = n
    <3>1. channel[n][k + 1] = channel[n][j + 1]
      BY <1>1, <1>5, <2>1
    <3>2. k + 1 = j + 1
      BY <1>0, <1>3, <2>1, <3>1 DEF ChannelInv
    <3> QED
      BY <3>2
  <2>2. CASE m # n
    BY <1>0, <1>1, <1>5, <2>2 DEF ChannelInv
  <2> QED
    BY <2>1, <2>2
<1>6. ASSUME NEW d \in Calls, InChannel(d)'
      PROVE  answer'[d] = "none" /\ status'[d] \in {"running", "stopped"}
  BY <1>0, <1>1, <1>2, <1>6 DEF ChannelInv, TypeOK
<1> QED
  BY <1>4, <1>5, <1>6 DEF ChannelInv

\* The death of a process takes the requests of its calls out of the channels.
LEMMA KilledKeepsChannels ==
    ASSUME TypeInv, ChannelInv, NEW n \in Connections, Killed(n)
    PROVE  ChannelInv' /\ \A c \in Calls : InChannel(c)' => InChannel(c)
<1>1. /\ channel'[n] = <<>> /\ \A m \in Connections \ {n} : channel'[m] = channel[m]
      /\ UNCHANGED <<over, answer>>
      /\ \A c \in Calls : over[c] # n => status'[c] = status[c]
  BY DEF Killed, TypeInv, TypeOK
<1>2. Len(channel'[n]) = 0
  BY <1>1
<1>3. ASSUME NEW c \in Calls, InChannel(c)'
      PROVE  InChannel(c) /\ over[c] # n
  <2>1. PICK m \in Connections : \E k \in 1..Len(channel'[m]) : channel'[m][k] = c
    BY <1>3 DEF InChannel
  <2>2. m # n /\ \E k \in 1..Len(channel[m]) : channel[m][k] = c
    BY <1>1, <1>2, <2>1
  <2> QED
    BY <2>2 DEF InChannel, ChannelInv
<1>4. ASSUME NEW m \in Connections, NEW i \in 1..Len(channel'[m])
      PROVE  /\ over'[channel'[m][i]] = m
             /\ \A j \in 1..Len(channel'[m]) : channel'[m][i] = channel'[m][j] => i = j
  <2>1. m # n
    BY <1>2
  <2> QED
    BY <1>1, <2>1 DEF ChannelInv
<1> QED
  BY <1>1, <1>3, <1>4 DEF ChannelInv

LEMMA ChannelStep == TypeInv /\ ChannelInv /\ [Next]_vars => ChannelInv'
<1> SUFFICES ASSUME TypeInv, ChannelInv, [Next]_vars
             PROVE  ChannelInv'
  OBVIOUS
<1>0. /\ TypeInv /\ TypeOK /\ ChannelInv
      /\ \A c \in Calls : status[c] = "running" => over[c] \in Connections
      /\ \A n \in Connections : \A i \in 1..Len(channel[n]) : channel[n][i] \in Calls
  BY ElementOfSeq DEF TypeInv, RequestInv, TypeOK
<1>1. ASSUME NEW c \in Calls, NEW n \in Connections, NEW u \in Releases, Start(c, n, u)
      PROVE  ChannelInv'
  <2>1. /\ Send(c, n, "create", 0) /\ status[c] = "new"
        /\ status' = [status EXCEPT ![c] = "running"] /\ over' = [over EXCEPT ![c] = n]
    BY <1>1 DEF Start
  <2>2. ~InChannel(c)
    BY <1>0, <2>1 DEF ChannelInv
  <2> QED
    BY <1>0, <2>1, <2>2, SendKeepsChannels DEF TypeOK
<1>2. ASSUME NEW c \in Calls, Resume(c)
      PROVE  ChannelInv'
  <2>1. /\ status[c] = "running" /\ answer[c] # "none" /\ UNCHANGED over
        /\ Advances(c) \/ Succeeds(c) \/ GivesUp(c) \/ Wins(c)
    BY <1>2, ResumeEffect
  <2>2. ~InChannel(c) /\ over[c] \in Connections
    BY <1>0, <2>1 DEF ChannelInv
  <2>3. ASSUME NEW req, NEW i, Send(c, over[c], req, i), UNCHANGED status
        PROVE  ChannelInv'
    BY <1>0, <2>1, <2>2, <2>3, SendKeepsChannels
  <2>4. CASE Advances(c) \/ Wins(c)
    BY <2>3, <2>4 DEF Advances, Wins
  <2>5. CASE Succeeds(c) \/ GivesUp(c)
    <3>1. /\ UNCHANGED <<channel, answer, over>>
          /\ \A d \in Calls \ {c} : status'[d] = status[d]
      BY <1>0, <2>1, <2>5 DEF Succeeds, GivesUp, End, TypeOK
    <3> QED
      BY <1>0, <2>2, <3>1 DEF ChannelInv, InChannel
  <2> QED
    BY <2>1, <2>4, <2>5
<1>3. ASSUME NEW n \in Connections, Execute(n)
      PROVE  ChannelInv'
  BY <1>0, <1>3, ExecuteEffect, ReplyKeepsChannels DEF HandsOut, Performs, Declines
<1>4. ASSUME NEW c \in Calls, Cancel(c)
      PROVE  ChannelInv'
  BY <1>0, <1>4 DEF Cancel, ChannelInv, InChannel, TypeOK
<1>5. ASSUME NEW n \in Connections, Crash(n)
      PROVE  ChannelInv'
  BY <1>0, <1>5, KilledKeepsChannels DEF Crash
<1>6. CASE UNCHANGED vars
  BY <1>0, <1>6 DEF vars, ChannelInv, InChannel
<1> QED
  BY <1>1, <1>2, <1>3, <1>4, <1>5, <1>6 DEF Next, Progress, Interrupt

\* What a call does by itself: begin, resume, be dropped.
CallStep(c) == \/ \E n \in Connections, u \in Releases : Start(c, n, u)
               \/ Resume(c) \/ Cancel(c)

\* No call gets a ticket by itself.
LEMMA CallTickets ==
    ASSUME TypeInv, ChannelInv, NEW c \in Calls, CallStep(c)
    PROVE  /\ UNCHANGED <<table, recorded, applied>>
           /\ \A d \in Calls : Ticket(d)' => Ticket(d) /\ at'[d] = at[d]
<1>0. TypeOK
  BY DEF TypeInv
<1>1. ASSUME NEW n \in Connections, NEW req \in {"create", "record"}, NEW i,
             Send(c, n, req, i), \A d \in Calls \ {c} : status'[d] = status[d]
      PROVE  \A d \in Calls : Ticket(d)' => Ticket(d) /\ at'[d] = at[d]
  <2>1. \A d \in Calls : InChannel(d)' <=> InChannel(d) \/ d = c
    BY <1>1, SendChannel
  <2>2. /\ request'[c] = req /\ answer'[c] = "none"
        /\ \A d \in Calls \ {c} : /\ request'[d] = request[d] /\ answer'[d] = answer[d]
                                 /\ at'[d] = at[d]
    BY <1>0, <1>1 DEF Send, TypeOK
  <2> QED
    BY <1>1, <2>1, <2>2 DEF Ticket
<1>2. ASSUME NEW n \in Connections, NEW u \in Releases, Start(c, n, u)
      PROVE  /\ UNCHANGED <<table, recorded, applied>>
             /\ \A d \in Calls : Ticket(d)' => Ticket(d) /\ at'[d] = at[d]
  BY <1>0, <1>1, <1>2 DEF Start, database, TypeOK
<1>3. CASE Resume(c)
  <2>1. /\ status[c] = "running" /\ answer[c] # "none" /\ over[c] \in Connections
        /\ UNCHANGED <<table, recorded, applied>>
        /\ Advances(c) \/ Succeeds(c) \/ GivesUp(c) \/ Wins(c)
    BY <1>3, ResumeEffect DEF TypeInv, RequestInv
  <2>2. CASE Advances(c)
    BY <1>1, <2>1, <2>2 DEF Advances
  <2>3. CASE Succeeds(c) \/ GivesUp(c)
    <3>1. /\ UNCHANGED <<channel, request, at, answer>>
          /\ \A d \in Calls : status'[d] = "running" => status[d] = "running"
      BY <1>0, <2>1, <2>3 DEF Succeeds, GivesUp, End, TypeOK
    <3> QED
      BY <2>1, <3>1 DEF Ticket, InChannel
  <2>4. CASE Wins(c)
    <3>1. \A d \in Calls : InChannel(d)' <=> InChannel(d) \/ d = c
      BY <2>1, <2>4, SendChannel DEF Wins
    <3>2. /\ Ticket(c) /\ UNCHANGED <<status, at>>
          /\ \A d \in Calls \ {c} : request'[d] = request[d] /\ answer'[d] = answer[d]
      BY <1>0, <2>1, <2>4 DEF Wins, Send, Ticket, TypeOK
    <3> QED
      BY <2>1, <3>1, <3>2 DEF Ticket
  <2> QED
    BY <2>1, <2>2, <2>3, <2>4
<1>4. CASE Cancel(c)
  BY <1>0, <1>4 DEF Cancel, Ticket, InChannel, TypeOK, database
<1> QED
  BY <1>2, <1>3, <1>4 DEF CallStep

\* The death of a process hands out no ticket.
LEMMA KilledTickets ==
    ASSUME TypeInv, ChannelInv, NEW n \in Connections, Killed(n)
    PROVE  \A d \in Calls : Ticket(d)' => Ticket(d) /\ at'[d] = at[d]
<1>1. /\ UNCHANGED <<request, at, answer>>
      /\ \A d \in Calls : status'[d] = "running" => status[d] = "running"
  BY DEF Killed
<1> QED
  BY <1>1, KilledKeepsChannels DEF Ticket

\* The ticket for a text is handed out once, when the text is recorded, and
\* used once, when the statement is executed.
LEMMA TicketStep == Inv /\ [Next]_vars => TicketInv' /\ AppliedAtMostOnce'
<1> SUFFICES ASSUME Inv, [Next]_vars
             PROVE  TicketInv' /\ AppliedAtMostOnce'
  OBVIOUS
<1>0. /\ TypeInv /\ TypeOK /\ ChannelInv /\ TicketInv /\ AppliedAtMostOnce
  BY DEF Inv, TypeInv
<1>1. ASSUME UNCHANGED <<recorded, applied>>,
             \A d \in Calls : Ticket(d)' => Ticket(d) /\ at'[d] = at[d]
      PROVE  TicketInv' /\ AppliedAtMostOnce'
  BY <1>0, <1>1 DEF TicketInv, AppliedAtMostOnce, Applied
<1>2. ASSUME NEW c \in Calls, CallStep(c)
      PROVE  TicketInv' /\ AppliedAtMostOnce'
  BY <1>0, <1>1, <1>2, CallTickets
<1>3. ASSUME NEW n \in Connections, Execute(n)
      PROVE  TicketInv' /\ AppliedAtMostOnce'
  <2> PICK c \in Calls : \/ HandsOut(n, c) \/ Performs(n, c)
                       \/ \E a \in {"err", "done", "unchanged"} : Declines(n, c, a)
    BY <1>3, ExecuteEffect
  <2>0. ASSUME NEW a, Reply(n, c, a)
        PROVE  /\ InChannel(c) /\ \A d \in Calls : InChannel(d)' <=> InChannel(d) /\ d # c
               /\ answer'[c] = a /\ \A d \in Calls \ {c} : answer'[d] = answer[d]
               /\ UNCHANGED <<status, request, at>>
    BY <1>0, <2>0, ReplyEffect
  <2>1. CASE HandsOut(n, c)
    <3>1. /\ recorded' = recorded \cup {Script[at[c]]} /\ Script[at[c]] \notin recorded
          /\ UNCHANGED applied /\ Reply(n, c, "changed")
      BY <2>1 DEF HandsOut
    <3>2. UNCHANGED <<Applied, at>> /\ \A d \in Calls \ {c} : Ticket(d)' => Ticket(d)
      BY <2>0, <3>1 DEF Ticket, Applied
    <3>3. \A d \in Calls \ {c} : Ticket(d)' => Script[at[d]] \in recorded \ Applied
      BY <1>0, <3>2 DEF TicketInv
    <3>4. Applied \subseteq recorded
      BY <1>0 DEF TicketInv
    <3>5. \A d, e \in Calls : Ticket(d)' /\ Ticket(e)' /\ Script[at[d]] = Script[at[e]] => d = e
      BY <1>0, <3>1, <3>2, <3>3 DEF TicketInv
    <3> QED
      BY <1>0, <3>1, <3>2, <3>3, <3>4, <3>5 DEF TicketInv, AppliedAtMostOnce
  <2>2. CASE Performs(n, c)
    <3>1. /\ request[c] = "apply" /\ Reply(n, c, "done") /\ UNCHANGED recorded
          /\ applied' = Append(applied, [statement |-> at[c], by |-> c])
      BY <2>2 DEF Performs
    <3>2. /\ Len(applied) \in Nat /\ Len(applied') = Len(applied) + 1
          /\ applied'[Len(applied) + 1].statement = at[c]
          /\ \A i \in 1..Len(applied) : applied'[i] = applied[i]
          /\ Applied' = Applied \cup {Script[at[c]]}
      BY <1>0, <3>1, AppliedGrows
    <3>3. Ticket(c) /\ UNCHANGED at /\ \A d \in Calls : Ticket(d)' => Ticket(d) /\ d # c
      BY <2>0, <3>1 DEF Ticket
    <3>4. Script[at[c]] \in recorded \ Applied
      BY <1>0, <3>3 DEF TicketInv
    <3>5. TicketInv'
      BY <1>0, <3>1, <3>2, <3>3, <3>4 DEF TicketInv
    <3>6. \A i \in 1..Len(applied) : Script[applied[i].statement] # Script[at[c]]
      BY <3>4 DEF Applied
    <3>7. \A i \in 1..Len(applied') : i = Len(applied) + 1 \/ i \in 1..Len(applied)
      BY <3>2
    <3>8. ASSUME NEW i \in 1..Len(applied'), NEW j \in 1..Len(applied'),
                 Script[applied'[i].statement] = Script[applied'[j].statement]
          PROVE  i = j
      BY <1>0, <3>2, <3>6, <3>7, <3>8 DEF AppliedAtMostOnce
    <3> QED
      BY <3>5, <3>8 DEF AppliedAtMostOnce
  <2>3. ASSUME NEW a \in {"err", "done", "unchanged"}, Declines(n, c, a)
        PROVE  TicketInv' /\ AppliedAtMostOnce'
    <3>1. Reply(n, c, a) /\ UNCHANGED <<recorded, applied>>
      BY <2>3 DEF Declines
    <3> QED
      BY <1>1, <2>0, <3>1 DEF Ticket
  <2> QED
    BY <2>1, <2>2, <2>3
<1>4. ASSUME NEW n \in Connections, Crash(n)
      PROVE  TicketInv' /\ AppliedAtMostOnce'
  BY <1>0, <1>1, <1>4, KilledTickets DEF Crash, database
<1>5. CASE UNCHANGED vars
  BY <1>1, <1>5 DEF vars, database, callVars, Ticket, InChannel
<1> QED
  BY <1>2, <1>3, <1>4, <1>5 DEF Next, Progress, Interrupt, CallStep

\* A step of a call leaves the other calls alone.
LEMMA CallOthers ==
    ASSUME TypeInv, NEW c \in Calls, CallStep(c), NEW d \in Calls \ {c}
    PROVE  /\ status'[d] = status[d] /\ over'[d] = over[d] /\ upto'[d] = upto[d]
           /\ request'[d] = request[d] /\ at'[d] = at[d] /\ answer'[d] = answer[d]
<1>0. TypeOK
  BY DEF TypeInv
<1>1. ASSUME NEW n \in Connections, NEW u \in Releases, Start(c, n, u)
      PROVE  /\ status'[d] = status[d] /\ over'[d] = over[d] /\ upto'[d] = upto[d]
             /\ request'[d] = request[d] /\ at'[d] = at[d] /\ answer'[d] = answer[d]
  BY <1>0, <1>1 DEF Start, Send, TypeOK
<1>2. CASE Resume(c)
  <2>1. /\ UNCHANGED <<over, upto>>
        /\ Advances(c) \/ Succeeds(c) \/ GivesUp(c) \/ Wins(c)
    BY <1>2, ResumeEffect
  <2>2. CASE Advances(c) \/ Wins(c)
    BY <1>0, <2>1, <2>2 DEF Advances, Wins, Send, TypeOK
  <2>3. CASE Succeeds(c) \/ GivesUp(c)
    BY <1>0, <2>1, <2>3 DEF Succeeds, GivesUp, End, TypeOK
  <2> QED
    BY <2>1, <2>2, <2>3
<1>3. CASE Cancel(c)
  BY <1>0, <1>3 DEF Cancel, TypeOK
<1> QED
  BY <1>1, <1>2, <1>3 DEF CallStep

\* By itself a call only moves past a statement that is not undecided.
LEMMA CallBehind ==
    ASSUME TypeInv, NEW R, NEW c \in Calls, CallStep(c), NEW d \in Calls,
           status'[d] \in {"running", "ok"}, status[d] \in {"running", "ok"} => Behind(d, R)
    PROVE  Behind(d, R)'
<1>0. TypeOK /\ RequestInv /\ at[c] \in Nat /\ upto[c] \in Nat
  BY ScriptType DEF TypeInv, TypeOK
<1>1. CASE d # c
  <2>1. /\ status'[d] = status[d] /\ at'[d] = at[d] /\ upto'[d] = upto[d]
        /\ request'[d] = request[d] /\ answer'[d] = answer[d]
    BY <1>1, CallOthers
  <2> QED
    BY <2>1 DEF Behind, Undecided
<1>2. ASSUME NEW n \in Connections, NEW u \in Releases, Start(c, n, u), d = c
      PROVE  Behind(d, R)'
  <2>1. at'[c] = 0 /\ status'[c] = "running"
    BY <1>0, <1>2 DEF Start, Send, TypeOK
  <2> QED
    BY <1>2, <2>1 DEF Behind
<1>3. CASE Resume(c) /\ d = c
  <2>1. /\ status[c] = "running" /\ UNCHANGED upto /\ Behind(c, R)
        /\ Advances(c) \/ Succeeds(c) \/ GivesUp(c) \/ Wins(c)
    BY <1>3, ResumeEffect
  <2>2. CASE Advances(c)
    <3>1. at'[c] = at[c] + 1 /\ status'[c] = "running" /\ Undecided(c)' /\ ~Undecided(c)
      BY <1>0, <2>1, <2>2 DEF Advances, Send, Undecided, TypeOK
    <3>2. \A i \in 1..(at[c] + 1) : i \in 1..at[c] \/ i = at[c] + 1
      BY <1>0
    <3> QED
      BY <1>3, <2>1, <3>1, <3>2 DEF Behind
  <2>3. CASE Succeeds(c)
    <3>1. /\ at[c] = upto[c] /\ ~Undecided(c) /\ status'[c] = "ok"
          /\ UNCHANGED <<at, request, answer>>
      BY <1>0, <2>3 DEF Succeeds, End, RequestInv, TypeOK
    <3> QED
      BY <1>3, <2>1, <3>1 DEF Behind, Undecided
  <2>4. CASE GivesUp(c)
    BY <1>0, <1>3, <2>4 DEF GivesUp, End, TypeOK
  <2>5. CASE Wins(c)
    <3>1. at'[c] = at[c] /\ status'[c] = "running" /\ ~Undecided(c)
      BY <1>0, <2>1, <2>5 DEF Wins, Send, Undecided, TypeOK
    <3> QED
      BY <1>3, <2>1, <3>1 DEF Behind
  <2> QED
    BY <2>1, <2>2, <2>3, <2>4, <2>5
<1>4. CASE Cancel(c) /\ d = c
  BY <1>0, <1>4 DEF Cancel, TypeOK
<1> QED
  BY <1>1, <1>2, <1>3, <1>4 DEF CallStep

\* The answer to a record request decides: the statement is recorded, or the
\* call was told Err.
LEMMA ReplyBehind ==
    ASSUME TypeInv, ChannelInv, NEW n \in Connections, NEW c \in Calls, NEW a, Reply(n, c, a),
           NEW R, NEW S, R \subseteq S,
           request[c] = "record" => a = "err" \/ Script[at[c]] \in S,
           NEW d \in Calls, Behind(d, R)
    PROVE  Behind(d, S)'
<1>1. /\ answer[c] = "none" /\ status[c] \in {"running", "stopped"}
      /\ answer'[c] = a /\ \A b \in Calls \ {c} : answer'[b] = answer[b]
      /\ UNCHANGED <<status, upto, request, at>>
  BY ReplyEffect
<1>2. CASE d # c
  BY <1>1, <1>2 DEF Behind, Undecided
<1>3. CASE d = c
  <2>1. \A i \in 1..at[c] : Script[i] \in R \/ (i = at[c] /\ request[c] = "record")
    BY <1>3 DEF Behind, Undecided
  <2>2. request[c] = "record" => Undecided(c)' \/ Script[at[c]] \in S
    BY <1>1 DEF Undecided
  <2> QED
    BY <1>1, <1>3, <2>1, <2>2 DEF Behind
<1> QED
  BY <1>2, <1>3

\* A call only moves past a statement that is recorded.
LEMMA LoopStep == Inv /\ [Next]_vars => LoopInv'
<1> SUFFICES ASSUME Inv, [Next]_vars
             PROVE  LoopInv'
  OBVIOUS
<1>0. /\ TypeInv /\ TypeOK /\ RequestInv /\ ChannelInv /\ LoopInv
  BY DEF Inv, TypeInv
<1>1. ASSUME UNCHANGED <<recorded, upto, request, at, answer>>,
             \A d \in Calls : status'[d] \in {"running", "ok"} => status'[d] = status[d]
      PROVE  LoopInv'
  BY <1>0, <1>1 DEF LoopInv, Behind, Undecided
<1>2. ASSUME NEW c \in Calls, CallStep(c)
      PROVE  LoopInv'
  <2>1. UNCHANGED recorded
    BY <1>0, <1>2, CallTickets
  <2>2. ASSUME NEW d \in Calls, status'[d] \in {"running", "ok"}
        PROVE  Behind(d, recorded)'
    <3>1. status[d] \in {"running", "ok"} => Behind(d, recorded)
      BY <1>0 DEF LoopInv
    <3>2. PICK R : R = recorded
      OBVIOUS
    <3>3. Behind(d, R)' /\ R = recorded'
      BY <1>0, <1>2, <2>1, <2>2, <3>1, <3>2, CallBehind
    <3> QED
      BY <3>3 DEF Behind
  <2> QED
    BY <2>2 DEF LoopInv, Behind
<1>3. ASSUME NEW n \in Connections, Execute(n)
      PROVE  LoopInv'
  <2> PICK c \in Calls : \/ HandsOut(n, c) \/ Performs(n, c)
                       \/ \E a \in {"err", "done", "unchanged"} : Declines(n, c, a)
    BY <1>3, ExecuteEffect
  <2>1. PICK a : /\ Reply(n, c, a) /\ recorded \subseteq recorded'
                 /\ request[c] = "record" => a = "err" \/ Script[at[c]] \in recorded'
    BY DEF HandsOut, Performs, Declines
  <2>2. UNCHANGED status
    BY <1>0, <2>1, ReplyEffect
  <2>3. ASSUME NEW d \in Calls, status'[d] \in {"running", "ok"}
        PROVE  Behind(d, recorded)'
    <3>1. PICK R, S : R = recorded /\ S = recorded'
      OBVIOUS
    <3>2. Behind(d, S)'
      BY <1>0, <2>1, <2>2, <2>3, <3>1, ReplyBehind DEF LoopInv
    <3> QED
      BY <3>1, <3>2 DEF Behind
  <2> QED
    BY <2>3 DEF LoopInv, Behind
<1>4. ASSUME NEW n \in Connections, Crash(n)
      PROVE  LoopInv'
  BY <1>0, <1>1, <1>4 DEF Crash, Killed, TypeOK, database
<1>5. CASE UNCHANGED vars
  BY <1>1, <1>5 DEF vars, database, callVars
<1> QED
  BY <1>2, <1>3, <1>4, <1>5 DEF Next, Progress, Interrupt, CallStep

\* By itself a call gives up no text it has to answer for.
LEMMA CallAccountable ==
    ASSUME TypeInv, NEW c \in Calls, CallStep(c), NEW d \in Calls, NEW t, Accountable(d, t)
    PROVE  Accountable(d, t)'
<1>0. TypeOK
  BY DEF TypeInv
<1>1. CASE d # c
  BY <1>1, CallOthers DEF Accountable, Winning
<1>2. ASSUME NEW n \in Connections, NEW u \in Releases, Start(c, n, u), d = c
      PROVE  FALSE
  BY <1>2 DEF Start, Accountable
<1>3. CASE Resume(c) /\ d = c
  <2>1. GivesUp(c) \/ Wins(c)
    BY <1>3, ResumeEffect DEF Advances, Succeeds, Accountable
  <2>2. CASE GivesUp(c)
    BY <1>0, <1>3, <2>2 DEF GivesUp, End, TypeOK, Accountable
  <2>3. CASE Wins(c)
    <3>1. /\ UNCHANGED status /\ at'[c] = at[c] /\ request'[c] = "apply" /\ answer'[c] = "none"
      BY <1>0, <2>3 DEF Wins, Send, TypeOK
    <3> QED
      BY <1>3, <3>1 DEF Accountable, Winning
  <2> QED
    BY <2>1, <2>2, <2>3
<1>4. CASE Cancel(c) /\ d = c
  <2>1. status'[c] = "stopped" /\ UNCHANGED <<request, at, answer>>
    BY <1>0, <1>4 DEF Cancel, TypeOK
  <2> QED
    BY <1>4, <2>1 DEF Accountable
<1> QED
  BY <1>1, <1>2, <1>3, <1>4 DEF CallStep

\* Neither does a call whose process dies: it is not running any more.
LEMMA KilledAccountable ==
    ASSUME NEW n \in Connections, Killed(n), NEW d \in Calls, NEW t, Accountable(d, t)
    PROVE  Accountable(d, t)'
<1>1. /\ UNCHANGED <<request, at, answer>>
      /\ status'[d] = status[d] \/ (status[d] = "running" /\ status'[d] = "stopped")
  BY DEF Killed
<1> QED
  BY <1>1 DEF Accountable, Winning

\* An answer relieves only the call whose statement was executed.
LEMMA ReplyAccountable ==
    ASSUME TypeInv, ChannelInv, NEW n \in Connections, NEW c \in Calls, NEW a, Reply(n, c, a),
           NEW d \in Calls, NEW t, Accountable(d, t), d # c \/ a = "err" \/ request[c] # "apply"
    PROVE  Accountable(d, t)'
<1>1. /\ answer[c] = "none" /\ status[c] \in {"running", "stopped"}
      /\ answer'[c] = a /\ \A b \in Calls \ {c} : answer'[b] = answer[b]
      /\ UNCHANGED <<status, request, at>>
  BY ReplyEffect
<1> QED
  BY <1>1 DEF Accountable, Winning

\* A recorded text that is not executed stays in somebody's hands: the call that
\* has its ticket, or the call that stopped there.
LEMMA LossStep == Inv /\ [Next]_vars => LossIsAccountedFor'
<1> SUFFICES ASSUME Inv, [Next]_vars
             PROVE  LossIsAccountedFor'
  OBVIOUS
<1>0. /\ TypeInv /\ TypeOK /\ RequestInv /\ ChannelInv /\ LossIsAccountedFor
  BY DEF Inv, TypeInv
<1>1. ASSUME recorded' \ Applied' \subseteq recorded \ Applied,
             \A d \in Calls : \A t \in recorded \ Applied : Accountable(d, t) => Accountable(d, t)'
      PROVE  LossIsAccountedFor'
  BY <1>0, <1>1 DEF LossIsAccountedFor
<1>2. ASSUME NEW c \in Calls, CallStep(c)
      PROVE  LossIsAccountedFor'
  <2>1. UNCHANGED <<recorded, applied>>
    BY <1>0, <1>2, CallTickets
  <2> QED
    BY <1>0, <1>1, <1>2, <2>1, CallAccountable DEF Applied
<1>3. ASSUME NEW n \in Connections, Execute(n)
      PROVE  LossIsAccountedFor'
  <2> PICK c \in Calls : \/ HandsOut(n, c) \/ Performs(n, c)
                       \/ \E a \in {"err", "done", "unchanged"} : Declines(n, c, a)
    BY <1>3, ExecuteEffect
  <2>0. ASSUME NEW a, Reply(n, c, a)
        PROVE  /\ answer[c] = "none" /\ status[c] \in {"running", "stopped"}
               /\ answer'[c] = a /\ \A d \in Calls \ {c} : answer'[d] = answer[d]
               /\ UNCHANGED <<status, request, at>>
    BY <1>0, <2>0, ReplyEffect
  <2>1. CASE HandsOut(n, c)
    <3>1. /\ request[c] = "record" /\ Reply(n, c, "changed") /\ UNCHANGED applied
          /\ recorded' = recorded \cup {Script[at[c]]}
      BY <2>1 DEF HandsOut
    <3>2. Accountable(c, Script[at[c]])'
      BY <1>0, <2>0, <3>1 DEF Accountable, Winning, RequestInv
    <3>3. \A d \in Calls : \A t \in recorded : Accountable(d, t) => Accountable(d, t)'
      BY <1>0, <3>1, ReplyAccountable
    <3>4. UNCHANGED <<Applied, at>>
      BY <2>0, <3>1 DEF Applied
    <3>5. ASSUME NEW t \in recorded' \ Applied'
          PROVE  \E d \in Calls : Accountable(d, t)'
      <4>1. CASE t = Script[at[c]]
        BY <3>2, <3>4, <4>1
      <4>2. CASE t \in recorded \ Applied
        BY <1>0, <3>3, <4>2 DEF LossIsAccountedFor
      <4> QED
        BY <3>1, <3>4, <4>1, <4>2
    <3> QED
      BY <3>5 DEF LossIsAccountedFor
  <2>2. CASE Performs(n, c)
    <3>1. /\ request[c] = "apply" /\ Reply(n, c, "done") /\ UNCHANGED recorded
          /\ applied' = Append(applied, [statement |-> at[c], by |-> c])
      BY <2>2 DEF Performs
    <3>2. Applied' = Applied \cup {Script[at[c]]}
      BY <1>0, <3>1, AppliedGrows
    <3>3. ASSUME NEW t \in recorded' \ Applied'
          PROVE  \E d \in Calls : Accountable(d, t)'
      <4>1. PICK d \in Calls : Accountable(d, t)
        BY <1>0, <3>1, <3>2 DEF LossIsAccountedFor
      <4>2. d # c
        BY <3>2, <4>1 DEF Accountable
      <4> QED
        BY <1>0, <3>1, <4>1, <4>2, ReplyAccountable
    <3> QED
      BY <3>3 DEF LossIsAccountedFor
  <2>3. ASSUME NEW a \in {"err", "done", "unchanged"}, Declines(n, c, a)
        PROVE  LossIsAccountedFor'
    <3>1. /\ Reply(n, c, a) /\ UNCHANGED <<recorded, applied>>
          /\ a = "err" \/ request[c] # "apply"
      BY <2>3 DEF Declines
    <3>2. recorded' \ Applied' \subseteq recorded \ Applied
      BY <3>1 DEF Applied
    <3> QED
      BY <1>0, <1>1, <3>1, <3>2, ReplyAccountable
  <2> QED
    BY <2>1, <2>2, <2>3
<1>4. ASSUME NEW n \in Connections, Crash(n)
      PROVE  LossIsAccountedFor'
  <2>1. Killed(n) /\ UNCHANGED <<recorded, applied>>
    BY <1>4 DEF Crash, database
  <2> QED
    BY <1>0, <1>1, <2>1, KilledAccountable DEF Applied
<1>5. CASE UNCHANGED vars
  BY <1>0, <1>5 DEF vars, database, callVars, LossIsAccountedFor, Accountable, Winning, Applied
<1> QED
  BY <1>2, <1>3, <1>4, <1>5 DEF Next, Progress, Interrupt, CallStep

-----------------------------------------------------------------------------
(* The theorems.                                                           *)

\* The program starts with nothing recorded, executed or asked.
LEMMA InitInv == Init => Inv
<1> SUFFICES ASSUME Init
             PROVE  Inv
  OBVIOUS
<1>1. /\ applied = <<>> /\ recorded = {} /\ Len(applied) = 0
      /\ \A c \in Calls : status[c] = "new" /\ request[c] = "none" /\ at[c] = 0 /\ upto[c] = 0
      /\ \A n \in Connections : Len(channel[n]) = 0
  BY DEF Init
<1>2. Len(Script) \in Nat /\ 0 \in 0..Len(Script)
  BY ScriptType
<1>3. table \in BOOLEAN /\ failed \in SUBSET Calls
  BY DEF Init
<1>4. TypeOK
  BY <1>1, <1>2, <1>3 DEF Init, TypeOK
<1>5. RequestInv /\ ChannelInv /\ LoopInv
  BY <1>1 DEF RequestInv, ChannelInv, LoopInv, Behind, InChannel
<1>6. Applied = {}
  BY <1>1 DEF Applied
<1>7. TicketInv /\ AppliedAtMostOnce /\ LossIsAccountedFor
  BY <1>1, <1>6 DEF TicketInv, Ticket, AppliedAtMostOnce, LossIsAccountedFor
<1> QED
  BY <1>4, <1>5, <1>7 DEF Inv, TypeInv

\* Every step, taken or stuttering, keeps the inductive invariant.
LEMMA InvStep == Inv /\ [Next]_vars => Inv'
<1>1. Inv /\ [Next]_vars => TypeInv'
  BY TypeStep DEF Inv
<1>2. Inv /\ [Next]_vars => ChannelInv'
  BY ChannelStep DEF Inv
<1> QED
  BY <1>1, <1>2, TicketStep, LoopStep, LossStep DEF Inv

\* The inductive invariant holds of every reachable state.
THEOREM Invariance == Spec => []Inv
<1>1. Init => Inv
  BY InitInv
<1>2. Inv /\ [Next]_vars => Inv'
  BY InvStep
<1> QED
  BY <1>1, <1>2, PTL DEF Spec

\* Every variable keeps its type: requests only name statements of the script.
THEOREM TypeCorrect == Spec => []TypeOK
<1>1. Inv => TypeOK
  BY DEF Inv, TypeInv
<1> QED
  BY <1>1, Invariance, PTL

\* No statement is executed twice by any number of calls at once.
THEOREM AtMostOnce == Spec => []AppliedAtMostOnce
<1>1. Inv => AppliedAtMostOnce
  BY DEF Inv
<1> QED
  BY <1>1, Invariance, PTL

\* After an Ok every statement of the release is recorded.
THEOREM OkRecorded == Spec => []OkMeansRecorded
<1>1. Inv => OkMeansRecorded
  <2> SUFFICES ASSUME Inv, NEW c \in Calls, status[c] = "ok", NEW i \in 1..upto[c]
               PROVE  Script[i] \in recorded
    BY DEF OkMeansRecorded, Release
  <2> QED
    BY DEF Inv, LoopInv, Behind
<1> QED
  BY <1>1, Invariance, PTL

\* A statement that is recorded and not executed is in some call's hands, or a
\* call that did not return Ok stopped there.
THEOREM LossAccounted == Spec => []LossIsAccountedFor
<1>1. Inv => LossIsAccountedFor
  BY DEF Inv
<1> QED
  BY <1>1, Invariance, PTL

\* If no call is running and none was told Err, cancelled or killed, the schema
\* of every release that was migrated is complete.
THEOREM AllOkComplete == Spec => []AllOkIsComplete
<1>1. OkMeansRecorded /\ LossIsAccountedFor => AllOkIsComplete
  <2> SUFFICES ASSUME OkMeansRecorded, LossIsAccountedFor,
                      \A c \in Calls : status[c] \in {"new", "ok"}
               PROVE  \A c \in Calls : status[c] = "ok" => Release(c) \subseteq Applied
    BY DEF AllOkIsComplete
  <2>1. recorded \subseteq Applied
    BY DEF LossIsAccountedFor, Accountable
  <2> QED
    BY <2>1 DEF OkMeansRecorded
<1> QED
  BY <1>1, OkRecorded, LossAccounted, PTL
=============================================================================
