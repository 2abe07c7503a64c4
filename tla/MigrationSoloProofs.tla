-------------------------- MODULE MigrationSoloProofs --------------------------
(***************************************************************************)
(* Programs that migrate one at a time, of any number of releases, retries *)
(* and restarts, over any connections.  The argument: requests that stay   *)
(* behind when a call is dropped are executed before the next call gets an *)
(* answer, so that the call that records a new statement finds everything  *)
(* before it recorded and nobody about to execute; statements are then     *)
(* executed in the order they are recorded in.                             *)
(*                                                                         *)
(* And, for calls that may run at once too, why a request is rejected.     *)
(***************************************************************************)
EXTENDS MigrationProofs

-----------------------------------------------------------------------------
(* The inductive invariant.                                                *)

Prefix(k) == {Script[j] : j \in 1..k}

\* Statements are recorded top to bottom, by whatever calls: a call asks for one
\* when those before it are recorded.
PrefixInv ==
    /\ \E k \in 0..Len(Script) : recorded = Prefix(k)
    /\ \A c \in Calls : request[c] \in {"record", "apply"} => Prefix(at[c] - 1) \subseteq recorded

\* A ticket is for the first of the statements with its text.
FirstInv ==
    /\ \A c \in Calls : Ticket(c) => First(at[c])
    /\ \A i \in 1..Len(applied) : First(applied[i].statement)

\* One call runs.  What dropped calls left in the channels is in one channel,
\* before the first request of the running call, which is alone from then on.
Begins(c) == request[c] = "create" /\ answer[c] = "none"
Alive(c) == status[c] = "running" \/ InChannel(c)
SoloInv ==
    solo =>
        /\ \A c, d \in Calls : status[c] = "running" /\ status[d] = "running" => c = d
        /\ \A c, d \in Calls : Alive(c) /\ Alive(d) => over[c] = over[d]
        /\ \A c \in Calls : status[c] = "running" /\ ~Begins(c) =>
               \A d \in Calls \ {c} : ~InChannel(d)
        /\ \A n \in Connections : \A k \in 1..Len(channel[n]) :
               /\ k > 1 => request[channel[n][k]] = "create"
               /\ status[channel[n][k]] = "running" => k = Len(channel[n])

\* The ticket is for a statement behind all those that were executed.
OrderInv ==
    solo => /\ InOrder
            /\ \A c \in Calls : Ticket(c) =>
                   \A i \in 1..Len(applied) : applied[i].statement < at[c]

\* A call that is past the creation of its table has it, or failed to create it.
TableInv ==
    \A c \in Calls : request[c] # "none" /\ ~Begins(c) => table \/ c \in failed

SInv == Inv /\ PrefixInv /\ FirstInv /\ SoloInv /\ OrderInv /\ TableInv

-----------------------------------------------------------------------------
(* The steps of the inductive invariant.                                   *)

\* Statements are recorded top to bottom.
LEMMA PrefixStep == Inv /\ PrefixInv /\ [Next]_vars => PrefixInv'
<1> SUFFICES ASSUME Inv, PrefixInv, [Next]_vars
             PROVE  PrefixInv'
  OBVIOUS
<1>0. /\ TypeInv /\ TypeOK /\ RequestInv /\ ChannelInv /\ LoopInv
      /\ \A c \in Calls : at[c] \in 0..Len(Script) /\ Len(Script) \in Nat
  BY ScriptType DEF Inv, TypeInv, TypeOK
<1>1. ASSUME UNCHANGED recorded, NEW c \in Calls,
             \A d \in Calls \ {c} : request'[d] = request[d] /\ at'[d] = at[d],
             request'[c] \in {"record", "apply"} => Prefix(at'[c] - 1) \subseteq recorded
      PROVE  PrefixInv'
  BY <1>1 DEF PrefixInv
<1>2. ASSUME NEW c \in Calls, CallStep(c)
      PROVE  PrefixInv'
  <2>1. /\ UNCHANGED recorded
        /\ \A d \in Calls \ {c} : request'[d] = request[d] /\ at'[d] = at[d]
    BY <1>0, <1>2, CallOthers, CallTickets
  <2>2. ASSUME NEW n \in Connections, NEW u \in Releases, Start(c, n, u)
        PROVE  PrefixInv'
    BY <1>0, <1>1, <2>1, <2>2 DEF Start, Send, TypeOK
  <2>3. CASE Resume(c)
    <3>1. status[c] = "running" /\ (Advances(c) \/ Succeeds(c) \/ GivesUp(c) \/ Wins(c))
      BY <2>3, ResumeEffect
    <3>2. CASE Advances(c)
      <4>1. at'[c] - 1 = at[c]
        BY <1>0, <3>2 DEF Advances, Send, TypeOK
      <4>2. Prefix(at[c]) \subseteq recorded
        BY <1>0, <3>1, <3>2 DEF LoopInv, Behind, Prefix, Advances
      <4> QED
        BY <1>1, <2>1, <4>1, <4>2
    <3>3. CASE Succeeds(c) \/ GivesUp(c)
      BY <1>1, <2>1, <3>3 DEF Succeeds, GivesUp, End, PrefixInv
    <3>4. CASE Wins(c)
      BY <1>0, <1>1, <2>1, <3>4 DEF Wins, Send, PrefixInv, TypeOK
    <3> QED
      BY <3>1, <3>2, <3>3, <3>4
  <2>4. CASE Cancel(c)
    BY <2>1, <2>4 DEF Cancel, PrefixInv
  <2> QED
    BY <1>2, <2>2, <2>3, <2>4 DEF CallStep
<1>3. ASSUME NEW n \in Connections, Execute(n)
      PROVE  PrefixInv'
  <2> PICK c \in Calls : \/ HandsOut(n, c) \/ Performs(n, c)
                       \/ \E a \in {"err", "done", "unchanged"} : Declines(n, c, a)
    BY <1>3, ExecuteEffect
  <2>1. UNCHANGED <<request, at>>
    BY <1>0, ReplyEffect DEF HandsOut, Performs, Declines
  <2>2. CASE UNCHANGED recorded
    BY <2>1, <2>2 DEF PrefixInv
  <2>3. CASE HandsOut(n, c)
    <3>1. /\ request[c] = "record" /\ Script[at[c]] \notin recorded
          /\ recorded' = recorded \cup {Script[at[c]]}
      BY <2>3 DEF HandsOut
    <3>2. PICK k \in 0..Len(Script) : recorded = Prefix(k)
      BY DEF PrefixInv
    <3>3. at[c] \in 1..Len(Script) /\ Prefix(at[c] - 1) \subseteq recorded
      BY <1>0, <3>1 DEF RequestInv, PrefixInv, Statements
    <3>4. k <= at[c] - 1
      <4>1. at[c] \notin 1..k
        BY <3>1, <3>2 DEF Prefix
      <4> QED
        BY <1>0, <3>2, <3>3, <4>1
    <3>5. Prefix(k) \subseteq Prefix(at[c] - 1)
      BY <1>0, <3>3, <3>4 DEF Prefix
    <3>6. recorded' = Prefix(at[c])
      <4>1. 1..at[c] = 1..(at[c] - 1) \cup {at[c]}
        BY <1>0, <3>3
      <4>2. Prefix(at[c]) = Prefix(at[c] - 1) \cup {Script[at[c]]}
        BY <4>1 DEF Prefix
      <4> QED
        BY <3>1, <3>2, <3>3, <3>5, <4>2
    <3>7. at[c] \in 0..Len(Script)
      BY <1>0
    <3> QED
      BY <2>1, <3>1, <3>6, <3>7 DEF PrefixInv, Prefix
  <2> QED
    BY <2>2, <2>3 DEF Performs, Declines
<1>4. ASSUME NEW n \in Connections, Crash(n)
      PROVE  PrefixInv'
  BY <1>4 DEF Crash, Killed, database, PrefixInv
<1>5. CASE UNCHANGED vars
  BY <1>5 DEF vars, PrefixInv
<1> QED
  BY <1>2, <1>3, <1>4, <1>5 DEF Next, Progress, Interrupt, CallStep

\* A text is recorded for the first statement it is the text of.
LEMMA FirstStep == Inv /\ PrefixInv /\ FirstInv /\ [Next]_vars => FirstInv'
<1> SUFFICES ASSUME Inv, PrefixInv, FirstInv, [Next]_vars
             PROVE  FirstInv'
  OBVIOUS
<1>0. TypeInv /\ TypeOK /\ RequestInv /\ ChannelInv
  BY DEF Inv, TypeInv
<1>1. ASSUME UNCHANGED applied, \A d \in Calls : Ticket(d)' => Ticket(d) /\ at'[d] = at[d]
      PROVE  FirstInv'
  BY <1>1 DEF FirstInv
<1>2. ASSUME NEW c \in Calls, CallStep(c)
      PROVE  FirstInv'
  BY <1>0, <1>1, <1>2, CallTickets
<1>3. ASSUME NEW n \in Connections, Execute(n)
      PROVE  FirstInv'
  <2> PICK c \in Calls : \/ HandsOut(n, c) \/ Performs(n, c)
                       \/ \E a \in {"err", "done", "unchanged"} : Declines(n, c, a)
    BY <1>3, ExecuteEffect
  <2>0. ASSUME NEW a, Reply(n, c, a)
        PROVE  /\ UNCHANGED at /\ \A d \in Calls \ {c} : Ticket(d)' => Ticket(d)
               /\ a # "changed" => ~Ticket(c)'
               /\ request[c] = "apply" => Ticket(c)
    BY <1>0, <2>0, ReplyEffect DEF Ticket
  <2>1. CASE HandsOut(n, c)
    <3>1. /\ request[c] = "record" /\ Reply(n, c, "changed") /\ UNCHANGED applied
          /\ Script[at[c]] \notin recorded
      BY <2>1 DEF HandsOut
    <3>2. First(at[c])
      BY <3>1 DEF PrefixInv, Prefix, First
    <3> QED
      BY <2>0, <3>1, <3>2 DEF FirstInv
  <2>2. CASE Performs(n, c)
    <3>1. /\ request[c] = "apply" /\ Reply(n, c, "done")
          /\ applied' = Append(applied, [statement |-> at[c], by |-> c])
      BY <2>2 DEF Performs
    <3>2. /\ Len(applied) \in Nat /\ Len(applied') = Len(applied) + 1
          /\ applied'[Len(applied) + 1].statement = at[c]
          /\ \A i \in 1..Len(applied) : applied'[i] = applied[i]
      BY <1>0, <3>1, AppliedGrows
    <3>3. \A i \in 1..Len(applied') : i = Len(applied) + 1 \/ i \in 1..Len(applied)
      BY <3>2
    <3> QED
      BY <2>0, <3>1, <3>2, <3>3 DEF FirstInv
  <2>3. ASSUME NEW a \in {"err", "done", "unchanged"}, Declines(n, c, a)
        PROVE  FirstInv'
    BY <1>1, <2>0, <2>3 DEF Declines
  <2> QED
    BY <2>1, <2>2, <2>3
<1>4. ASSUME NEW n \in Connections, Crash(n)
      PROVE  FirstInv'
  BY <1>0, <1>1, <1>4, KilledTickets DEF Crash, database
<1>5. CASE UNCHANGED vars
  BY <1>1, <1>5 DEF vars, Ticket, InChannel
<1> QED
  BY <1>2, <1>3, <1>4, <1>5 DEF Next, Progress, Interrupt, CallStep

\* Programs that migrate one at a time leave the channels as SoloInv says.
LEMMA SoloStep == Inv /\ SoloInv /\ [Next]_vars => SoloInv'
<1> SUFFICES ASSUME Inv, SoloInv, [Next]_vars, solo'
             PROVE  SoloInv'
  BY DEF SoloInv
<1>0. /\ TypeInv /\ TypeOK /\ RequestInv /\ ChannelInv
      /\ \A m \in Connections : Len(channel[m]) \in Nat
      /\ \A m \in Connections : \A k \in 1..Len(channel[m]) :
             channel[m][k] \in Calls /\ over[channel[m][k]] = m /\ InChannel(channel[m][k])
  BY ElementOfSeq, LenProperties DEF Inv, TypeInv, TypeOK, ChannelInv, InChannel
\* Steps that only take something away.
<1>1. ASSUME solo, UNCHANGED <<over, request, answer>>,
             \A c \in Calls : status'[c] = "running" => status[c] = "running",
             \A c \in Calls : InChannel(c)' => InChannel(c),
             \A m \in Connections : channel'[m] = channel[m] \/ Len(channel'[m]) = 0
      PROVE  SoloInv'
  <2>1. ASSUME NEW m \in Connections, NEW k \in 1..Len(channel'[m])
        PROVE  /\ k > 1 => request'[channel'[m][k]] = "create"
               /\ status'[channel'[m][k]] = "running" => k = Len(channel'[m])
    <3>1. channel'[m] = channel[m]
      BY <1>1
    <3> QED
      BY <1>0, <1>1, <3>1 DEF SoloInv
  <2>2. \A c \in Calls : (Alive(c)' => Alive(c)) /\ (Begins(c)' <=> Begins(c))
    BY <1>1 DEF Alive, Begins
  <2> QED
    BY <1>1, <2>1, <2>2 DEF SoloInv
<1>2. ASSUME NEW c \in Calls, NEW n \in Connections, NEW u \in Releases, Start(c, n, u)
      PROVE  SoloInv'
  <2>1. /\ solo /\ status[c] = "new" /\ Send(c, n, "create", 0)
        /\ \A d \in Calls : status[d] # "running"
        /\ \A m \in Connections \ {n} : channel[m] = <<>>
    BY <1>2 DEF Start, Alone
  <2>2. /\ status'[c] = "running" /\ over'[c] = n
        /\ request'[c] = "create" /\ answer'[c] = "none"
        /\ \A d \in Calls \ {c} : /\ status'[d] = status[d] /\ over'[d] = over[d]
                                 /\ request'[d] = request[d]
    BY <1>0, <1>2 DEF Start, Send, TypeOK
  <2>3. /\ \A m \in Connections \ {n} : channel'[m] = channel[m]
        /\ Len(channel'[n]) = Len(channel[n]) + 1 /\ channel'[n][Len(channel[n]) + 1] = c
        /\ \A k \in 1..Len(channel[n]) : channel'[n][k] = channel[n][k]
        /\ \A d \in Calls : InChannel(d)' <=> InChannel(d) \/ d = c
    BY <1>0, <2>1, SendChannel
  <2>4. ~InChannel(c) /\ \A d \in Calls : InChannel(d) => over[d] = n
    BY <1>0, <2>1 DEF ChannelInv, InChannel
  <2>5. \A d \in Calls : Alive(d)' => over'[d] = n
    BY <2>1, <2>2, <2>3, <2>4 DEF Alive
  <2>6. ASSUME NEW m \in Connections, NEW k \in 1..Len(channel'[m])
        PROVE  /\ k > 1 => request'[channel'[m][k]] = "create"
               /\ status'[channel'[m][k]] = "running" => k = Len(channel'[m])
    <3>1. m = n
      BY <2>1, <2>3
    <3>2. CASE k = Len(channel[n]) + 1
      BY <2>2, <2>3, <3>1, <3>2
    <3>3. CASE k \in 1..Len(channel[n])
      <4>1. channel'[m][k] = channel[n][k] /\ channel[n][k] \in Calls \ {c}
        BY <1>0, <2>3, <2>4, <3>1, <3>3
      <4> QED
        BY <2>1, <2>2, <3>1, <3>3, <4>1 DEF SoloInv
    <3> QED
      BY <1>0, <2>3, <3>1, <3>2, <3>3
  <2>7. \A d \in Calls : status'[d] = "running" => d = c
    BY <2>1, <2>2
  <2>8. Begins(c)'
    BY <2>2 DEF Begins
  <2> QED
    BY <2>5, <2>6, <2>7, <2>8 DEF SoloInv
<1>3. ASSUME NEW c \in Calls, Resume(c)
      PROVE  SoloInv'
  <2>1. /\ status[c] = "running" /\ answer[c] # "none" /\ UNCHANGED over
        /\ over[c] \in Connections
        /\ Advances(c) \/ Succeeds(c) \/ GivesUp(c) \/ Wins(c)
    BY <1>0, <1>3, ResumeEffect DEF RequestInv
  <2>2. solo
    BY <1>3 DEF Resume, AfterCreate, AfterRecord, AfterApply
  <2>3. \A d \in Calls : ~InChannel(d)
    BY <1>0, <2>1, <2>2 DEF SoloInv, Begins, ChannelInv
  <2>4. \A m \in Connections : Len(channel[m]) = 0
    BY <1>0, <2>3
  <2>5. CASE Advances(c) \/ Wins(c)
    <3>1. PICK req, i : Send(c, over[c], req, i) /\ UNCHANGED status
      BY <2>5 DEF Advances, Wins
    <3>2. /\ \A m \in Connections \ {over[c]} : channel'[m] = channel[m]
          /\ Len(channel'[over[c]]) = Len(channel[over[c]]) + 1
          /\ \A d \in Calls : InChannel(d)' <=> InChannel(d) \/ d = c
      BY <1>0, <2>1, <3>1, SendChannel
    <3>3. \A d \in Calls : Alive(d)' \/ status'[d] = "running" \/ InChannel(d)' => d = c
      BY <2>1, <2>2, <2>3, <3>1, <3>2 DEF Alive, SoloInv
    <3>4. ASSUME NEW m \in Connections, NEW k \in 1..Len(channel'[m])
          PROVE  k = 1 /\ k = Len(channel'[m])
      <4>1. CASE m = over[c]
        BY <2>1, <2>4, <3>2, <4>1
      <4>2. CASE m # over[c]
        BY <2>4, <3>2, <4>2
      <4> QED
        BY <4>1, <4>2
    <3> QED
      BY <3>3, <3>4 DEF SoloInv
  <2>6. CASE Succeeds(c) \/ GivesUp(c)
    <3>1. PICK st \in {"ok", "err"} : status' = [status EXCEPT ![c] = st] /\ UNCHANGED channel
      BY <2>6 DEF Succeeds, GivesUp, End
    <3>2. \A d \in Calls \ {c} : status[d] # "running"
      BY <2>1, <2>2 DEF SoloInv
    <3>3. \A d \in Calls : status'[d] # "running"
      BY <1>0, <3>1, <3>2 DEF TypeOK
    <3> QED
      BY <2>3, <2>4, <3>1, <3>3 DEF SoloInv, Alive, InChannel
  <2> QED
    BY <2>1, <2>5, <2>6
<1>4. ASSUME NEW c \in Calls, Cancel(c)
      PROVE  SoloInv'
  BY <1>0, <1>1, <1>4 DEF Cancel, InChannel, TypeOK
<1>5. ASSUME NEW n \in Connections, Crash(n)
      PROVE  SoloInv'
  <2>1. \A c \in Calls : InChannel(c)' => InChannel(c)
    BY <1>0, <1>5, KilledKeepsChannels DEF Crash
  <2>2. \A m \in Connections : channel'[m] = channel[m] \/ Len(channel'[m]) = 0
    BY <1>0, <1>5 DEF Crash, Killed, TypeOK
  <2> QED
    BY <1>1, <1>5, <2>1, <2>2 DEF Crash, Killed
<1>6. ASSUME NEW n \in Connections, Execute(n)
      PROVE  SoloInv'
  <2>0. solo /\ \E c \in Calls : \E a : Reply(n, c, a)
    BY <1>6 DEF Execute, ExecuteCreate, ExecuteRecord, ExecuteApply, Fail, Refused
  <2> PICK c \in Calls : \E a : Reply(n, c, a)
    BY <2>0
  <2> PICK a : Reply(n, c, a)
    OBVIOUS
  <2>1. /\ InChannel(c) /\ over[c] = n
        /\ \A m \in Connections \ {n} : channel'[m] = channel[m]
        /\ Len(channel'[n]) \in Nat /\ Len(channel[n]) = Len(channel'[n]) + 1
        /\ \A k \in 1..Len(channel'[n]) : channel'[n][k] = channel[n][k + 1]
        /\ \A d \in Calls : InChannel(d)' <=> InChannel(d) /\ d # c
    BY <1>0, <2>0, ReplyChannel
  <2>2. /\ UNCHANGED <<status, over, request>>
        /\ \A d \in Calls \ {c} : answer'[d] = answer[d]
    BY <1>0, <2>0, ReplyEffect
  <2>3. c = channel[n][1]
    BY <1>0, <2>0 DEF Reply, TypeOK
  <2>4. ASSUME NEW m \in Connections, NEW k \in 1..Len(channel'[m])
        PROVE  /\ k > 1 => request'[channel'[m][k]] = "create"
               /\ status'[channel'[m][k]] = "running" => k = Len(channel'[m])
    <3>1. CASE m = n
      <4>1. k + 1 \in 1..Len(channel[n]) /\ channel'[n][k] = channel[n][k + 1]
        BY <2>1, <3>1
      <4> QED
        BY <2>0, <2>1, <2>2, <3>1, <4>1 DEF SoloInv
    <3>2. CASE m # n
      BY <2>0, <2>1, <2>2, <3>2 DEF SoloInv
    <3> QED
      BY <3>1, <3>2
  <2>5. ASSUME NEW e \in Calls, status'[e] = "running", ~Begins(e)', NEW d \in Calls \ {e}
        PROVE  ~InChannel(d)'
    <3>1. CASE e # c
      BY <2>0, <2>1, <2>2, <2>5, <3>1 DEF SoloInv, Begins
    <3>2. CASE e = c
      <4>1. Len(channel'[n]) = 0
        BY <1>0, <2>0, <2>1, <2>2, <2>3, <2>5, <3>2 DEF SoloInv
      <4>2. InChannel(d) => over[d] = n
        BY <2>0, <2>1 DEF SoloInv, Alive
      <4>3. CASE InChannel(d)'
        <5>1. InChannel(d) /\ over[d] = n
          BY <2>1, <4>2, <4>3
        <5>2. PICK m \in Connections : \E k \in 1..Len(channel'[m]) : channel'[m][k] = d
          BY <4>3 DEF InChannel
        <5>3. m # n
          BY <4>1, <5>2
        <5>4. channel'[m] = channel[m]
          BY <2>1, <5>3
        <5>5. PICK k \in 1..Len(channel[m]) : channel[m][k] = d
          BY <5>2, <5>4
        <5>6. over[d] = m
          BY <1>0, <5>5 DEF ChannelInv
        <5> QED
          BY <5>1, <5>3, <5>6
      <4> QED
        BY <4>3
    <3> QED
      BY <3>1, <3>2
  <2>6. \A d \in Calls : Alive(d)' => Alive(d)
    BY <2>1, <2>2 DEF Alive
  <2> QED
    BY <2>0, <2>2, <2>4, <2>5, <2>6 DEF SoloInv
<1>7. CASE UNCHANGED vars
  BY <1>7 DEF vars, SoloInv, Alive, Begins, InChannel
<1> QED
  BY <1>2, <1>3, <1>4, <1>5, <1>6, <1>7 DEF Next, Progress, Interrupt

\* While a connection serves one call, no other has a ticket.
LEMMA ServedHasTheTicket ==
    ASSUME Inv, SoloInv, solo, NEW n \in Connections, NEW c \in Calls, NEW a, Reply(n, c, a),
           NEW d \in Calls, Ticket(d)
    PROVE  d = c
<1>0. TypeInv /\ TypeOK /\ ChannelInv
  BY DEF Inv, TypeInv
<1>1. InChannel(c) /\ over[c] = n /\ c = channel[n][1]
  <2>1. InChannel(c) /\ over[c] = n
    BY <1>0, ReplyChannel
  <2>2. c = channel[n][1]
    BY <1>0 DEF Reply, TypeOK
  <2> QED
    BY <2>1, <2>2
<1>2. CASE status[d] = "running" /\ request[d] = "record"
  BY <1>1, <1>2 DEF SoloInv, Begins
<1>3. CASE request[d] = "apply" /\ InChannel(d)
  <2>1. over[d] = n
    BY <1>1, <1>3 DEF SoloInv, Alive
  <2>2. PICK m \in Connections : \E k \in 1..Len(channel[m]) : channel[m][k] = d
    BY <1>3 DEF InChannel
  <2>3. PICK k \in 1..Len(channel[n]) : channel[n][k] = d
    BY <1>0, <2>1, <2>2 DEF ChannelInv
  <2>4. ~(k > 1)
    BY <1>3, <2>3 DEF SoloInv
  <2>5. k = 1
    BY <1>0, <2>4
  <2> QED
    BY <1>1, <2>3, <2>5
<1> QED
  BY <1>2, <1>3 DEF Ticket

\* One program at a time executes the statements in the order of the script.
LEMMA OrderStep ==
    Inv /\ PrefixInv /\ FirstInv /\ SoloInv /\ OrderInv /\ [Next]_vars => OrderInv'
<1> SUFFICES ASSUME Inv, PrefixInv, FirstInv, SoloInv, OrderInv, [Next]_vars, solo'
             PROVE  OrderInv'
  BY DEF OrderInv
<1>0. /\ TypeInv /\ TypeOK /\ RequestInv /\ ChannelInv /\ TicketInv
      /\ \A c \in Calls : at[c] \in Nat
      /\ \A i \in 1..Len(applied) : applied[i].statement \in Statements
  <2>1. TypeInv /\ TypeOK /\ RequestInv /\ ChannelInv /\ TicketInv
    BY DEF Inv, TypeInv
  <2>2. \A i \in 1..Len(applied) : applied[i] \in [statement : Statements, by : Calls]
    BY <2>1, ElementOfSeq DEF TypeOK
  <2> QED
    BY <2>1, <2>2, ScriptType DEF TypeOK
<1>1. ASSUME solo, UNCHANGED applied, \A d \in Calls : Ticket(d)' => Ticket(d) /\ at'[d] = at[d]
      PROVE  OrderInv'
  BY <1>1 DEF OrderInv, InOrder
<1>2. ASSUME NEW c \in Calls, CallStep(c)
      PROVE  OrderInv'
  <2>1. solo
    BY <1>2 DEF CallStep, Start, Resume, AfterCreate, AfterRecord, AfterApply, Cancel
  <2> QED
    BY <1>0, <1>1, <1>2, <2>1, CallTickets
<1>3. ASSUME NEW n \in Connections, Execute(n)
      PROVE  OrderInv'
  <2> PICK c \in Calls : \/ HandsOut(n, c) \/ Performs(n, c)
                       \/ \E a \in {"err", "done", "unchanged"} : Declines(n, c, a)
    BY <1>3, ExecuteEffect
  <2>0. solo
    BY <1>3 DEF Execute, ExecuteCreate, ExecuteRecord, ExecuteApply, Fail, Refused
  <2>1. ASSUME NEW a, Reply(n, c, a)
        PROVE  /\ UNCHANGED at /\ \A d \in Calls : Ticket(d) => d = c
               /\ \A d \in Calls : Ticket(d)' => d = c
               /\ a # "changed" => ~Ticket(c)'
               /\ request[c] = "apply" => Ticket(c)
    <3>1. \A d \in Calls : Ticket(d) => d = c
      BY <2>0, <2>1, ServedHasTheTicket
    <3>2. /\ UNCHANGED at /\ \A d \in Calls \ {c} : Ticket(d)' => Ticket(d)
          /\ a # "changed" => ~Ticket(c)'
          /\ request[c] = "apply" => Ticket(c)
      BY <1>0, <2>1, ReplyEffect DEF Ticket
    <3> QED
      BY <3>1, <3>2
  <2>2. CASE HandsOut(n, c)
    <3>1. /\ request[c] = "record" /\ Reply(n, c, "changed") /\ UNCHANGED applied
          /\ Script[at[c]] \notin recorded
      BY <2>2 DEF HandsOut
    <3>2. ASSUME NEW i \in 1..Len(applied)
          PROVE  applied[i].statement < at[c]
      <4> DEFINE s == applied[i].statement
      <4>1. s \in Nat /\ at[c] \in Nat /\ at[c] >= 1 /\ First(s)
        BY <1>0, <3>1, ScriptType DEF FirstInv, RequestInv, Statements
      <4>2. Script[s] \in recorded
        BY <1>0 DEF TicketInv, Applied
      <4>3. PICK k \in 0..Len(Script) : recorded = Prefix(k)
        BY DEF PrefixInv
      <4>4. PICK j \in 1..k : Script[j] = Script[s]
        BY <4>2, <4>3 DEF Prefix
      <4>5. ~(j < s)
        <5>1. j < s => j \in 1..(s - 1)
          BY <4>1, <4>3
        <5> QED
          BY <4>1, <4>4, <5>1 DEF First
      <4>6. ~(at[c] <= k)
        BY <3>1, <4>1, <4>3 DEF Prefix
      <4> QED
        BY <4>1, <4>3, <4>5, <4>6
    <3> QED
      BY <2>0, <2>1, <3>1, <3>2 DEF OrderInv, InOrder
  <2>3. CASE Performs(n, c)
    <3>1. /\ request[c] = "apply" /\ Reply(n, c, "done")
          /\ applied' = Append(applied, [statement |-> at[c], by |-> c])
      BY <2>3 DEF Performs
    <3>2. /\ Len(applied) \in Nat /\ Len(applied') = Len(applied) + 1
          /\ applied'[Len(applied) + 1].statement = at[c]
          /\ \A i \in 1..Len(applied) : applied'[i] = applied[i]
      BY <1>0, <3>1, AppliedGrows
    <3>3. \A d \in Calls : ~Ticket(d)'
      BY <2>1, <3>1
    <3>4. \A i \in 1..Len(applied) : applied[i].statement < at[c]
      BY <2>0, <2>1, <3>1 DEF OrderInv
    <3>5. ASSUME NEW i \in 1..Len(applied'), NEW j \in 1..Len(applied'), i < j
          PROVE  applied'[i].statement < applied'[j].statement
      <4>1. i \in 1..Len(applied) /\ (j \in 1..Len(applied) \/ j = Len(applied) + 1)
        BY <3>2, <3>5
      <4> QED
        BY <2>0, <3>2, <3>4, <3>5, <4>1 DEF OrderInv, InOrder
    <3> QED
      BY <3>3, <3>5 DEF OrderInv, InOrder
  <2>4. ASSUME NEW a \in {"err", "done", "unchanged"}, Declines(n, c, a)
        PROVE  OrderInv'
    <3>1. Reply(n, c, a) /\ UNCHANGED applied
      BY <2>4 DEF Declines
    <3>2. \A d \in Calls : ~Ticket(d)'
      BY <2>1, <3>1
    <3> QED
      BY <1>1, <2>0, <3>1, <3>2
  <2> QED
    BY <2>2, <2>3, <2>4
<1>4. ASSUME NEW n \in Connections, Crash(n)
      PROVE  OrderInv'
  <2>1. Killed(n) /\ UNCHANGED applied /\ solo
    BY <1>4 DEF Crash, Killed, database
  <2> QED
    BY <1>0, <1>1, <2>1, KilledTickets
<1>5. CASE UNCHANGED vars
  BY <1>1, <1>5 DEF vars, Ticket, InChannel
<1> QED
  BY <1>2, <1>3, <1>4, <1>5 DEF Next, Progress, Interrupt, CallStep

\* The table is there for every call that was told so.
LEMMA TableStep == Inv /\ TableInv /\ [Next]_vars => TableInv'
<1> SUFFICES ASSUME Inv, TableInv, [Next]_vars
             PROVE  TableInv'
  OBVIOUS
<1>0. TypeInv /\ TypeOK /\ ChannelInv
  BY DEF Inv, TypeInv
<1>1. ASSUME NEW c \in Calls, NEW n \in Connections, NEW u \in Releases, Start(c, n, u)
      PROVE  TableInv'
  <2>1. /\ Begins(c)' /\ UNCHANGED <<table, failed>>
        /\ \A d \in Calls \ {c} : request'[d] = request[d] /\ answer'[d] = answer[d]
    BY <1>0, <1>1 DEF Start, Send, Begins, TypeOK, database
  <2> QED
    BY <2>1 DEF TableInv, Begins
<1>2. ASSUME NEW c \in Calls, Resume(c)
      PROVE  TableInv'
  <2>1. request[c] # "none" /\ ~Begins(c) /\ UNCHANGED <<table, failed>>
    BY <1>2 DEF Resume, AfterCreate, AfterRecord, AfterApply, Answered, Begins, database
  <2>2. \A d \in Calls \ {c} : request'[d] = request[d] /\ answer'[d] = answer[d]
    BY <1>0, <1>2, CallOthers DEF CallStep
  <2> QED
    BY <2>1, <2>2 DEF TableInv, Begins
<1>3. ASSUME NEW n \in Connections, Execute(n)
      PROVE  TableInv'
  <2>0. PICK c \in Calls :
            ExecuteCreate(n, c) \/ ExecuteRecord(n, c) \/ ExecuteApply(n, c) \/ Fail(n, c)
    BY <1>3 DEF Execute
  <2>1. ASSUME NEW a, Reply(n, c, a), table => table', failed \subseteq failed',
               request[c] = "create" => table' \/ c \in failed'
        PROVE  TableInv'
    <3>1. UNCHANGED request /\ \A d \in Calls \ {c} : answer'[d] = answer[d]
      BY <1>0, <2>1, ReplyEffect
    <3> QED
      BY <2>1, <3>1 DEF TableInv, Begins
  <2>2. CASE ExecuteCreate(n, c)
    <3>1. UNCHANGED request /\ table'
      BY <1>0, <2>2, ReplyEffect DEF ExecuteCreate
    <3> QED
      BY <3>1 DEF TableInv
  <2>3. CASE ExecuteRecord(n, c) \/ ExecuteApply(n, c)
    BY <2>1, <2>3 DEF ExecuteRecord, ExecuteApply
  <2>4. CASE Fail(n, c)
    BY <2>1, <2>4 DEF Fail, Refused, database
  <2> QED
    BY <2>0, <2>2, <2>3, <2>4
<1>4. CASE UNCHANGED vars
  BY <1>4 DEF vars, database, TableInv, Begins
<1>5. ASSUME NEW c \in Calls, Cancel(c)
      PROVE  TableInv'
  BY <1>5 DEF Cancel, database, TableInv, Begins
<1>6. ASSUME NEW n \in Connections, Crash(n)
      PROVE  TableInv'
  BY <1>6 DEF Crash, Killed, database, TableInv, Begins
<1> QED
  BY <1>1, <1>2, <1>3, <1>4, <1>5, <1>6 DEF Next, Progress, Interrupt

\* A piece that the script provides for, and that is rejected nevertheless, misses
\* a text that another call did not execute, or that was undone out of turn.
LEMMA RejectionIsExplained ==
    ASSUME SInv, NEW c \in Calls, request[c] = "apply", InChannel(c),
           ~Works(at[c]), ~Faulty(at[c])
    PROVE  \E t \in Needs[Script[at[c]]] : Unmet(c, t)
<1> DEFINE s == at[c]
<1>0. /\ TypeOK /\ RequestInv /\ LossIsAccountedFor /\ PrefixInv /\ FirstInv
      /\ SoloInv /\ OrderInv /\ s \in Nat
      /\ \A i \in 1..Len(applied) : applied[i].statement \in Nat \ {0}
  <2>1. /\ TypeOK /\ RequestInv /\ LossIsAccountedFor /\ PrefixInv /\ FirstInv
        /\ SoloInv /\ OrderInv
    BY DEF SInv, Inv, TypeInv
  <2>2. \A i \in 1..Len(applied) : applied[i] \in [statement : Statements, by : Calls]
    BY <2>1, ElementOfSeq DEF TypeOK
  <2> QED
    BY <2>1, <2>2, ScriptType DEF TypeOK, Statements
<1>1. Ticket(c) /\ First(s) /\ Prefix(s - 1) \subseteq recorded
  BY <1>0 DEF Ticket, FirstInv, PrefixInv
<1>2. PICK t \in Needs[Script[s]] : ~InForce(t) /\ Provided(t, s)
  BY DEF Works, Faulty
<1>3. PICK i \in 1..(s - 1) :
          /\ Script[i] = t /\ First(i)
          /\ \A j \in (i + 1)..(s - 1) : First(j) => t \notin Undoes[Script[j]]
  BY <1>2 DEF Provided
<1>4. t \in recorded
  BY <1>1, <1>3 DEF Prefix
<1>5. CASE t \notin Applied
  <2>1. PICK d \in Calls : Accountable(d, t)
    BY <1>0, <1>4, <1>5 DEF LossIsAccountedFor
  <2>2. d # c
    BY <1>1, <1>3, <2>1 DEF Accountable, First
  <2>3. solo => status[d] # "running"
    BY <1>0, <2>1, <2>2 DEF Accountable, Winning, SoloInv, Begins
  <2> QED
    BY <1>2, <2>1, <2>2, <2>3 DEF Unmet
<1>6. CASE t \in Applied
  <2>1. PICK a \in 1..Len(applied) : Text(a) = t
    BY <1>6 DEF Applied, Text
  <2>2. PICK b \in (a + 1)..Len(applied) : t \in Undoes[Text(b)]
    BY <1>2, <2>1 DEF InForce
  <2> DEFINE x == applied[a].statement
             y == applied[b].statement
  <2>3. b \in 1..Len(applied) /\ a < b /\ x \in Nat /\ y \in Nat /\ First(x) /\ First(y)
    <3>1. Len(applied) \in Nat
      BY <1>0, LenProperties DEF TypeOK
    <3>2. b \in 1..Len(applied) /\ a < b
      BY <2>1, <2>2, <3>1
    <3> QED
      BY <1>0, <2>1, <3>2 DEF FirstInv
  <2>4. x = i
    <3>1. Script[x] = t
      BY <2>1 DEF Text
    <3>2. x >= 1
      BY <1>0, <2>1
    <3> QED
      BY <1>3, <2>3, <3>1, <3>2 DEF First
  <2>5. y \notin (x + 1)..(s - 1)
    BY <1>3, <2>2, <2>3, <2>4 DEF Text
  <2>6. OutOfTurn(t, s)
    BY <2>1, <2>2, <2>3, <2>5 DEF OutOfTurn
  <2>7. ~solo
    <3>1. solo => x < y /\ y < s
      BY <1>0, <1>1, <2>1, <2>3 DEF OrderInv, InOrder
    <3> QED
      BY <1>0, <2>3, <2>5, <3>1
  <2> QED
    BY <1>2, <2>6, <2>7 DEF Unmet
<1> QED
  BY <1>5, <1>6

\* Only the connection answers with an error.
LEMMA ErrorIsAReply ==
    ASSUME Inv, [Next]_vars, NEW c \in Calls, answer[c] # "err", answer'[c] = "err"
    PROVE  InChannel(c)
<1>0. TypeInv /\ TypeOK /\ ChannelInv
  BY DEF Inv, TypeInv
<1>1. ASSUME NEW d \in Calls, CallStep(d)
      PROVE  FALSE
  <2>1. c = d
    BY <1>0, <1>1, CallOthers
  <2>2. ~Cancel(d) /\ ~(\E n \in Connections, u \in Releases : Start(d, n, u))
    BY <1>0, <2>1 DEF Cancel, Start, Send, TypeOK
  <2>3. Resume(d)
    BY <1>1, <2>2 DEF CallStep
  <2> QED
    BY <1>0, <2>1, <2>3, ResumeEffect
       DEF Advances, Succeeds, GivesUp, Wins, Send, End, TypeOK
<1>2. ASSUME NEW n \in Connections, Execute(n)
      PROVE  InChannel(c)
  <2>1. PICK d \in Calls : \E a : Reply(n, d, a)
    BY <1>2 DEF Execute, ExecuteCreate, ExecuteRecord, ExecuteApply, Fail, Refused
  <2>2. d = c
    BY <1>0, <2>1, ReplyEffect
  <2> QED
    BY <1>0, <2>1, <2>2, ReplyChannel
<1>3. ~\E n \in Connections : Crash(n)
  BY DEF Crash, Killed
<1> QED
  BY <1>1, <1>2, <1>3 DEF Next, Progress, Interrupt, CallStep, vars

-----------------------------------------------------------------------------
(* The theorems.                                                           *)

\* The inductive invariant holds of every reachable state.
THEOREM SoloInvariance == Spec => []SInv
<1>1. Init => SInv
  <2> SUFFICES ASSUME Init
               PROVE  SInv
    OBVIOUS
  <2>1. /\ Len(applied) = 0 /\ recorded = {}
        /\ \A c \in Calls : status[c] = "new" /\ request[c] = "none" /\ answer[c] = "none"
        /\ \A n \in Connections : Len(channel[n]) = 0
    BY DEF Init
  <2>2. Inv
    BY InitInv
  <2>3. Prefix(0) = {} /\ 0 \in 0..Len(Script)
    BY ScriptType DEF Prefix
  <2>4. PrefixInv /\ FirstInv
    BY <2>1, <2>3 DEF PrefixInv, FirstInv, Ticket
  <2>5. SoloInv
    BY <2>1 DEF SoloInv, Alive, InChannel
  <2>6. OrderInv /\ TableInv
    BY <2>1 DEF OrderInv, InOrder, TableInv, Ticket
  <2> QED
    BY <2>2, <2>4, <2>5, <2>6 DEF SInv
<1>2. Inv /\ [Next]_vars => Inv'
  BY InvStep
<1>3. SInv /\ [Next]_vars => SInv'
  BY <1>2, PrefixStep, FirstStep, SoloStep, OrderStep, TableStep DEF SInv
<1> QED
  BY <1>1, <1>3, PTL DEF Spec

\* One program at a time: statements are executed top to bottom, over all
\* releases, retries, dropped calls and restarts.
THEOREM SoloInOrder == Spec => []SoloIsInOrder
<1>1. SInv => SoloIsInOrder
  BY DEF SInv, OrderInv, SoloIsInOrder
<1> QED
  BY <1>1, SoloInvariance, PTL

\* An error of migrate has its reason outside of it, in the script, in the error
\* of the creation it swallowed, or in another call at a statement this one needs.
THEOREM ErrorsExplained == Spec => ErrorsAreExplained
<1>1. SInv /\ [Next]_vars =>
          [\A c \in Calls : answer[c] # "err" /\ answer'[c] = "err" => Explained(c)]_vars
  <2> SUFFICES ASSUME SInv, [Next]_vars, NEW c \in Calls, answer[c] # "err", answer'[c] = "err"
               PROVE  Explained(c)
    OBVIOUS
  <2>1. InChannel(c) /\ TableInv
    BY ErrorIsAReply DEF SInv
  <2> QED
    BY <2>1, RejectionIsExplained DEF Explained, TableInv, Begins
<1> QED
  BY <1>1, SoloInvariance, PTL DEF Spec, ErrorsAreExplained
=============================================================================
