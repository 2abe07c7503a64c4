-------------------------- MODULE StatementsProofs --------------------------
(***************************************************************************)
(* Proofs about Statements.  The argument is about the writes of the open  *)
(* transaction of a connection: they wait for a writing statement that is  *)
(* left on a row, and SQLite commits none of them while there is one.      *)
(***************************************************************************)
EXTENDS Statements, TLAPS

-----------------------------------------------------------------------------
(* The inductive invariant.                                                *)

\* The caller was told that the write did not happen.
Denied(w) == out[w] = "err" \/ (out[w] = "bad" /\ kind[w] # "iter")

\* An operation that was not called has left no trace.
UnusedInv ==
    \A w \in Ops :
        /\ kind[w] = "none" => /\ over[w] = NoConnection /\ ~writes[w]
                               /\ stmt[w] = "none" /\ out[w] = "none" /\ w \notin iterators
        /\ kind[w] # "none" => over[w] \in Connections

\* A statement that is not finalized belongs to an iterator, or its operation
\* has failed or only prepares; one on a row to an iterator or a query that
\* gave up.
Owned(w) ==
    /\ stmt[w] \in {"ready", "row", "halted"} =>
           w \in iterators \/ out[w] \in {"err", "bad"} \/ kind[w] = "inspect"
    /\ stmt[w] = "row" =>
           w \in iterators \/ (kind[w] \in {"query", "first"} /\ out[w] = "bad")
    /\ w \in iterators /\ out[w] = "none" => stmt[w] \in {"ready", "row"}
    /\ w \in iterators /\ out[w] = "bad" => stmt[w] = "row"
    /\ w \in iterators /\ out[w] \in {"ok", "err"} => stmt[w] = "halted"
OwnerInv == \A w \in Ops : Owned(w)

\* Where a write can be, by the state of its statement and what its caller was
\* told; a transaction is only open while a writing statement is on a row.
WriteInv ==
    /\ \A c \in Connections : \A w \in pending[c] :
           over[w] = c /\ writes[w] /\ stmt[w] # "ready"
    /\ \A w \in committed : writes[w] /\ stmt[w] \notin {"ready", "row"}
    /\ \A c \in Connections : pending[c] # {} =>
           \E v \in Ops : over[v] = c /\ writes[v] /\ stmt[v] = "row"
    /\ \A w \in Ops : Denied(w) =>
           w \notin committed /\ \A c \in Connections : w \in pending[c] => stmt[w] = "row"

Inv == TypeOK /\ UnusedInv /\ OwnerInv /\ WriteInv /\ LeaksAreReported

-----------------------------------------------------------------------------
(* Types, and the parts of the invariant that are about one operation.     *)

LEMMA FileType ==
    ASSUME TypeOK, NEW w \in Ops, NEW c \in Connections, NEW ch \in SUBSET Ops,
           Halts(w, c, ch) \/ Fails(w, c) \/ Delivers(w, c, TRUE) \/ Delivers(w, c, FALSE)
               \/ UNCHANGED file
    PROVE  pending' \in [Connections -> SUBSET Ops] /\ committed' \in SUBSET Ops
BY DEF TypeOK, Halts, Fails, Delivers, With, file

\* What a step of operation w leaves alone.
Touches(w, c) ==
    /\ over'[w] = c /\ kind'[w] # "none"
    /\ kind[w] = "none" \/ (over[w] = c /\ writes'[w] = writes[w] /\ kind'[w] = kind[w])
    /\ \A v \in Ops \ {w} :
           /\ kind'[v] = kind[v] /\ over'[v] = over[v] /\ writes'[v] = writes[v]
           /\ stmt'[v] = stmt[v] /\ out'[v] = out[v]
           /\ v \in iterators' <=> v \in iterators
    /\ UNCHANGED handle

LEMMA CallTouches ==
    ASSUME Inv, NEW w \in Ops, NEW c \in Connections, NEW k \in Kinds, NEW wr \in BOOLEAN,
           Call(w, c, k, wr), NEW st, NEW o, Returns(w, st, o),
           iterators' = iterators \/ iterators' = iterators \cup {w}
    PROVE  /\ Touches(w, c) /\ handle[c] = "open" /\ kind[w] = "none"
           /\ kind'[w] = k /\ writes'[w] = wr /\ stmt'[w] = st /\ out'[w] = o
<1>1. /\ kind \in [Ops -> Kinds \cup {"none"}] /\ over \in [Ops -> Connections \cup {NoConnection}]
      /\ writes \in [Ops -> BOOLEAN] /\ DOMAIN stmt = Ops /\ DOMAIN out = Ops
  BY DEF Inv, TypeOK
<1>2. k # "none"
  BY DEF Kinds
<1>3. /\ kind' = [kind EXCEPT ![w] = k] /\ over' = [over EXCEPT ![w] = c]
      /\ writes' = [writes EXCEPT ![w] = wr] /\ UNCHANGED handle
      /\ stmt' = [stmt EXCEPT ![w] = st] /\ out' = [out EXCEPT ![w] = o]
      /\ handle[c] = "open" /\ kind[w] = "none"
  BY DEF Call, Returns
<1>4. /\ kind'[w] = k /\ over'[w] = c /\ writes'[w] = wr
      /\ \A v \in Ops \ {w} : kind'[v] = kind[v] /\ over'[v] = over[v] /\ writes'[v] = writes[v]
  BY <1>1, <1>3
<1>5. stmt[w] = stmt[w] /\ out[w] = out[w] /\ stmt'[w] = st /\ out'[w] = o
      /\ \A v \in Ops \ {w} : stmt'[v] = stmt[v] /\ out'[v] = out[v]
  BY <1>1, <1>3
<1> QED
  BY <1>2, <1>3, <1>4, <1>5 DEF Touches

-----------------------------------------------------------------------------
(* What each effect on the file does to WriteInv.                          *)

\* A statement stops and SQLite commits if no other writer is on a row: then no
\* write that waits has been denied or is still on a row.
LEMMA StopEffect ==
    ASSUME Inv, NEW w \in Ops, NEW c \in Connections, Touches(w, c),
           stmt'[w] \in {"halted", "finalized"},
           NEW ch \in SUBSET (pending[c] \cup {w}), w \in ch => writes'[w],
           Halts(w, c, ch),
           Denied(w)' => w \notin ch /\ w \notin committed
    PROVE  WriteInv'
<1> USE DEF Inv
<1>1. pending \in [Connections -> SUBSET Ops] /\ committed \in SUBSET Ops
  BY DEF TypeOK
<1>2. \A v \in Ops \ {w} : Denied(v)' <=> Denied(v)
  BY DEF Touches, Denied
<1>3. w \in committed \/ (\E d \in Connections : w \in pending[d]) => kind[w] # "none"
  BY DEF UnusedInv, WriteInv
<1>4. \A d \in Connections \ {c} : w \notin pending[d]
  BY <1>3 DEF Touches, WriteInv
<1>5. w \in committed => writes'[w]
  BY <1>3 DEF Touches, WriteInv
<1>6. CASE OtherWriter(w, c)
  <2>1. pending' = [pending EXCEPT ![c] = ch] /\ committed' = committed
    BY <1>6 DEF Halts
  <2>2. PICK v \in Ops \ {w} : over[v] = c /\ writes[v] /\ stmt[v] = "row"
    BY <1>6 DEF OtherWriter
  <2>3. pending'[c] = ch /\ \A d \in Connections \ {c} : pending'[d] = pending[d]
    BY <1>1, <2>1
  <2>4. \A d \in Connections : \A u \in pending'[d] : over'[u] = d /\ writes'[u] /\ stmt'[u] # "ready"
    <3>1. ASSUME NEW d \in Connections, NEW u \in pending'[d], u = w
          PROVE  over'[u] = d /\ writes'[u] /\ stmt'[u] # "ready"
      BY <1>4, <2>3, <3>1 DEF Touches
    <3>2. ASSUME NEW d \in Connections, NEW u \in pending'[d], u # w
          PROVE  over'[u] = d /\ writes'[u] /\ stmt'[u] # "ready"
      <4>1. u \in pending[d] /\ u \in Ops \ {w}
        BY <1>1, <2>3, <3>2
      <4> QED
        BY <4>1 DEF WriteInv, Touches
    <3> QED
      BY <3>1, <3>2
  <2>5. \A u \in committed' : writes'[u] /\ stmt'[u] \notin {"ready", "row"}
    <3>1. ASSUME NEW u \in committed, u # w
          PROVE  writes'[u] /\ stmt'[u] \notin {"ready", "row"}
      BY <1>1, <3>1 DEF WriteInv, Touches
    <3> QED
      BY <1>5, <2>1, <3>1
  <2>6. \A d \in Connections : pending'[d] # {} =>
            \E u \in Ops : over'[u] = d /\ writes'[u] /\ stmt'[u] = "row"
    <3>1. over'[v] = c /\ writes'[v] /\ stmt'[v] = "row"
      BY <2>2 DEF Touches
    <3>2. ASSUME NEW d \in Connections \ {c}, pending[d] # {}
          PROVE  \E u \in Ops : over'[u] = d /\ writes'[u] /\ stmt'[u] = "row"
      <4>1. PICK u \in Ops : over[u] = d /\ writes[u] /\ stmt[u] = "row"
        BY <3>2 DEF WriteInv
      <4>2. u # w
        BY <4>1, StatementsAssumption DEF Touches, UnusedInv, StatementsAssumption
      <4> QED
        BY <4>1, <4>2 DEF Touches
    <3> QED
      BY <2>3, <3>1, <3>2
  <2>7. \A u \in Ops : Denied(u)' =>
            u \notin committed' /\ \A d \in Connections : u \in pending'[d] => stmt'[u] = "row"
    <3>1. ASSUME NEW u \in Ops \ {w}, Denied(u)'
          PROVE  u \notin committed /\ \A d \in Connections : u \in pending'[d] => stmt'[u] = "row"
      <4>1. stmt'[u] = stmt[u] /\ \A d \in Connections : u \in pending'[d] => u \in pending[d]
        BY <2>3 DEF Touches
      <4> QED
        BY <1>2, <3>1, <4>1 DEF WriteInv
    <3> QED
      BY <1>4, <2>1, <2>3, <3>1
  <2> QED
    BY <2>4, <2>5, <2>6, <2>7 DEF WriteInv
<1>7. CASE ~OtherWriter(w, c)
  <2>1. pending' = [pending EXCEPT ![c] = {}] /\ committed' = committed \cup ch
    BY <1>7 DEF Halts
  <2>2. pending'[c] = {} /\ \A d \in Connections \ {c} : pending'[d] = pending[d]
    BY <1>1, <2>1
  <2>3. ASSUME NEW u \in ch, u # w
        PROVE  /\ writes'[u] /\ stmt'[u] \notin {"ready", "row"} /\ ~Denied(u)'
    <3>1. u \in pending[c] /\ u \in Ops \ {w}
      BY <1>1, <2>3
    <3>2. over[u] = c /\ writes[u] /\ stmt[u] # "ready" /\ (Denied(u) => stmt[u] = "row")
      BY <3>1 DEF WriteInv
    <3>3. stmt[u] # "row"
      BY <1>7, <3>1, <3>2 DEF OtherWriter
    <3> QED
      BY <1>2, <3>1, <3>2, <3>3 DEF Touches
  <2>4. \A d \in Connections : \A u \in pending'[d] : over'[u] = d /\ writes'[u] /\ stmt'[u] # "ready"
    <3>1. ASSUME NEW d \in Connections \ {c}, NEW u \in pending[d]
          PROVE  over'[u] = d /\ writes'[u] /\ stmt'[u] # "ready"
      BY <1>1, <1>4 DEF WriteInv, Touches
    <3> QED
      BY <2>2, <3>1
  <2>5. \A u \in committed' : writes'[u] /\ stmt'[u] \notin {"ready", "row"}
    <3>1. ASSUME NEW u \in committed, u # w
          PROVE  writes'[u] /\ stmt'[u] \notin {"ready", "row"}
      BY <1>1, <3>1 DEF WriteInv, Touches
    <3> QED
      BY <1>5, <2>1, <2>3, <3>1
  <2>6. \A d \in Connections : pending'[d] # {} =>
            \E u \in Ops : over'[u] = d /\ writes'[u] /\ stmt'[u] = "row"
    <3>2. ASSUME NEW d \in Connections \ {c}, pending[d] # {}
          PROVE  \E u \in Ops : over'[u] = d /\ writes'[u] /\ stmt'[u] = "row"
      <4>1. PICK u \in Ops : over[u] = d /\ writes[u] /\ stmt[u] = "row"
        BY <3>2 DEF WriteInv
      <4>2. u # w
        BY <4>1 DEF Touches, UnusedInv
      <4> QED
        BY <4>1, <4>2 DEF Touches
    <3> QED
      BY <2>2, <3>2
  <2>7. \A u \in Ops : Denied(u)' =>
            u \notin committed' /\ \A d \in Connections : u \in pending'[d] => stmt'[u] = "row"
    <3>1. ASSUME NEW u \in Ops \ {w}, Denied(u)'
          PROVE  u \notin committed' /\ \A d \in Connections : u \in pending'[d] => stmt'[u] = "row"
      <4>1. stmt'[u] = stmt[u] /\ \A d \in Connections : u \in pending'[d] => u \in pending[d]
        BY <2>2 DEF Touches
      <4>2. u \notin committed /\ \A d \in Connections : u \in pending[d] => stmt[u] = "row"
        BY <1>2, <3>1 DEF WriteInv
      <4> QED
        BY <2>1, <2>3, <3>1, <4>1, <4>2
    <3> QED
      BY <1>4, <2>1, <2>2, <3>1
  <2> QED
    BY <2>4, <2>5, <2>6, <2>7 DEF WriteInv
<1> QED
  BY <1>6, <1>7

\* A statement fails: it stops with what is left of the transaction, which is
\* nothing or what the others wrote.
LEMMA FailEffect ==
    ASSUME Inv, NEW w \in Ops, NEW c \in Connections, Touches(w, c),
           stmt'[w] \in {"halted", "finalized"}, Fails(w, c), Denied(w)' => w \notin committed
    PROVE  WriteInv'
<1>1. CASE pending' = [pending EXCEPT ![c] = {}]
  <2>1. Halts(w, c, {})
    BY <1>1 DEF Halts, Fails
  <2> QED
    BY <2>1, StopEffect
<1>2. CASE OtherWriter(w, c) /\ pending' = [pending EXCEPT ![c] = @ \ {w}]
  <2>1. Halts(w, c, pending[c] \ {w})
    BY <1>2 DEF Halts, Fails
  <2> QED
    BY <2>1, StopEffect
<1> QED
  BY <1>1, <1>2 DEF Fails

\* A statement that was not on a row is now: if it writes, it is what its own
\* write, and every write that joins it, waits for.
LEMMA DeliverEffect ==
    ASSUME Inv, NEW w \in Ops, NEW c \in Connections, Touches(w, c),
           kind[w] = "none" \/ stmt[w] = "ready", stmt'[w] = "row",
           Delivers(w, c, writes'[w])
    PROVE  WriteInv'
<1> USE DEF Inv
<1>1. pending \in [Connections -> SUBSET Ops] /\ committed \in SUBSET Ops
  BY DEF TypeOK
<1>2. \A v \in Ops \ {w} : Denied(v)' <=> Denied(v)
  BY DEF Touches, Denied
<1>3. w \notin committed /\ \A d \in Connections : w \notin pending[d]
  BY DEF UnusedInv, WriteInv
<1>4. /\ pending'[c] = With(w, c, writes'[w]) /\ committed' = committed
      /\ \A d \in Connections \ {c} : pending'[d] = pending[d]
  BY <1>1 DEF Delivers
<1>5. \A d \in Connections : \A u \in pending'[d] : u \in pending[d] \/ (u = w /\ d = c /\ writes'[w])
  BY <1>4 DEF With
<1>6. \A d \in Connections : \A u \in pending'[d] : over'[u] = d /\ writes'[u] /\ stmt'[u] # "ready"
  <2>1. ASSUME NEW d \in Connections, NEW u \in pending'[d], u # w
        PROVE  over'[u] = d /\ writes'[u] /\ stmt'[u] # "ready"
    <3>1. u \in pending[d] /\ u \in Ops \ {w}
      BY <1>1, <1>5, <2>1
    <3> QED
      BY <3>1 DEF WriteInv, Touches
  <2> QED
    BY <1>3, <1>5, <2>1 DEF Touches
<1>7. \A u \in committed' : writes'[u] /\ stmt'[u] \notin {"ready", "row"}
  <2>1. ASSUME NEW u \in committed
        PROVE  writes'[u] /\ stmt'[u] \notin {"ready", "row"}
    BY <1>1, <1>3 DEF WriteInv, Touches
  <2> QED
    BY <1>4, <2>1
<1>8. \A d \in Connections : pending'[d] # {} =>
          \E u \in Ops : over'[u] = d /\ writes'[u] /\ stmt'[u] = "row"
  <2>1. ASSUME NEW d \in Connections, pending[d] # {}
        PROVE  \E u \in Ops : over'[u] = d /\ writes'[u] /\ stmt'[u] = "row"
    <3>1. PICK u \in Ops : over[u] = d /\ writes[u] /\ stmt[u] = "row"
      BY <2>1 DEF WriteInv
    <3>2. u # w
      BY <3>1 DEF UnusedInv
    <3> QED
      BY <3>1, <3>2 DEF Touches
  <2>2. writes'[w] => over'[w] = c /\ stmt'[w] = "row"
    BY DEF Touches
  <2> QED
    BY <1>5, <2>1, <2>2
<1>9. \A u \in Ops : Denied(u)' =>
          u \notin committed' /\ \A d \in Connections : u \in pending'[d] => stmt'[u] = "row"
  <2>1. ASSUME NEW u \in Ops \ {w}, Denied(u)'
        PROVE  u \notin committed /\ \A d \in Connections : u \in pending'[d] => stmt'[u] = "row"
    <3>1. stmt'[u] = stmt[u] /\ \A d \in Connections : u \in pending'[d] => u \in pending[d]
      BY <1>5 DEF Touches
    <3> QED
      BY <1>2, <2>1, <3>1 DEF WriteInv
  <2> QED
    BY <1>3, <1>4, <2>1
<1> QED
  BY <1>6, <1>7, <1>8, <1>9 DEF WriteInv

\* The file does not change: the operation is new, or stays on a row.
LEMMA KeepEffect ==
    ASSUME Inv, NEW w \in Ops, NEW c \in Connections, Touches(w, c), UNCHANGED file,
           kind[w] = "none" \/ (stmt[w] = "row" /\ stmt'[w] = "row" /\ ~Denied(w)')
    PROVE  WriteInv'
<1> USE DEF Inv
<1>1. pending \in [Connections -> SUBSET Ops] /\ committed \in SUBSET Ops
      /\ pending' = pending /\ committed' = committed
  BY DEF TypeOK, file
<1>2. \A v \in Ops \ {w} : Denied(v)' <=> Denied(v)
  BY DEF Touches, Denied
<1>3. w \notin committed
  BY DEF UnusedInv, WriteInv
<1>4. \A d \in Connections : w \in pending[d] => kind[w] # "none"
  BY DEF UnusedInv, WriteInv
<1>5. ASSUME NEW d \in Connections, NEW u \in pending[d]
      PROVE  over'[u] = d /\ writes'[u] /\ stmt'[u] # "ready"
  BY <1>1, <1>4 DEF WriteInv, Touches
<1>6. ASSUME NEW u \in committed
      PROVE  writes'[u] /\ stmt'[u] \notin {"ready", "row"}
  BY <1>1, <1>3 DEF WriteInv, Touches
<1>7. ASSUME NEW d \in Connections, pending[d] # {}
      PROVE  \E u \in Ops : over'[u] = d /\ writes'[u] /\ stmt'[u] = "row"
  <2>1. PICK u \in Ops : over[u] = d /\ writes[u] /\ stmt[u] = "row"
    BY <1>7 DEF WriteInv
  <2>2. u = w => kind[w] # "none"
    BY <2>1 DEF UnusedInv
  <2> QED
    BY <2>1, <2>2 DEF Touches
<1>8. ASSUME NEW u \in Ops, Denied(u)'
      PROVE  u \notin committed /\ \A d \in Connections : u \in pending[d] => stmt'[u] = "row"
  <2>1. CASE u = w
    BY <1>3, <1>4, <1>8, <2>1
  <2>2. CASE u # w
    BY <1>2, <1>8, <2>2 DEF WriteInv, Touches
  <2> QED
    BY <2>1, <2>2
<1> QED
  BY <1>1, <1>5, <1>6, <1>7, <1>8 DEF WriteInv

\* A statement runs to its end and nobody is told that it failed.
LEMMA CompleteEffect ==
    ASSUME Inv, NEW w \in Ops, NEW c \in Connections, Touches(w, c),
           stmt'[w] \in {"halted", "finalized"}, Completes(w, c, writes'[w]), ~Denied(w)'
    PROVE  WriteInv'
<1> DEFINE ch == With(w, c, writes'[w])
<1>1. Halts(w, c, ch)
  BY DEF Completes
<1>2. ch \in SUBSET (pending[c] \cup {w})
  BY DEF With
<1>3. w \in ch => writes'[w]
  <2>1. w \in pending[c] => writes[w] /\ kind[w] # "none"
    BY DEF Inv, WriteInv, UnusedInv
  <2> QED
    BY <2>1 DEF With, Touches
<1> HIDE DEF ch
<1> QED
  BY <1>1, <1>2, <1>3, StopEffect

-----------------------------------------------------------------------------
(* The steps.                                                              *)

\* What a step of w does to the parts of the invariant about one operation.
LEMMA LocalStep ==
    ASSUME Inv, NEW w \in Ops, NEW c \in Connections, Touches(w, c), Owned(w)',
           out[w] = "none" \/ out'[w] = out[w]
    PROVE  UnusedInv' /\ OwnerInv' /\ LeaksAreReported'
<1> USE DEF Inv
<1>1. UnusedInv'
  BY DEF UnusedInv, Touches
<1>2. OwnerInv'
  <2>1. ASSUME NEW v \in Ops, v # w
        PROVE  Owned(v)'
    BY <2>1 DEF OwnerInv, Owned, Touches
  <2> QED
    BY <2>1 DEF OwnerInv
<1>3. ASSUME NEW d \in Connections, handle'[d] = "leaked"
      PROVE  \E u \in Ops : over'[u] = d /\ (out'[u] \in {"err", "bad"} \/ kind'[u] = "inspect")
  <2>1. PICK u \in Ops : over[u] = d /\ (out[u] \in {"err", "bad"} \/ kind[u] = "inspect")
    BY <1>3 DEF LeaksAreReported, Touches
  <2>2. kind[u] # "none"
    BY <2>1 DEF UnusedInv
  <2>3. CASE u = w
    BY <2>1, <2>2, <2>3 DEF Touches
  <2>4. CASE u # w
    BY <2>1, <2>4 DEF Touches
  <2> QED
    BY <2>3, <2>4
<1> QED
  BY <1>1, <1>2, <1>3 DEF LeaksAreReported

LEMMA CallType ==
    ASSUME Inv, NEW w \in Ops, NEW c \in Connections, NEW k \in Kinds, NEW wr \in BOOLEAN,
           Call(w, c, k, wr),
           NEW st \in {"none", "ready", "row", "halted", "finalized"},
           NEW o \in {"none", "ok", "err", "bad", "tooMany"}, Returns(w, st, o),
           \/ iterators' = iterators
           \/ iterators' = iterators \cup {w} /\ k = "iter" /\ st = "ready",
           pending' \in [Connections -> SUBSET Ops] /\ committed' \in SUBSET Ops
    PROVE  TypeOK'
<1> USE DEF Inv
<1>1. /\ kind' = [kind EXCEPT ![w] = k] /\ over' = [over EXCEPT ![w] = c]
      /\ writes' = [writes EXCEPT ![w] = wr] /\ UNCHANGED handle
      /\ stmt' = [stmt EXCEPT ![w] = st] /\ out' = [out EXCEPT ![w] = o]
      /\ shared' = shared \/ shared' = shared \cup {c}
  BY DEF Call, Returns
<1>2. w \notin iterators
  BY DEF Call, UnusedInv
<1>3. /\ kind' \in [Ops -> Kinds \cup {"none"}]
      /\ over' \in [Ops -> Connections \cup {NoConnection}]
      /\ writes' \in [Ops -> BOOLEAN]
  BY <1>1 DEF TypeOK
<1>4. /\ stmt' \in [Ops -> {"none", "ready", "row", "halted", "finalized"}]
      /\ out' \in [Ops -> {"none", "ok", "err", "bad", "tooMany"}]
  BY <1>1 DEF TypeOK
<1>5. /\ iterators' \in SUBSET Ops
      /\ \A v \in iterators' : kind'[v] = "iter" /\ stmt'[v] \in {"ready", "row", "halted"}
  BY <1>1, <1>2 DEF TypeOK
<1> QED
  BY <1>1, <1>3, <1>4, <1>5 DEF TypeOK

\* One call of an operation, whichever way it ends.
LEMMA BeginStep ==
    ASSUME Inv, NEW w \in Ops, NEW c \in Connections, Begin(w, c)
    PROVE  Inv'
<1>0. /\ pending[c] \in SUBSET Ops /\ {"query", "first"} \subseteq Kinds
      /\ {"execute", "iter", "inspect"} \subseteq Kinds
      /\ (kind[w] = "none" => w \notin committed /\ out[w] = "none" /\ w \notin iterators)
  BY DEF Inv, TypeOK, Kinds, UnusedInv, WriteInv
<1>1. ASSUME NEW k \in Kinds, NEW wr \in BOOLEAN, Refused(w, c, k, wr)
      PROVE  Inv'
  <2>1. Call(w, c, k, wr) /\ Returns(w, "none", "err") /\ UNCHANGED <<iterators, file>>
    BY <1>1 DEF Refused
  <2>2. /\ Touches(w, c) /\ kind[w] = "none" /\ stmt'[w] = "none" /\ out'[w] = "err"
    BY <2>1, CallTouches
  <2>3. WriteInv'
    BY <2>1, <2>2, KeepEffect
  <2>4. TypeOK'
    <3>1. pending' \in [Connections -> SUBSET Ops] /\ committed' \in SUBSET Ops
      BY <2>1 DEF Inv, TypeOK, file
    <3> QED
      BY <2>1, <3>1, CallType
  <2>5. Owned(w)'
    BY <1>0, <2>1, <2>2 DEF Owned
  <2> QED
    BY <1>0, <2>2, <2>3, <2>4, <2>5, LocalStep DEF Inv
<1>2. ASSUME NEW k \in {"execute", "query", "first"}, NEW wr \in BOOLEAN, Call(w, c, k, wr),
             NEW o \in {"ok", "tooMany"}, Returns(w, "finalized", o),
             Completes(w, c, wr), UNCHANGED iterators
      PROVE  Inv'
  <2>1. /\ Touches(w, c) /\ kind[w] = "none" /\ stmt'[w] = "finalized" /\ out'[w] = o
        /\ writes'[w] = wr
    BY <1>0, <1>2, CallTouches
  <2>2. WriteInv'
    BY <1>2, <2>1, CompleteEffect DEF Denied
  <2>3. TypeOK'
    <3>1. With(w, c, wr) \in SUBSET Ops /\ TypeOK
      BY <1>0 DEF With, Inv
    <3>2. pending' \in [Connections -> SUBSET Ops] /\ committed' \in SUBSET Ops
      BY <1>2, <3>1, FileType DEF Completes
    <3> QED
      BY <1>0, <1>2, <3>2, CallType
  <2>4. Owned(w)'
    BY <1>0, <1>2, <2>1 DEF Owned
  <2> QED
    BY <1>0, <2>1, <2>2, <2>3, <2>4, LocalStep DEF Inv
<1>3. ASSUME NEW k \in {"execute", "query", "first"}, NEW wr \in BOOLEAN, Call(w, c, k, wr),
             NEW st \in {"halted", "finalized"}, Returns(w, st, "err"),
             Fails(w, c), UNCHANGED iterators
      PROVE  Inv'
  <2>1. /\ Touches(w, c) /\ kind[w] = "none" /\ stmt'[w] = st /\ out'[w] = "err"
    BY <1>0, <1>3, CallTouches
  <2>2. WriteInv'
    BY <1>0, <1>3, <2>1, FailEffect
  <2>3. TypeOK'
    <3>1. pending' \in [Connections -> SUBSET Ops] /\ committed' \in SUBSET Ops
      BY <1>3, FileType DEF Inv
    <3> QED
      BY <1>0, <1>3, <3>1, CallType
  <2>4. Owned(w)'
    BY <1>0, <1>3, <2>1 DEF Owned
  <2> QED
    BY <1>0, <2>1, <2>2, <2>3, <2>4, LocalStep DEF Inv
<1>4. ASSUME NEW k \in {"query", "first"}, NEW wr \in BOOLEAN, Call(w, c, k, wr),
             Returns(w, "row", "bad"), Delivers(w, c, wr), UNCHANGED iterators
      PROVE  Inv'
  <2>1. /\ Touches(w, c) /\ kind[w] = "none" /\ stmt'[w] = "row" /\ out'[w] = "bad"
        /\ writes'[w] = wr /\ kind'[w] = k
    BY <1>0, <1>4, CallTouches
  <2>2. WriteInv'
    BY <1>4, <2>1, DeliverEffect
  <2>3. TypeOK'
    <3>1. pending' \in [Connections -> SUBSET Ops] /\ committed' \in SUBSET Ops
      BY <1>4, FileType DEF Inv
    <3> QED
      BY <1>0, <1>4, <3>1, CallType
  <2>4. Owned(w)'
    BY <1>0, <1>4, <2>1 DEF Owned
  <2> QED
    BY <1>0, <2>1, <2>2, <2>3, <2>4, LocalStep DEF Inv
<1>5. ASSUME NEW k \in {"inspect", "iter"}, NEW wr \in BOOLEAN, Call(w, c, k, wr),
             NEW st \in {"ready", "finalized"}, NEW o \in {"none", "ok"}, Returns(w, st, o),
             \/ k = "inspect" /\ o = "ok" /\ iterators' = iterators
             \/ k = "iter" /\ o = "none" /\ st = "ready" /\ iterators' = iterators \cup {w},
             UNCHANGED file
      PROVE  Inv'
  <2>1. /\ Touches(w, c) /\ kind[w] = "none" /\ stmt'[w] = st /\ out'[w] = o
        /\ kind'[w] = k
    BY <1>0, <1>5, CallTouches
  <2>2. WriteInv'
    BY <1>5, <2>1, KeepEffect
  <2>3. TypeOK'
    <3>1. pending' \in [Connections -> SUBSET Ops] /\ committed' \in SUBSET Ops
      BY <1>5 DEF Inv, TypeOK, file
    <3> QED
      BY <1>0, <1>5, <3>1, CallType
  <2>4. Owned(w)'
    BY <1>0, <1>5, <2>1 DEF Owned
  <2> QED
    BY <1>0, <2>1, <2>2, <2>3, <2>4, LocalStep DEF Inv
<1>6. ASSUME NEW wr \in BOOLEAN, Execute(w, c, wr)
      PROVE  Inv'
  BY <1>2, <1>3, <1>6 DEF Execute
<1>7. ASSUME NEW k \in {"query", "first"}, NEW wr \in BOOLEAN, Query(w, c, k, wr)
      PROVE  Inv'
  BY <1>2, <1>3, <1>4, <1>7 DEF Query
<1>8. CASE Inspect(w, c)
  BY <1>5, <1>8 DEF Inspect
<1>9. ASSUME NEW wr \in BOOLEAN, Iter(w, c, wr)
      PROVE  Inv'
  BY <1>5, <1>9 DEF Iter
<1> QED
  BY <1>1, <1>6, <1>7, <1>8, <1>9 DEF Begin

LEMMA IterTouches ==
    ASSUME Inv, NEW w \in iterators,
           NEW st \in {"ready", "row", "halted", "finalized"}, stmt' = [stmt EXCEPT ![w] = st],
           NEW o \in {"none", "ok", "err", "bad", "tooMany"}, out' = [out EXCEPT ![w] = o],
           \/ iterators' = iterators /\ st # "finalized"
           \/ iterators' = iterators \ {w},
           UNCHANGED <<handle, callers>>,
           pending' \in [Connections -> SUBSET Ops] /\ committed' \in SUBSET Ops
    PROVE  /\ w \in Ops /\ over[w] \in Connections /\ Touches(w, over[w])
           /\ stmt'[w] = st /\ out'[w] = o /\ kind'[w] = "iter" /\ TypeOK'
<1> USE DEF Inv
<1>1. w \in Ops /\ kind[w] = "iter"
  BY DEF TypeOK
<1>2. over[w] \in Connections
  BY <1>1 DEF UnusedInv
<1>3. kind' = kind /\ over' = over /\ writes' = writes /\ handle' = handle /\ shared' = shared
  BY DEF callers
<1>4. /\ stmt'[w] = st /\ out'[w] = o
      /\ \A v \in Ops \ {w} : stmt'[v] = stmt[v] /\ out'[v] = out[v]
  BY <1>1 DEF TypeOK
<1>5. Touches(w, over[w])
  BY <1>1, <1>3, <1>4 DEF Touches
<1>6. /\ stmt' \in [Ops -> {"none", "ready", "row", "halted", "finalized"}]
      /\ out' \in [Ops -> {"none", "ok", "err", "bad", "tooMany"}]
  BY DEF TypeOK
<1>7. /\ iterators' \in SUBSET Ops
      /\ \A v \in iterators' : kind'[v] = "iter" /\ stmt'[v] \in {"ready", "row", "halted"}
  BY <1>1, <1>3, <1>4 DEF TypeOK
<1>8. TypeOK'
  BY <1>3, <1>6, <1>7 DEF TypeOK
<1> QED
  BY <1>1, <1>2, <1>3, <1>4, <1>5, <1>8

\* One call of next, or the drop of an iterator.
LEMMA IterateStep ==
    ASSUME Inv, NEW w \in Ops, Iterate(w)
    PROVE  Inv'
<1>0. /\ w \in iterators => /\ over[w] \in Connections /\ kind[w] = "iter"
                            /\ pending[over[w]] \in SUBSET Ops /\ writes[w] \in BOOLEAN
                            /\ stmt[w] \in {"ready", "row", "halted"}
      /\ TypeOK
      /\ stmt \in [Ops -> {"none", "ready", "row", "halted", "finalized"}]
      /\ out \in [Ops -> {"none", "ok", "err", "bad", "tooMany"}]
  BY DEF Inv, TypeOK, UnusedInv
<1>1. CASE NextRow(w)
  <2>1. PICK o \in {"none", "bad"} : Returns(w, "row", o)
    BY <1>1 DEF NextRow
  <2>2. /\ w \in iterators /\ out[w] = "none" /\ stmt[w] \in {"ready", "row"}
        /\ UNCHANGED <<handle, callers, iterators>>
        /\ stmt' = [stmt EXCEPT ![w] = "row"] /\ out' = [out EXCEPT ![w] = o]
    BY <1>1, <2>1 DEF NextRow, Unfinished, Returns, Inv, OwnerInv, Owned
  <2>3. \/ stmt[w] = "ready" /\ Delivers(w, over[w], writes[w])
        \/ stmt[w] = "row" /\ UNCHANGED file
    BY <1>1, <2>2 DEF NextRow
  <2>4. pending' \in [Connections -> SUBSET Ops] /\ committed' \in SUBSET Ops
    <3>1. CASE UNCHANGED file
      BY <1>0, <3>1 DEF TypeOK, file
    <3>2. CASE Delivers(w, over[w], writes[w])
      <4>1. With(w, over[w], writes[w]) \in SUBSET Ops
        BY <1>0, <2>2 DEF With
      <4> QED
        BY <1>0, <2>2, <3>2, <4>1 DEF Delivers, TypeOK
    <3> QED
      BY <2>3, <3>1, <3>2
  <2>5. /\ Touches(w, over[w]) /\ stmt'[w] = "row" /\ out'[w] = o /\ kind'[w] = "iter" /\ TypeOK'
    BY <2>2, <2>4, IterTouches
  <2>6. writes'[w] = writes[w]
    BY <2>2 DEF callers
  <2>7. WriteInv'
    BY <1>0, <2>2, <2>3, <2>5, <2>6, DeliverEffect, KeepEffect DEF Denied
  <2>8. Owned(w)'
    BY <2>2, <2>5 DEF Owned
  <2> QED
    BY <1>0, <2>2, <2>5, <2>7, <2>8, LocalStep DEF Inv
<1>2. CASE NextDone(w)
  <2>1. /\ w \in iterators /\ out[w] = "none" /\ Completes(w, over[w], writes[w])
        /\ UNCHANGED <<handle, callers, iterators>>
        /\ stmt' = [stmt EXCEPT ![w] = "halted"] /\ out' = [out EXCEPT ![w] = "ok"]
    BY <1>2 DEF NextDone, Unfinished, Returns
  <2>2. pending' \in [Connections -> SUBSET Ops] /\ committed' \in SUBSET Ops
    <3>1. With(w, over[w], writes[w]) \in SUBSET Ops
      BY <1>0, <2>1 DEF With
    <3> QED
      BY <1>0, <2>1, <3>1, FileType DEF Completes
  <2>3. /\ Touches(w, over[w]) /\ stmt'[w] = "halted" /\ out'[w] = "ok" /\ kind'[w] = "iter" /\ TypeOK'
    BY <2>1, <2>2, IterTouches
  <2>4. writes'[w] = writes[w]
    BY <2>1 DEF callers
  <2>5. WriteInv'
    BY <1>0, <2>1, <2>3, <2>4, CompleteEffect DEF Denied
  <2>6. Owned(w)'
    BY <2>1, <2>3 DEF Owned
  <2> QED
    BY <1>0, <2>1, <2>3, <2>5, <2>6, LocalStep DEF Inv
<1>3. CASE NextFails(w)
  <2>1. /\ w \in iterators /\ out[w] = "none" /\ Fails(w, over[w])
        /\ UNCHANGED <<handle, callers, iterators>>
        /\ stmt' = [stmt EXCEPT ![w] = "halted"] /\ out' = [out EXCEPT ![w] = "err"]
    BY <1>3 DEF NextFails, Unfinished, Returns
  <2>2. pending' \in [Connections -> SUBSET Ops] /\ committed' \in SUBSET Ops
    BY <1>0, <2>1, FileType
  <2>3. /\ Touches(w, over[w]) /\ stmt'[w] = "halted" /\ out'[w] = "err" /\ kind'[w] = "iter" /\ TypeOK'
    BY <2>1, <2>2, IterTouches
  <2>4. w \notin committed
    BY <2>1 DEF Inv, OwnerInv, Owned, WriteInv
  <2>5. WriteInv'
    BY <1>0, <2>1, <2>3, <2>4, FailEffect
  <2>6. Owned(w)'
    BY <2>1, <2>3 DEF Owned
  <2> QED
    BY <1>0, <2>1, <2>3, <2>5, <2>6, LocalStep DEF Inv
<1>4. CASE DropIterator(w)
  <2>1. /\ w \in iterators /\ iterators' = iterators \ {w}
        /\ UNCHANGED <<handle, callers, out>>
        /\ stmt' = [stmt EXCEPT ![w] = "finalized"] /\ out' = [out EXCEPT ![w] = out[w]]
        /\ out[w] \in {"none", "ok", "err", "bad", "tooMany"}
    BY <1>0, <1>4 DEF DropIterator
  <2>2. Halts(w, over[w], pending[over[w]]) \/ (stmt[w] = "row" /\ Fails(w, over[w]))
    BY <1>4 DEF DropIterator
  <2>3. pending' \in [Connections -> SUBSET Ops] /\ committed' \in SUBSET Ops
    BY <1>0, <2>1, <2>2, FileType
  <2>4. /\ Touches(w, over[w]) /\ stmt'[w] = "finalized" /\ out'[w] = out[w]
        /\ kind'[w] = "iter" /\ TypeOK'
    BY <2>1, <2>3, IterTouches
  <2>5. WriteInv'
    <3>1. w \in pending[over[w]] => writes'[w]
      BY <1>0, <2>1 DEF Inv, WriteInv, callers
    <3>2. Denied(w)' => out[w] = "err"
      BY <2>4 DEF Denied
    <3>3. out[w] = "err" => stmt[w] = "halted" /\ w \notin committed /\ w \notin pending[over[w]]
      BY <1>0, <2>1 DEF Inv, OwnerInv, Owned, WriteInv, Denied
    <3>4. CASE Halts(w, over[w], pending[over[w]])
      BY <1>0, <2>1, <2>4, <3>1, <3>2, <3>3, <3>4, StopEffect
    <3>5. CASE stmt[w] = "row" /\ Fails(w, over[w])
      BY <1>0, <2>1, <2>4, <3>2, <3>3, <3>5, FailEffect
    <3> QED
      BY <2>2, <3>4, <3>5
  <2>6. Owned(w)'
    BY <2>1, <2>4 DEF Owned
  <2> QED
    BY <1>0, <2>1, <2>4, <2>5, <2>6, LocalStep DEF Inv
<1> QED
  BY <1>1, <1>2, <1>3, <1>4 DEF Iterate

\* Opening, closing and ending a connection.
LEMMA ManageStep ==
    ASSUME Inv, NEW c \in Connections, Manage(c)
    PROVE  Inv'
<1> USE DEF Inv
<1>1. ASSUME NEW h \in {"failed", "open", "closed", "leaked"}, handle' = [handle EXCEPT ![c] = h],
             h = "leaked" => \E w \in Ops : over[w] = c /\ (out[w] \in {"err", "bad"} \/ kind[w] = "inspect"),
             UNCHANGED <<callers, stmt, iterators, out, file>>
      PROVE  Inv'
  <2>1. /\ kind' = kind /\ over' = over /\ writes' = writes /\ stmt' = stmt /\ iterators' = iterators
        /\ out' = out /\ pending' = pending /\ committed' = committed /\ shared' = shared
    BY <1>1 DEF callers, file
  <2>2. TypeOK'
    BY <1>1, <2>1 DEF TypeOK
  <2>3. UnusedInv' /\ OwnerInv' /\ WriteInv'
    BY <2>1 DEF UnusedInv, OwnerInv, Owned, WriteInv, Denied
  <2>4. LeaksAreReported'
    <3>1. \A d \in Connections : handle'[d] = "leaked" => handle[d] = "leaked" \/ (d = c /\ h = "leaked")
      BY <1>1 DEF TypeOK
    <3> QED
      BY <1>1, <2>1, <3>1 DEF LeaksAreReported
  <2> QED
    BY <2>2, <2>3, <2>4
<1>2. CASE Open(c) \/ OpenFails(c)
  BY <1>1, <1>2 DEF Open, OpenFails
<1>3. CASE Close(c)
  <2>1. Unfinalized(c) # {} =>
            \E w \in Ops : over[w] = c /\ (out[w] \in {"err", "bad"} \/ kind[w] = "inspect")
    BY <1>3 DEF Close, Unfinalized, OwnerInv, Owned
  <2> QED
    BY <1>1, <1>3, <2>1 DEF Close
<1>4. CASE Exit(c)
  <2>1. /\ kind' = kind /\ over' = over /\ writes' = writes /\ out' = out /\ committed' = committed
        /\ shared' = shared
        /\ stmt' = [w \in Ops |-> IF over[w] = c THEN "finalized" ELSE stmt[w]]
        /\ iterators' = {w \in iterators : over[w] # c}
        /\ pending' = [pending EXCEPT ![c] = {}] /\ handle' = [handle EXCEPT ![c] = "exited"]
    BY <1>4 DEF Exit, callers
  <2>2. \A w \in Ops : /\ over[w] = c => stmt'[w] = "finalized" /\ w \notin iterators' /\ kind[w] # "none"
                       /\ over[w] # c => stmt'[w] = stmt[w] /\ (w \in iterators' <=> w \in iterators)
    BY <2>1, StatementsAssumption DEF UnusedInv
  <2>3. pending'[c] = {} /\ \A d \in Connections \ {c} : pending'[d] = pending[d]
    BY <2>1 DEF TypeOK
  <2>4. TypeOK'
    <3>1. stmt' \in [Ops -> {"none", "ready", "row", "halted", "finalized"}]
      BY <2>1 DEF TypeOK
    <3>2. /\ iterators' \in SUBSET Ops
          /\ \A v \in iterators' : kind'[v] = "iter" /\ stmt'[v] \in {"ready", "row", "halted"}
      BY <2>1, <2>2 DEF TypeOK
    <3>3. pending' \in [Connections -> SUBSET Ops] /\ handle' \in
              [Connections -> {"none", "failed", "open", "closed", "leaked", "exited"}]
      BY <2>1 DEF TypeOK
    <3> QED
      BY <2>1, <3>1, <3>2, <3>3 DEF TypeOK
  <2>5. UnusedInv'
    BY <2>1, <2>2 DEF UnusedInv
  <2>6. OwnerInv'
    BY <2>1, <2>2 DEF OwnerInv, Owned
  <2>7. WriteInv'
    <3>1. committed \in SUBSET Ops /\ \A d \in Connections : pending[d] \in SUBSET Ops
      BY DEF TypeOK
    <3>2. \A d \in Connections : \A w \in pending'[d] : over'[w] = d /\ writes'[w] /\ stmt'[w] # "ready"
      BY <2>1, <2>2, <2>3, <3>1 DEF WriteInv
    <3>3. \A w \in committed' : writes'[w] /\ stmt'[w] \notin {"ready", "row"}
      BY <2>1, <2>2, <3>1 DEF WriteInv
    <3>4. \A d \in Connections : pending'[d] # {} =>
              \E v \in Ops : over'[v] = d /\ writes'[v] /\ stmt'[v] = "row"
      BY <2>1, <2>2, <2>3 DEF WriteInv
    <3>5. ASSUME NEW w \in Ops, Denied(w)'
          PROVE  w \notin committed' /\ \A d \in Connections : w \in pending'[d] => stmt'[w] = "row"
      <4>1. Denied(w)
        BY <2>1, <3>5 DEF Denied
      <4>2. \A d \in Connections : w \in pending'[d] => w \in pending[d] /\ d # c /\ over[w] = d
        BY <2>3 DEF WriteInv
      <4> QED
        BY <2>1, <2>2, <4>1, <4>2 DEF WriteInv
    <3> QED
      BY <3>2, <3>3, <3>4, <3>5 DEF WriteInv
  <2>8. LeaksAreReported'
    <3>1. \A d \in Connections : handle'[d] = "leaked" => handle[d] = "leaked"
      BY <2>1 DEF TypeOK
    <3> QED
      BY <2>1, <3>1 DEF LeaksAreReported
  <2> QED
    BY <2>4, <2>5, <2>6, <2>7, <2>8
<1> QED
  BY <1>1, <1>2, <1>3, <1>4 DEF Manage

LEMMA InitInv == Init => Inv
BY DEF Init, Inv, TypeOK, UnusedInv, OwnerInv, Owned, WriteInv, Denied, LeaksAreReported

LEMMA NextInv == Inv /\ [Next]_vars => Inv'
<1>1. Inv /\ UNCHANGED vars => Inv'
  BY DEF vars, callers, file, Inv, TypeOK, UnusedInv, OwnerInv, Owned, WriteInv, Denied, LeaksAreReported
<1> QED
  BY <1>1, BeginStep, IterateStep, ManageStep DEF Next

-----------------------------------------------------------------------------
(* The theorems.                                                           *)

\* The inductive invariant.
THEOREM Invariance == Spec => []Inv
BY InitInv, NextInv, PTL DEF Spec

\* The variables have their types, and no iterator's statement is finalized
\* under it.
THEOREM TypeCorrect == Spec => []TypeOK
<1>1. Inv => TypeOK
  BY DEF Inv
<1> QED
  BY <1>1, Invariance, PTL

\* A write that was answered with an error is never committed.
THEOREM RefusedNotCommitted == Spec => []RefusedIsNotCommitted
<1>1. Inv => RefusedIsNotCommitted
  BY DEF Inv, WriteInv, Denied, RefusedIsNotCommitted
<1> QED
  BY <1>1, Invariance, PTL

\* Locks on the file are held for iterators that exist and for queries that
\* gave up at a row, and for nothing else.
THEOREM LocksAccounted == Spec => []LocksAreAccountedFor
<1>1. Inv => LocksAreAccountedFor
  <2> SUFFICES ASSUME Inv
               PROVE  LocksAreAccountedFor
    OBVIOUS
  <2>1. \A w \in Ops : stmt[w] = "row" =>
            w \in iterators \/ (kind[w] \in {"query", "first"} /\ out[w] = "bad")
    BY DEF Inv, OwnerInv, Owned
  <2>2. \A c \in Connections : pending[c] # {} =>
            \E v \in Ops : over[v] = c /\ writes[v] /\ stmt[v] = "row"
    BY DEF Inv, WriteInv
  <2> QED
    BY <2>1, <2>2 DEF LocksAreAccountedFor, GaveUp
<1> QED
  BY <1>1, Invariance, PTL

\* A connection that cannot be closed has told somebody about a failure, or was
\* asked for metadata or a savepoint.
THEOREM LeaksReported == Spec => []LeaksAreReported
<1>1. Inv => LeaksAreReported
  BY DEF Inv
<1> QED
  BY <1>1, Invariance, PTL

-----------------------------------------------------------------------------
(* Acknowledged writes, on a connection used as the actor uses it.         *)

\* Where no operation began beside an iterator, there is at most one.
SingleInv ==
    \A v, w \in iterators : over[v] = over[w] /\ over[v] \notin shared => v = w

AckInv == Inv /\ SingleInv /\ AckedIsCommitted

\* A write is committed when its statement stops, unless a query of the same
\* connection gave up: no iterator can be what it waits for.
LEMMA AckEffect ==
    ASSUME Inv, NEW w \in Ops, NEW c \in Connections, Touches(w, c),
           \A v \in iterators : over[v] = c => v = w,
           Completes(w, c, writes'[w]), writes'[w], Clean(c)'
    PROVE  w \in committed'
<1>1. ASSUME NEW v \in Ops \ {w}, over[v] = c, writes[v], stmt[v] = "row"
      PROVE  FALSE
  <2>1. v \notin iterators
    BY <1>1
  <2>2. kind[v] \in {"query", "first"} /\ out[v] = "bad"
    BY <1>1, <2>1 DEF Inv, OwnerInv, Owned
  <2> QED
    BY <1>1, <2>2 DEF Touches, Clean, GaveUp
<1> QED
  BY <1>1 DEF Completes, Halts, OtherWriter, With

\* The other operations keep what they were told and what was committed.
LEMMA AckFrame ==
    ASSUME Inv, AckedIsCommitted, NEW w \in Ops, NEW c \in Connections, Touches(w, c),
           committed \subseteq committed', shared \subseteq shared',
           out[w] = "none" \/ out'[w] = out[w],
           out'[w] \in {"ok", "tooMany"} /\ writes'[w] /\ Clean(c)' => w \in committed'
    PROVE  AckedIsCommitted'
<1> SUFFICES ASSUME NEW u \in Ops, writes'[u], out'[u] \in {"ok", "tooMany"}, Clean(over[u])'
             PROVE  u \in committed'
  BY DEF AckedIsCommitted
<1>1. CASE u = w
  BY <1>1 DEF Touches, Clean, GaveUp
<1>2. CASE u # w
  <2>1. over'[u] = over[u] /\ writes[u] /\ out[u] \in {"ok", "tooMany"}
    BY <1>2 DEF Touches
  <2>2. ASSUME NEW v \in Ops, over[v] = over[u], writes[v], kind[v] \in {"query", "first"}, out[v] = "bad"
        PROVE  FALSE
    <3>1. kind[v] # "none"
      BY <2>2
    <3>2. over'[v] = over[v] /\ writes'[v] = writes[v] /\ kind'[v] = kind[v] /\ out'[v] = out[v]
      BY <2>2, <3>1 DEF Touches
    <3> QED
      BY <2>1, <2>2, <3>2 DEF Clean, GaveUp
  <2>3. Clean(over[u])
    BY <2>1, <2>2 DEF Clean, GaveUp
  <2> QED
    BY <2>1, <2>3 DEF AckedIsCommitted
<1> QED
  BY <1>1, <1>2

LEMMA HaltsGrows ==
    ASSUME NEW w, NEW c, NEW ch, Halts(w, c, ch)
    PROVE  committed \subseteq committed'
BY DEF Halts

\* What an operation answers when it ends in one call.
LEMMA AckBegin ==
    ASSUME AckInv, NEW w \in Ops, NEW c \in Connections, Begin(w, c)
    PROVE  AckInv'
<1> USE DEF AckInv
<1>1. Inv'
  BY BeginStep
<1>2. {"execute", "query", "first", "iter", "inspect"} \subseteq Kinds
  BY DEF Kinds
<1>3. kind[w] = "none" => out[w] = "none" /\ w \notin iterators
  BY DEF Inv, UnusedInv
<1>4. ASSUME NEW k \in Kinds, NEW wr \in BOOLEAN, Call(w, c, k, wr), NEW st, NEW o, Returns(w, st, o),
             iterators' = iterators \/ iterators' = iterators \cup {w},
             committed \subseteq committed',
             o \in {"ok", "tooMany"} /\ wr => Completes(w, c, TRUE)
      PROVE  AckInv'
  <2>1. /\ Touches(w, c) /\ kind[w] = "none" /\ writes'[w] = wr /\ out'[w] = o
    BY <1>4, CallTouches
  <2>0. shared \subseteq shared' /\ (c \notin shared' => \A v \in iterators : over[v] # c)
    BY <1>4 DEF Call
  <2>2. o \in {"ok", "tooMany"} /\ wr /\ Clean(c)' => w \in committed'
    <3> SUFFICES ASSUME o \in {"ok", "tooMany"}, wr = TRUE, Clean(c)'
                 PROVE  w \in committed'
      BY <1>4
    <3>1. Completes(w, c, writes'[w]) /\ writes'[w]
      BY <1>4, <2>1
    <3>2. \A v \in iterators : over[v] # c
      BY <2>0 DEF Clean
    <3> QED
      BY <2>1, <3>1, <3>2, AckEffect
  <2>3. AckedIsCommitted'
    BY <1>3, <1>4, <2>0, <2>1, <2>2, AckFrame
  <2>4. SingleInv'
    <3>1. iterators \subseteq Ops /\ over'[w] = c /\ \A v \in Ops \ {w} : over'[v] = over[v]
      BY <2>1 DEF Touches, Inv, TypeOK
    <3>2. w \notin iterators
      BY <1>3, <2>1
    <3>3. \A v \in iterators : over'[v] = over[v] /\ v # w
      BY <3>1, <3>2
    <3> QED
      BY <1>4, <2>0, <3>1, <3>3 DEF SingleInv
  <2> QED
    BY <1>1, <2>3, <2>4
<1>5. ASSUME NEW k \in Kinds, NEW wr \in BOOLEAN, Refused(w, c, k, wr)
      PROVE  AckInv'
  BY <1>4, <1>5 DEF Refused, file
<1>6. ASSUME NEW wr \in BOOLEAN, Execute(w, c, wr)
      PROVE  AckInv'
  <2>1. Call(w, c, "execute", wr) /\ iterators' = iterators
    BY <1>6 DEF Execute
  <2>2. CASE Returns(w, "finalized", "ok") /\ Completes(w, c, wr)
    BY <1>2, <1>4, <2>1, <2>2, HaltsGrows DEF Completes
  <2>3. CASE Fails(w, c) /\ (Returns(w, "halted", "err") \/ Returns(w, "finalized", "err"))
    BY <1>2, <1>4, <2>1, <2>3 DEF Fails
  <2> QED
    BY <1>6, <2>2, <2>3 DEF Execute
<1>7. ASSUME NEW k \in {"query", "first"}, NEW wr \in BOOLEAN, Query(w, c, k, wr)
      PROVE  AckInv'
  <2>1. Call(w, c, k, wr) /\ iterators' = iterators /\ k \in Kinds
    BY <1>2, <1>7 DEF Query
  <2>2. ASSUME NEW o \in {"ok", "tooMany"}, Returns(w, "finalized", o), Completes(w, c, wr)
        PROVE  AckInv'
    BY <1>4, <2>1, <2>2, HaltsGrows DEF Completes
  <2>3. CASE Returns(w, "finalized", "err") /\ Fails(w, c)
    BY <1>4, <2>1, <2>3 DEF Fails
  <2>4. CASE Returns(w, "row", "bad") /\ Delivers(w, c, wr)
    BY <1>4, <2>1, <2>4 DEF Delivers
  <2> QED
    BY <1>7, <2>2, <2>3, <2>4 DEF Query
<1>8. CASE Inspect(w, c)
  BY <1>2, <1>4, <1>8 DEF Inspect, file
<1>9. ASSUME NEW wr \in BOOLEAN, Iter(w, c, wr)
      PROVE  AckInv'
  BY <1>2, <1>4, <1>9 DEF Iter, file
<1> QED
  BY <1>1, <1>5, <1>6, <1>7, <1>8, <1>9 DEF Begin

\* A step that calls no operation forgets no query that gave up.
LEMMA AckKept ==
    ASSUME Inv, AckedIsCommitted, UNCHANGED callers, committed \subseteq committed',
           \A u \in Ops : out'[u] # out[u] => out[u] = "none" /\ kind[u] = "iter",
           \A u \in Ops : out'[u] # out[u] /\ out'[u] \in {"ok", "tooMany"} /\ writes[u]
                              /\ Clean(over[u])' => u \in committed'
    PROVE  AckedIsCommitted'
<1>1. kind' = kind /\ over' = over /\ writes' = writes /\ shared' = shared
  BY DEF callers
<1> SUFFICES ASSUME NEW u \in Ops, writes'[u], out'[u] \in {"ok", "tooMany"}, Clean(over[u])'
             PROVE  u \in committed'
  BY DEF AckedIsCommitted
<1>2. ASSUME NEW v \in Ops, over[v] = over[u], writes[v], kind[v] \in {"query", "first"}, out[v] = "bad"
      PROVE  FALSE
  <2>1. out'[v] = "bad"
    BY <1>2
  <2> QED
    BY <1>1, <1>2, <2>1 DEF Clean, GaveUp
<1>3. Clean(over[u])
  BY <1>1, <1>2 DEF Clean, GaveUp
<1> QED
  BY <1>1, <1>3 DEF AckedIsCommitted

\* What an iterator answers and its drop commits.
LEMMA AckIterate ==
    ASSUME AckInv, NEW w \in Ops, Iterate(w)
    PROVE  AckInv'
<1> USE DEF AckInv
<1>1. Inv'
  BY IterateStep
<1>2. /\ w \in iterators /\ UNCHANGED <<handle, callers>>
      /\ iterators' \subseteq iterators /\ kind[w] = "iter"
  BY DEF Iterate, NextRow, NextDone, NextFails, DropIterator, Unfinished, Inv, TypeOK
<1>3. SingleInv'
  BY <1>2 DEF SingleInv, callers
<1>4. committed \subseteq committed'
  BY HaltsGrows DEF Iterate, NextRow, NextDone, NextFails, DropIterator, Completes, Fails, Delivers, file
<1>5. out \in [Ops -> {"none", "ok", "err", "bad", "tooMany"}]
  BY DEF Inv, TypeOK
<1>6. ASSUME NEW o \in {"none", "bad", "err"}, out[w] = "none", out' = [out EXCEPT ![w] = o]
      PROVE  AckedIsCommitted'
  BY <1>1, <1>2, <1>4, <1>5, <1>6, AckKept
<1>7. CASE NextDone(w)
  <2>1. /\ out[w] = "none" /\ Completes(w, over[w], writes[w])
        /\ stmt' = [stmt EXCEPT ![w] = "halted"] /\ out' = [out EXCEPT ![w] = "ok"]
        /\ iterators' = iterators
    BY <1>7 DEF NextDone, Unfinished, Returns
  <2>2. pending' \in [Connections -> SUBSET Ops] /\ committed' \in SUBSET Ops
    BY <1>1 DEF Inv, TypeOK
  <2>3. PICK c \in Connections : over[w] = c /\ Touches(w, c)
    BY <1>2, <2>1, <2>2, IterTouches
  <2>4. c \notin shared => \A v \in iterators : over[v] = c => v = w
    BY <1>2, <2>3 DEF SingleInv
  <2>5. over'[w] = c /\ writes'[w] = writes[w]
    BY <1>2, <2>3 DEF callers
  <2>6. writes[w] /\ Clean(over[w])' => w \in committed'
    <3> SUFFICES ASSUME writes[w], Clean(over[w])'
                 PROVE  w \in committed'
      OBVIOUS
    <3>1. Completes(w, c, writes'[w]) /\ writes'[w]
      BY <2>1, <2>3, <2>5
    <3>2. Clean(c)' /\ c \notin shared
      BY <1>2, <2>5 DEF Clean, GaveUp, callers
    <3> QED
      BY <2>3, <2>4, <3>1, <3>2, AckEffect
  <2>7. \A u \in Ops : out'[u] # out[u] => u = w
    BY <1>5, <2>1
  <2> QED
    BY <1>1, <1>2, <1>3, <1>4, <2>1, <2>6, <2>7, AckKept
<1>8. CASE NextRow(w) \/ NextFails(w)
  BY <1>1, <1>3, <1>6, <1>8 DEF NextRow, NextFails, Unfinished, Returns
<1>9. CASE DropIterator(w)
  BY <1>1, <1>2, <1>3, <1>4, <1>9, AckKept DEF DropIterator
<1> QED
  BY <1>7, <1>8, <1>9 DEF Iterate

LEMMA AckManage ==
    ASSUME AckInv, NEW c \in Connections, Manage(c)
    PROVE  AckInv'
<1>1. Inv'
  BY ManageStep DEF AckInv
<1>2. UNCHANGED <<callers, out, committed>> /\ iterators' \subseteq iterators
  BY DEF Manage, Open, OpenFails, Close, Exit, file
<1>3. SingleInv'
  BY <1>2 DEF AckInv, SingleInv, callers
<1>4. AckedIsCommitted'
  BY <1>2, AckKept DEF AckInv
<1> QED
  BY <1>1, <1>3, <1>4 DEF AckInv

LEMMA AckStep == AckInv /\ [Next]_vars => AckInv'
<1>1. AckInv /\ UNCHANGED vars => AckInv'
  <2> SUFFICES ASSUME AckInv, UNCHANGED vars
               PROVE  AckInv'
    OBVIOUS
  <2>1. Inv'
    BY NextInv DEF AckInv
  <2>2. SingleInv' /\ AckedIsCommitted'
    BY DEF AckInv, SingleInv, AckedIsCommitted, Clean, GaveUp, vars, callers, file
  <2> QED
    BY <2>1, <2>2 DEF AckInv
<1> QED
  BY <1>1, AckBegin, AckIterate, AckManage DEF Next

\* A connection says Ok to a write only when the write is in the file, until a
\* writing query gives up at a row or an operation begins beside an iterator.
THEOREM AckedCommitted == Spec => []AckedIsCommitted
<1>1. Init => AckInv
  <2>1. Init => SingleInv /\ AckedIsCommitted
    BY DEF Init, SingleInv, AckedIsCommitted
  <2> QED
    BY <2>1, InitInv DEF AckInv
<1>2. AckInv => AckedIsCommitted
  BY DEF AckInv
<1> QED
  BY <1>1, <1>2, AckStep, PTL DEF Spec
=============================================================================
