---------------------- MODULE ExecutionSerializerProofs ----------------------
(***************************************************************************)
(* Proofs about the execution serializer, for any number of operations.      *)
(*                                                                         *)
(* That only the head of the line runs is not inductive: the step that       *)
(* begins an operation looks at the promise it waits for and knows nothing   *)
(* of the line.  The invariant ties the two together.  The line holds each   *)
(* operation that is not settled once, all but the first of them wait for    *)
(* the one before, and the next to be asked for will wait for the last.      *)
(***************************************************************************)
EXTENDS ExecutionSerializer, SequenceTheorems, TLAPS

Open(o) == promise[o] \in {"waiting", "running"}

ESTypeOK ==
    /\ last \in Ops \cup {None}
    /\ after \in [Ops -> Ops \cup {None}]
    /\ promise \in [Ops -> {"unused", "waiting", "running", "fulfilled", "rejected"}]
    /\ line \in Seq(Ops)

InLineOnce == \A i, j \in 1 .. Len(line) : line[i] = line[j] => i = j
LineIsOpen == \A i \in 1 .. Len(line) : Open(line[i])
OpenIsInLine == \A o \in Ops : Open(o) => \E i \in 1 .. Len(line) : line[i] = o
EachAfterNext == \A i \in 2 .. Len(line) :
    promise[line[i]] = "waiting" /\ after[line[i]] = line[i - 1]
LastIsLast == Len(line) > 0 => last = line[Len(line)]

ESInv == ESTypeOK /\ InLineOnce /\ LineIsOpen /\ OpenIsInLine /\ EachAfterNext /\ LastIsLast

-----------------------------------------------------------------------------
\* Nothing is asked for at first.
LEMMA ESInitInv == ESInit => ESInv
BY DEF ESInit, ESInv, ESTypeOK, InLineOnce, LineIsOpen, OpenIsInLine, EachAfterNext, LastIsLast, Open

\* What runs is at the head of the line: all others in it wait.
LEMMA RunningIsHead ==
    ASSUME ESInv, NEW o \in Ops, promise[o] = "running"
    PROVE  Len(line) > 0 /\ line[1] = o
<1>1. PICK i \in 1 .. Len(line) : line[i] = o
  BY DEF ESInv, OpenIsInLine, Open
<1>2. line \in Seq(Ops) /\ Len(line) \in Nat
  BY DEF ESInv, ESTypeOK
<1>3. i \notin 2 .. Len(line)
  BY <1>1 DEF ESInv, EachAfterNext
<1>4. i = 1
  BY <1>1, <1>2, <1>3
<1> QED
  BY <1>1, <1>2, <1>4

\* execute preserves the invariant: the new operation goes to the end of the line
\* and waits for the one that was the last.
LEMMA ExecuteInv ==
    ASSUME ESInv, NEW o \in Ops, Execute(o)
    PROVE  ESInv'
<1> USE DEF ESInv, ESTypeOK
<1>1. /\ line \in Seq(Ops) /\ Len(line) \in Nat
      /\ Len(line') = Len(line) + 1
      /\ \A i \in 1 .. Len(line) : line'[i] = line[i]
      /\ line'[Len(line) + 1] = o
  BY DEF Execute
<1>2. \A i \in 1 .. Len(line) : line[i] \in Ops /\ line[i] # o
  BY DEF Execute, Fresh, LineIsOpen, Open
<1>3. /\ promise'[o] = "waiting" /\ after'[o] = last
      /\ \A q \in Ops \ {o} : promise'[q] = promise[q] /\ after'[q] = after[q]
  BY DEF Execute
<1>4. \A i \in 1 .. Len(line') : i \in 1 .. Len(line) \/ i = Len(line) + 1
  BY <1>1
<1>5. ESTypeOK'
  BY DEF Execute
<1>6. InLineOnce'
  BY <1>1, <1>2, <1>4 DEF InLineOnce
<1>7. LineIsOpen'
  BY <1>1, <1>2, <1>3, <1>4 DEF LineIsOpen, Open
<1>8. OpenIsInLine'
  <2> SUFFICES ASSUME NEW q \in Ops, Open(q)'
               PROVE  \E i \in 1 .. Len(line') : line'[i] = q
    BY DEF OpenIsInLine
  <2>1. CASE q = o
    BY <2>1, <1>1
  <2>2. CASE q # o
    <3>1. PICK i \in 1 .. Len(line) : line[i] = q
      BY <2>2, <1>3 DEF Open, OpenIsInLine
    <3> QED
      BY <3>1, <1>1
  <2> QED
    BY <2>1, <2>2
<1>9. EachAfterNext'
  <2> SUFFICES ASSUME NEW i \in 2 .. Len(line')
               PROVE  promise'[line'[i]] = "waiting" /\ after'[line'[i]] = line'[i - 1]
    BY DEF EachAfterNext
  <2>1. CASE i = Len(line) + 1
    <3>1. i - 1 = Len(line) /\ Len(line) \in 1 .. Len(line)
      BY <2>1, <1>1
    <3>2. line'[i] = o /\ line'[i - 1] = line[Len(line)]
      BY <3>1, <2>1, <1>1
    <3> QED
      BY <3>1, <3>2, <1>3 DEF LastIsLast
  <2>2. CASE i \in 2 .. Len(line)
    <3>1. line'[i] = line[i] /\ line'[i - 1] = line[i - 1] /\ line[i] \in Ops \ {o}
      BY <2>2, <1>1, <1>2
    <3> QED
      BY <3>1, <2>2, <1>3 DEF EachAfterNext
  <2> QED
    BY <2>1, <2>2, <1>1
<1>10. LastIsLast'
  BY <1>1 DEF Execute, LastIsLast
<1> QED
  BY <1>5, <1>6, <1>7, <1>8, <1>9, <1>10

\* An operation that can begin is the first in the line: the predecessor of any
\* other is in the line too, and what is in the line is not settled.
LEMMA OnlyFirstBegins ==
    ASSUME ESInv, NEW o \in Ops, CanBegin(o)
    PROVE  Len(line) > 0 /\ line[1] = o
<1>1. line \in Seq(Ops) /\ Len(line) \in Nat
  BY DEF ESInv, ESTypeOK
<1>2. PICK i \in 1 .. Len(line) : line[i] = o
  BY DEF ESInv, OpenIsInLine, Open, CanBegin
<1>3. ASSUME i \in 2 .. Len(line) PROVE FALSE
  <2>1. after[o] = line[i - 1] /\ i - 1 \in 1 .. Len(line)
    BY <1>1, <1>2, <1>3 DEF ESInv, EachAfterNext
  <2>2. after[o] \in Ops /\ Open(after[o])
    BY <2>1, <1>1 DEF ESInv, LineIsOpen
  <2> QED
    BY <2>2 DEF CanBegin, Settled, Open
<1> QED
  BY <1>1, <1>2, <1>3

\* The step that begins an operation preserves the invariant: of the line it only
\* touches the first.
LEMMA BeginInv ==
    ASSUME ESInv, NEW o \in Ops, Begin(o)
    PROVE  ESInv'
<1>1. line' = line /\ last' = last /\ line \in Seq(Ops) /\ Len(line) \in Nat
  BY DEF Begin, ESInv, ESTypeOK
<1>2. Len(line) > 0 /\ line[1] = o
  BY OnlyFirstBegins DEF Begin
<1>3. \A i \in 2 .. Len(line) : line[i] \in Ops /\ line[i] # o
  BY <1>1, <1>2 DEF ESInv, InLineOnce
<1>4. \A q \in Ops : Open(q) => q # after[o]
  BY DEF Begin, CanBegin, Settled, Open
<1>5. /\ promise'[o] = "running"
      /\ \A q \in Ops \ {o} : after'[q] = after[q] /\ (Open(q) => promise'[q] = promise[q])
      /\ \A q \in Ops \ {o} : Open(q)' => Open(q)
  BY <1>4 DEF Begin, Open, ESInv, ESTypeOK
<1>6. ESTypeOK'
  BY DEF Begin, ESInv, ESTypeOK
<1>7. InLineOnce'
  BY <1>1 DEF ESInv, InLineOnce
<1>8. LineIsOpen'
  <2> SUFFICES ASSUME NEW i \in 1 .. Len(line) PROVE Open(line[i])'
    BY <1>1 DEF LineIsOpen
  <2>1. CASE i = 1
    BY <2>1, <1>1, <1>2, <1>5 DEF Open
  <2>2. CASE i \in 2 .. Len(line)
    <3>1. line[i] \in Ops \ {o} /\ Open(line[i])
      BY <2>2, <1>3 DEF ESInv, LineIsOpen
    <3> QED
      BY <3>1, <1>1, <1>5 DEF Open
  <2> QED
    BY <2>1, <2>2, <1>1
<1>9. OpenIsInLine'
  <2> SUFFICES ASSUME NEW q \in Ops, Open(q)'
               PROVE  \E i \in 1 .. Len(line) : line[i] = q
    BY <1>1 DEF OpenIsInLine
  <2>1. Open(q)
    BY <1>5 DEF Begin, CanBegin, Open
  <2> QED
    BY <2>1 DEF ESInv, OpenIsInLine
<1>10. EachAfterNext'
  <2> SUFFICES ASSUME NEW i \in 2 .. Len(line)
               PROVE  promise'[line[i]] = "waiting" /\ after'[line[i]] = line[i - 1]
    BY <1>1 DEF EachAfterNext
  <2>1. /\ line[i] \in Ops \ {o} /\ Open(line[i])
        /\ promise[line[i]] = "waiting" /\ after[line[i]] = line[i - 1]
    BY <1>1, <1>3 DEF ESInv, LineIsOpen, EachAfterNext, Open
  <2> QED
    BY <2>1, <1>5
<1>11. LastIsLast'
  BY <1>1 DEF ESInv, LastIsLast
<1> QED
  BY <1>6, <1>7, <1>8, <1>9, <1>10, <1>11 DEF ESInv

\* The settling of a promise preserves the invariant: it was the first in line,
\* and the second becomes the first.
LEMMA SettleInv ==
    ASSUME ESInv, NEW o \in Ops, NEW v \in {"fulfilled", "rejected"}, Settle(o, v)
    PROVE  ESInv'
<1>1. line \in Seq(Ops) /\ Len(line) \in Nat /\ Len(line) > 0 /\ line[1] = o
  BY RunningIsHead DEF Settle, ESInv, ESTypeOK
<1>2. /\ line' = Tail(line) /\ line' \in Seq(Ops)
      /\ Len(line') = Len(line) - 1
      /\ \A i \in 1 .. Len(line') : line'[i] = line[i + 1] /\ i + 1 \in 2 .. Len(line)
  BY <1>1 DEF Settle
<1>3. \A i \in 2 .. Len(line) : line[i] \in Ops /\ line[i] # o
  BY <1>1 DEF ESInv, InLineOnce
<1>4. /\ ~Open(o)' /\ after' = after /\ last' = last
      /\ \A q \in Ops \ {o} : promise'[q] = promise[q]
  BY DEF Settle, Open, ESInv, ESTypeOK
<1>5. ESTypeOK'
  BY <1>2 DEF Settle, ESInv, ESTypeOK
<1>6. InLineOnce'
  BY <1>1, <1>2 DEF ESInv, InLineOnce
<1>7. LineIsOpen'
  BY <1>1, <1>2, <1>3, <1>4 DEF ESInv, LineIsOpen, Open
<1>8. OpenIsInLine'
  <2> SUFFICES ASSUME NEW q \in Ops, Open(q)'
               PROVE  \E i \in 1 .. Len(line') : line'[i] = q
    BY DEF OpenIsInLine
  <2>1. q # o /\ Open(q)
    BY <1>4 DEF Open
  <2>2. PICK i \in 1 .. Len(line) : line[i] = q
    BY <2>1 DEF ESInv, OpenIsInLine
  <2>3. i # 1 /\ i - 1 \in 1 .. Len(line') /\ line'[i - 1] = line[i]
    BY <2>1, <2>2, <1>1, <1>2
  <2> QED
    BY <2>2, <2>3
<1>9. EachAfterNext'
  <2> SUFFICES ASSUME NEW i \in 2 .. Len(line')
               PROVE  promise'[line'[i]] = "waiting" /\ after'[line'[i]] = line'[i - 1]
    BY DEF EachAfterNext
  <2>1. i + 1 \in 2 .. Len(line) /\ line'[i] = line[i + 1] /\ line'[i - 1] = line[i]
    BY <1>1, <1>2
  <2>2. promise[line[i + 1]] = "waiting" /\ after[line[i + 1]] = line[i]
    BY <2>1, <1>1 DEF ESInv, EachAfterNext
  <2> QED
    BY <2>1, <2>2, <1>3, <1>4
<1>10. LastIsLast'
  BY <1>1, <1>2, <1>4 DEF ESInv, LastIsLast
<1> QED
  BY <1>5, <1>6, <1>7, <1>8, <1>9, <1>10 DEF ESInv

\* Every step of the serializer, and of the process that ends, preserves it.
LEMMA ESNextInv == ESInv /\ [ESNext]_esVars => ESInv'
<1> SUFFICES ASSUME ESInv, [ESNext]_esVars PROVE ESInv'
  OBVIOUS
<1>1. CASE \E o \in Ops : Execute(o)
  BY <1>1, ExecuteInv
<1>2. CASE \E o \in Ops : Begin(o)
  BY <1>2, BeginInv
<1>3. CASE \E o \in Ops, v \in {"fulfilled", "rejected"} : Settle(o, v)
  BY <1>3, SettleInv
<1>4. CASE Forget
  BY <1>4 DEF Forget, ESInv, ESTypeOK, InLineOnce, LineIsOpen, OpenIsInLine, EachAfterNext,
              LastIsLast, Open
<1>5. CASE UNCHANGED esVars
  BY <1>5 DEF esVars, ESInv, ESTypeOK, InLineOnce, LineIsOpen, OpenIsInLine, EachAfterNext,
              LastIsLast, Open
<1> QED
  BY <1>1, <1>2, <1>3, <1>4, <1>5 DEF ESNext

\* The invariant holds in every state of the serializer.
THEOREM SerializerInvariant == ESSpec => []ESInv
<1> QED
  BY ESInitInv, ESNextInv, PTL DEF ESSpec

\* Whatever is asked for, in whatever order promises are settled, and whether they
\* are fulfilled or rejected, an operation runs only at the head of the line: one
\* at a time, in the order asked (ExecutionSerializerImpl.execute).
THEOREM SerializerServesInOrder == ESSpec => []ServedInOrder
<1>1. ESInv => ServedInOrder
  <2> SUFFICES ASSUME ESInv, NEW o \in Ops, promise[o] = "running"
               PROVE  line # <<>> /\ Head(line) = o
    BY DEF ServedInOrder
  <2>1. line \in Seq(Ops) /\ Len(line) > 0 /\ line[1] = o
    BY RunningIsHead DEF ESInv, ESTypeOK
  <2> QED
    BY <2>1
<1> QED
  BY <1>1, SerializerInvariant, PTL
=============================================================================
