----------------------------- MODULE FifoProofs -----------------------------
(***************************************************************************)
(* Proof that the pointers of cv32e40p_fifo.sv implement the queue, for    *)
(* every set of words and every depth that has as many slots as its        *)
(* pointers have values: the powers of two from two on.                    *)
(***************************************************************************)
EXTENDS Fifo, SequenceTheorems, TLAPS

\* A pointer wraps at most once.
Wrap(x) == IF x < Depth THEN x ELSE x - Depth

\* The write pointer is as many slots behind the read pointer as words are held.
PointersOK ==
    /\ mem_q \in [Slots -> Word]
    /\ read_pointer_q \in Slots /\ status_cnt_q \in 0..Depth
    /\ write_pointer_q = Wrap(read_pointer_q + status_cnt_q)

-----------------------------------------------------------------------------
(* Pointers.                                                               *)

LEMMA Truncates ==
    ASSUME NEW d \in Nat \ {0}, NEW x \in 0..2*d-1
    PROVE  x % d = IF x < d THEN x ELSE x - d
OBVIOUS

LEMMA WrapsOnce == \A x \in 0..2*Depth-1 : x % Depth = Wrap(x)
<1>1. Depth \in Nat \ {0}
  BY FifoAssumption DEF FifoAssumption
<1> SUFFICES ASSUME NEW x \in 0..2*Depth-1
             PROVE  x % Depth = IF x < Depth THEN x ELSE x - Depth
  BY DEF Wrap
<1> QED
  BY <1>1, Truncates

\* With a power of two both ways to wrap are the same.
LEMMA Advances ==
    ASSUME Depth = PtrRange, NEW ptr \in Slots
    PROVE  /\ Advance(ptr) = Wrap(ptr + 1)
           /\ (ptr + 1) % PtrRange = Wrap(ptr + 1)
           /\ Wrap(ptr + 1) \in Slots
<1>1. Depth \in Nat \ {0} /\ Slots = 0..Depth-1
  BY FifoAssumption DEF FifoAssumption, Slots
<1>2. Depth % Depth = 0
  BY <1>1
<1>3. (ptr + 1) % Depth = Wrap(ptr + 1)
  <2>1. ptr + 1 \in 0..2*Depth-1
    BY <1>1
  <2> QED
    BY <2>1, WrapsOnce
<1> QED
  BY <1>1, <1>2, <1>3 DEF Advance, Wrap

\* The words are the slots from the read pointer on.
WordsFrom ==
    /\ Contents \in Seq(Word) /\ Len(Contents) = status_cnt_q
    /\ \A i \in 1..status_cnt_q : Contents[i] = mem_q[Wrap(read_pointer_q + i - 1)]

LEMMA WordsAre == PointersOK => WordsFrom
<1> SUFFICES ASSUME PointersOK PROVE WordsFrom
  OBVIOUS
<1>1. Depth \in Nat \ {0} /\ Slots = 0..Depth-1
  BY FifoAssumption DEF FifoAssumption, Slots
<1>2. ASSUME NEW i \in 1..status_cnt_q
      PROVE  /\ (read_pointer_q + i - 1) % Depth = Wrap(read_pointer_q + i - 1)
             /\ Wrap(read_pointer_q + i - 1) \in Slots
  <2>1. read_pointer_q + i - 1 \in 0..2*Depth-1
    BY <1>1 DEF PointersOK
  <2>2. Wrap(read_pointer_q + i - 1) \in Slots
    BY <1>1, <2>1 DEF Wrap
  <2> QED
    BY <2>1, <2>2, WrapsOnce
<1>3. Contents \in [1..status_cnt_q -> Word]
  BY <1>2 DEF Contents, PointersOK
<1>4. status_cnt_q \in Nat
  BY <1>1 DEF PointersOK
<1> QED
  BY <1>2, <1>3, <1>4 DEF Contents, WordsFrom

LEMMA WordsNext == PointersOK' => WordsFrom'
BY WordsAre, PTL

LEMMA EqualWords ==
    ASSUME NEW s \in Seq(Word), NEW t \in Seq(Word), Len(s) = Len(t),
           \A i \in 1..Len(s) : s[i] = t[i]
    PROVE  s = t
BY SeqEqual

-----------------------------------------------------------------------------
(* The arms of the sequential case.                                        *)

LEMMA FlushRefines ==
    ASSUME Depth = PtrRange, PointersOK, NEW push \in BOOLEAN, NEW data \in Word,
           Flush(push, data)
    PROVE  PointersOK' /\ Contents' = <<>>
<1>1. Depth \in Nat \ {0} /\ Slots = 0..Depth-1
  BY FifoAssumption DEF FifoAssumption, Slots
<1>2. mem_q' \in [Slots -> Word]
  BY DEF Flush, Store, PointersOK
<1>3. PointersOK' /\ status_cnt_q' = 0
  BY <1>1, <1>2 DEF Flush, PointersOK, Wrap
<1>4. Contents' \in Seq(Word) /\ Len(Contents') = 0
  BY <1>3, WordsNext DEF WordsFrom
<1> QED
  BY <1>3, <1>4, EmptySeq

\* The slot a word is pushed to holds none of the words that are kept.
LEMMA Stores ==
    ASSUME PointersOK, NEW push \in BOOLEAN, NEW data \in Word, Store(push, data)
    PROVE  /\ mem_q' \in [Slots -> Word]
           /\ \A i \in 1..status_cnt_q :
                mem_q'[Wrap(read_pointer_q + i - 1)] = mem_q[Wrap(read_pointer_q + i - 1)]
           /\ push /\ ~full_o => mem_q'[write_pointer_q] = data
<1>1. Depth \in Nat \ {0} /\ Slots = 0..Depth-1
  BY FifoAssumption DEF FifoAssumption, Slots
<1>2. write_pointer_q \in Slots
  BY <1>1 DEF PointersOK, Wrap
<1>3. ~full_o => \A i \in 1..status_cnt_q : Wrap(read_pointer_q + i - 1) # write_pointer_q
  BY <1>1 DEF PointersOK, Wrap, full_o
<1>4. \A i \in 1..status_cnt_q : Wrap(read_pointer_q + i - 1) \in Slots
  BY <1>1 DEF PointersOK, Wrap
<1> QED
  BY <1>2, <1>3, <1>4 DEF Store, PointersOK

LEMMA FlushButFirstRefines ==
    ASSUME Depth = PtrRange, PointersOK, NEW push \in BOOLEAN, NEW data \in Word,
           FlushButFirst(push, data)
    PROVE  /\ PointersOK'
           /\ Contents' = SubSeq(Contents, 1, IF Contents = <<>> THEN 0 ELSE 1)
<1>1. Depth \in Nat \ {0} /\ Slots = 0..Depth-1
  BY FifoAssumption DEF FifoAssumption, Slots
<1>2. /\ mem_q' \in [Slots -> Word]
      /\ \A i \in 1..status_cnt_q :
           mem_q'[Wrap(read_pointer_q + i - 1)] = mem_q[Wrap(read_pointer_q + i - 1)]
  BY Stores DEF FlushButFirst
<1>3. /\ Contents \in Seq(Word) /\ Len(Contents) = status_cnt_q
      /\ \A i \in 1..status_cnt_q : Contents[i] = mem_q[Wrap(read_pointer_q + i - 1)]
  BY WordsAre DEF WordsFrom
<1>4. CASE status_cnt_q = 0
  <2>1. PointersOK' /\ status_cnt_q' = 0
    BY <1>1, <1>2, <1>4 DEF FlushButFirst, PointersOK, Wrap
  <2>2. Contents' \in Seq(Word) /\ Len(Contents') = 0
    BY <2>1, WordsNext DEF WordsFrom
  <2>3. Contents' = <<>> /\ Contents = <<>>
    BY <1>3, <1>4, <2>2, EmptySeq
  <2> QED
    BY <2>1, <2>3
<1>5. CASE status_cnt_q > 0
  <2>1. read_pointer_q' = read_pointer_q /\ status_cnt_q' = 1
    BY <1>5 DEF FlushButFirst
  <2>2. write_pointer_q' = Wrap(read_pointer_q + 1) /\ Wrap(read_pointer_q + 1) \in Slots
    BY <1>5, Advances DEF FlushButFirst, PointersOK
  <2>3. PointersOK'
    BY <1>1, <1>2, <2>1, <2>2 DEF PointersOK, Wrap
  <2>4. /\ Contents' \in Seq(Word) /\ Len(Contents') = 1
        /\ Contents'[1] = mem_q'[Wrap(read_pointer_q + 1 - 1)]
    BY <2>1, <2>3, WordsNext DEF WordsFrom
  <2>5. Contents'[1] = Contents[1] /\ Len(Contents) >= 1
    BY <1>1, <1>2, <1>3, <1>5, <2>4 DEF PointersOK
  <2>6. SubSeq(Contents, 1, 1) \in Seq(Word) /\ Len(SubSeq(Contents, 1, 1)) = 1
        /\ SubSeq(Contents, 1, 1)[1] = Contents[1]
    BY <1>3, <2>5
  <2>7. Contents' = SubSeq(Contents, 1, 1)
    BY <2>4, <2>5, <2>6, EqualWords
  <2>8. Contents # <<>>
    BY <2>5
  <2> QED
    BY <2>3, <2>7, <2>8
<1> QED
  BY <1>1, <1>4, <1>5 DEF PointersOK

LEMMA ReadWriteRefines ==
    ASSUME Depth = PtrRange, PointersOK, NEW push \in BOOLEAN, NEW data \in Word,
           NEW pop \in BOOLEAN, ReadWrite(push, data, pop)
    PROVE  PointersOK' /\ Contents' = Queue!PushPop(push, data, pop)
<1> DEFINE pushing == push /\ ~full_o
           popping == pop /\ ~empty_o
           gone    == IF popping THEN 1 ELSE 0
           come    == IF pushing THEN 1 ELSE 0
<1>1. Depth \in Nat \ {0} /\ Slots = 0..Depth-1
  BY FifoAssumption DEF FifoAssumption, Slots
<1>2. /\ mem_q' \in [Slots -> Word]
      /\ \A i \in 1..status_cnt_q :
           mem_q'[Wrap(read_pointer_q + i - 1)] = mem_q[Wrap(read_pointer_q + i - 1)]
      /\ pushing => mem_q'[write_pointer_q] = data
  BY Stores DEF ReadWrite
<1>3. /\ Contents \in Seq(Word) /\ Len(Contents) = status_cnt_q
      /\ \A i \in 1..status_cnt_q : Contents[i] = mem_q[Wrap(read_pointer_q + i - 1)]
  BY WordsAre DEF WordsFrom
<1>4. /\ status_cnt_q \in 0..Depth /\ read_pointer_q \in Slots
      /\ write_pointer_q = Wrap(read_pointer_q + status_cnt_q) /\ write_pointer_q \in Slots
  BY <1>1 DEF PointersOK, Wrap
<1>5. /\ gone \in 0..1 /\ come \in 0..1 /\ gone =< status_cnt_q
      /\ status_cnt_q + come =< Depth
  BY <1>1, <1>4 DEF empty_o, full_o
<1>6. /\ status_cnt_q' = status_cnt_q + come - gone
      /\ read_pointer_q' = Wrap(read_pointer_q + gone)
      /\ write_pointer_q' = Wrap(write_pointer_q + come)
  <2>1. status_cnt_q' = status_cnt_q + come - gone
    BY <1>1, <1>4 DEF ReadWrite
  <2>2. read_pointer_q' = Wrap(read_pointer_q + gone)
    BY <1>1, <1>4, Advances DEF ReadWrite, Wrap
  <2>3. write_pointer_q' = Wrap(write_pointer_q + come)
    BY <1>1, <1>4, Advances DEF ReadWrite, Wrap
  <2> QED
    BY <2>1, <2>2, <2>3
<1> HIDE DEF gone, come
<1>7. read_pointer_q' \in Slots /\ status_cnt_q' \in 0..Depth
  BY <1>1, <1>4, <1>5, <1>6 DEF Wrap
<1>8. write_pointer_q' = Wrap(read_pointer_q' + status_cnt_q')
  BY <1>1, <1>4, <1>5, <1>6 DEF Wrap
<1>9. PointersOK'
  BY <1>2, <1>7, <1>8 DEF PointersOK
<1>10. /\ Contents' \in Seq(Word) /\ Len(Contents') = status_cnt_q + come - gone
       /\ \A i \in 1..status_cnt_q' : Contents'[i] = mem_q'[Wrap(read_pointer_q' + i - 1)]
  BY <1>6, <1>9, WordsNext DEF WordsFrom
\* The words that stay, and the one that comes.
<1>11. ASSUME NEW i \in 1..status_cnt_q - gone
       PROVE  Contents'[i] = Contents[i + gone]
  <2>1. i \in 1..status_cnt_q' /\ i + gone \in 1..status_cnt_q
    BY <1>1, <1>4, <1>5, <1>6
  <2>2. Wrap(read_pointer_q' + i - 1) = Wrap(read_pointer_q + (i + gone) - 1)
    BY <1>1, <1>4, <1>5, <1>6, <2>1 DEF Wrap
  <2> QED
    BY <1>2, <1>3, <1>10, <2>1, <2>2
<1>12. pushing => Contents'[status_cnt_q + 1 - gone] = data
  <2> SUFFICES ASSUME pushing PROVE Contents'[status_cnt_q + 1 - gone] = data
    OBVIOUS
  <2>1. come = 1
    BY DEF come
  <2>2. status_cnt_q + 1 - gone \in 1..status_cnt_q'
    BY <1>1, <1>4, <1>5, <1>6, <2>1
  <2>3. Wrap(read_pointer_q' + (status_cnt_q + 1 - gone) - 1) = write_pointer_q
    BY <1>1, <1>4, <1>5, <1>6, <2>1 DEF Wrap
  <2> QED
    BY <1>2, <1>10, <2>2, <2>3
<1> DEFINE rest == IF pop /\ Contents # <<>> THEN Tail(Contents) ELSE Contents
<1>13. /\ rest \in Seq(Word) /\ Len(rest) = status_cnt_q - gone
       /\ \A i \in 1..status_cnt_q - gone : rest[i] = Contents[i + gone]
  <2>1. popping <=> pop /\ Contents # <<>>
    BY <1>3, <1>4, EmptySeq DEF empty_o
  <2>2. CASE popping
    <3>1. rest = Tail(Contents) /\ gone = 1 /\ Len(Contents) >= 1 /\ Contents \in Seq(Word)
      BY <1>3, <1>5, <2>1, <2>2 DEF gone
    <3>2. /\ Tail(Contents) \in Seq(Word) /\ Len(Tail(Contents)) = Len(Contents) - 1
          /\ \A i \in 1..Len(Contents) - 1 : Tail(Contents)[i] = Contents[i + 1]
      BY <3>1
    <3> HIDE DEF rest
    <3> QED
      BY <1>3, <3>1, <3>2
  <2>3. CASE ~popping
    <3>1. rest = Contents /\ gone = 0
      BY <2>1, <2>3 DEF gone
    <3> HIDE DEF rest
    <3> QED
      BY <1>3, <1>4, <3>1
  <2> QED
    BY <2>2, <2>3
<1> HIDE DEF rest
<1>14. pushing <=> push /\ Len(Contents) < Depth
  BY <1>1, <1>3, <1>4 DEF full_o
<1>15. Queue!PushPop(push, data, pop) = IF pushing THEN Append(rest, data) ELSE rest
  BY <1>14 DEF Queue!PushPop, rest
<1>16. CASE pushing
  <2>1. come = 1
    BY <1>16 DEF come
  <2>2. /\ Append(rest, data) \in Seq(Word) /\ Len(Append(rest, data)) = status_cnt_q + 1 - gone
        /\ \A i \in 1..status_cnt_q - gone : Append(rest, data)[i] = rest[i]
        /\ Append(rest, data)[status_cnt_q + 1 - gone] = data
    BY <1>4, <1>5, <1>13
  <2>3. \A i \in 1..status_cnt_q + 1 - gone :
          i \in 1..status_cnt_q - gone \/ i = status_cnt_q + 1 - gone
    BY <1>4, <1>5
  <2> QED
    BY <1>9, <1>10, <1>11, <1>12, <1>13, <1>15, <1>16, <2>1, <2>2, <2>3, EqualWords
<1>17. CASE ~pushing
  <2>1. come = 0 /\ status_cnt_q + come - gone = status_cnt_q - gone
    BY <1>4, <1>5, <1>17 DEF come
  <2> QED
    BY <1>9, <1>10, <1>11, <1>13, <1>15, <1>17, <2>1, EqualWords
<1> QED
  BY <1>16, <1>17

LEMMA PointersInit == Init => PointersOK /\ Queue!Init
<1> SUFFICES ASSUME Init PROVE PointersOK /\ Queue!Init
  OBVIOUS
<1>1. Depth \in Nat \ {0} /\ Slots = 0..Depth-1 /\ ResetWord \in Word
  BY FifoAssumption DEF FifoAssumption, Slots
<1>2. PointersOK
  BY <1>1 DEF Init, PointersOK, Wrap
<1>3. Contents \in Seq(Word) /\ Len(Contents) = 0
  BY <1>2, WordsAre DEF WordsFrom, Init
<1> QED
  BY <1>2, <1>3, EmptySeq DEF Queue!Init

LEMMA PointersStep ==
    Depth = PtrRange =>
      (PointersOK /\ [Next]_vars => PointersOK' /\ [Queue!Next]_Contents)
<1> SUFFICES ASSUME Depth = PtrRange, PointersOK, [Next]_vars
             PROVE  PointersOK' /\ [Queue!Next]_Contents
  OBVIOUS
<1>1. ASSUME NEW push \in BOOLEAN, NEW pop \in BOOLEAN, NEW data \in Word,
             \/ Flush(push, data) \/ FlushButFirst(push, data) \/ ReadWrite(push, data, pop)
      PROVE  PointersOK' /\ Queue!Next
  <2>1. CASE Flush(push, data)
    <3>1. PointersOK' /\ Queue!Cycle(TRUE, FALSE, push, data, pop)
      BY <2>1, FlushRefines DEF Queue!Cycle
    <3> QED  BY <3>1 DEF Queue!Next
  <2>2. CASE FlushButFirst(push, data)
    <3>1. PointersOK' /\ Queue!Cycle(FALSE, TRUE, push, data, pop)
      BY <2>2, FlushButFirstRefines DEF Queue!Cycle
    <3> QED  BY <3>1 DEF Queue!Next
  <2>3. CASE ReadWrite(push, data, pop)
    <3>1. PointersOK' /\ Queue!Cycle(FALSE, FALSE, push, data, pop)
      BY <2>3, ReadWriteRefines DEF Queue!Cycle
    <3> QED  BY <3>1 DEF Queue!Next
  <2> QED  BY <1>1, <2>1, <2>2, <2>3
<1>2. CASE UNCHANGED vars
  BY <1>2 DEF vars, PointersOK, Contents
<1> QED
  BY <1>1, <1>2 DEF Next

\* Where the pointers have as many values as there are slots, cv32e40p_fifo behaves as
\* the bounded queue, for every sequence of pushes, pops and both flushes.
THEOREM QueueImplemented ==
    ASSUME Depth = PtrRange
    PROVE  Spec => ImplementsQueue
<1>1. PointersOK /\ [Next]_vars => PointersOK' /\ [Queue!Next]_Contents
  BY PointersStep
<1> QED
  BY <1>1, PointersInit, PTL DEF Spec, ImplementsQueue, Queue!Spec

\* The hypothesis holds of the depth the core sets.
LEMMA DepthOfTheCore == Depth = 2 => Depth = PtrRange
<1> SUFFICES ASSUME Depth = 2 PROVE PtrRange = 2
  OBVIOUS
<1>1. 2^0 = 1 /\ 2^1 = 2 /\ 2^2 = 4
  OBVIOUS
<1>2. 1..2 = {1, 2} /\ 1 - 1 = 0 /\ 2 - 1 = 1
  OBVIOUS
<1>3. \A n \in 1..2 : 2^n >= 2 /\ 2^(n-1) < 2 <=> n = 1
  <2> SUFFICES ASSUME NEW n \in {1, 2} PROVE 2^n >= 2 /\ 2^(n-1) < 2 <=> n = 1
    BY <1>2
  <2>1. CASE n = 1
    <3>1. 2^n = 2 /\ 2^(n-1) = 1
      BY <1>1, <1>2, <2>1
    <3> QED
      BY <2>1, <3>1
  <2>2. CASE n = 2
    <3>1. 2^n = 4 /\ 2^(n-1) = 2
      BY <1>1, <1>2, <2>2
    <3> QED
      BY <2>2, <3>1
  <2> QED
    BY <2>1, <2>2
<1>4. AddrDepth = 1
  BY <1>2, <1>3 DEF AddrDepth
<1> QED
  BY <1>1, <1>4 DEF PtrRange
=============================================================================
