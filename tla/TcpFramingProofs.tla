-------------------------- MODULE TcpFramingProofs --------------------------
(***************************************************************************)
(* Theorems about TcpFraming: every index and length of the receiver stays *)
(* inside its buffer, whatever the card sends and however it is cut, and a *)
(* frame found among the cells just received is one the card sent.         *)
(***************************************************************************)
EXTENDS TcpFraming, SequenceTheorems, TLAPS

USE DEF HeaderSize

(* splic_index and, inside parsePkg, curpkg_index and length.              *)
Indices ==
  /\ pc \in {"accept", "recv"} => splic_index <= FrameSize
  /\ splic_index <= FrameSize + RECV_SIZE
  /\ pc \in {"scan", "save"} =>
       /\ curpkg_index <= length
       /\ length <= IF inLast THEN LAST_BUFFER_SZIE ELSE SPLIC_PACK_SZIE

IInv == TypeOK /\ Indices

\* The number of cells is a natural number.
LEMMA CellCount == Frames * FrameSize \in Nat /\ 0 \in Cells
  BY TcpFramingAssumption DEF TcpFramingAssumption, Cells

\* The end of a frame the card sends is a position of the stream.
LEMMA FrameEnd == ASSUME NEW k \in 0..Frames PROVE k * FrameSize \in Cells
<1>1. /\ k \in Nat /\ Frames \in Nat /\ FrameSize \in Nat /\ k <= Frames
  BY TcpFramingAssumption DEF TcpFramingAssumption
<1>2. k * FrameSize \in Nat /\ k * FrameSize <= Frames * FrameSize
  BY <1>1, SMTT(30)
<1> QED BY <1>2, CellCount DEF Cells

\* Every cell of the stream holds a number.
LEMMA StreamType ==
  ASSUME NEW data \in [DataCells -> Noise] PROVE Stream(data) \in [Cells -> Nat]
<1>1. Noise \subseteq Nat /\ FrameSize - HeaderSize \in Nat
  BY TcpFramingAssumption DEF TcpFramingAssumption
<1>2. \A p \in DataCells : data[p] \in Nat
  BY <1>1
<1>3. DATA_HEAD \in Nat /\ DATA_CHECK_VALUE \in Nat
  BY DEF DATA_HEAD, DATA_CHECK_VALUE
<1> QED BY <1>1, <1>2, <1>3 DEF Stream

\* memcpy keeps the size of a buffer, and its cells are cells.
LEMMA CopiedType ==
  ASSUME NEW size \in Nat, NEW buffer \in [1..size -> Cells], NEW at \in Nat,
         NEW n \in Nat, NEW t, \A i \in 1..n : t[i] \in Cells
  PROVE  Copied(buffer, at, t, n) \in [1..size -> Cells]
<1>1. ASSUME NEW i \in 1..size, i \in at + 1 .. at + n PROVE t[i - at] \in Cells
  <2>1. i - at \in 1..n BY <1>1
  <2> QED BY <2>1
<1> QED BY <1>1 DEF Copied

\* What lies at an offset of `buffer' is a cell.
LEMMA AtType == ASSUME TypeOK, NEW i \in Nat PROVE At(i) \in Cells
<1> USE TcpFramingAssumption DEF TcpFramingAssumption
<1>1. CASE inLast /\ i < LAST_BUFFER_SZIE
  <2>1. i + 1 \in 1..LAST_BUFFER_SZIE BY <1>1
  <2>2. last_loop_buffer \in [1..LAST_BUFFER_SZIE -> Cells] BY DEF TypeOK
  <2>3. At(i) = last_loop_buffer[i + 1] BY <1>1, Zenon DEF At
  <2> QED BY <2>1, <2>2, <2>3
<1>2. CASE ~inLast /\ i < SPLIC_PACK_SZIE
  <2>1. i + 1 \in 1..SPLIC_PACK_SZIE BY <1>2
  <2>2. splic_pack_buffer \in [1..SPLIC_PACK_SZIE -> Cells] BY DEF TypeOK
  <2>3. At(i) = splic_pack_buffer[i + 1]
    <3>1. ~(inLast /\ i < LAST_BUFFER_SZIE) BY <1>2
    <3>2. ~(~inLast /\ i - SPLIC_PACK_SZIE \in 0..LAST_BUFFER_SZIE - 1) BY <1>2
    <3> QED BY <1>2, <3>1, <3>2, Zenon DEF At
  <2> QED BY <2>1, <2>2, <2>3
<1>3. CASE ~inLast /\ i - SPLIC_PACK_SZIE \in 0..LAST_BUFFER_SZIE - 1
  <2>1. i - SPLIC_PACK_SZIE + 1 \in 1..LAST_BUFFER_SZIE BY <1>3
  <2>2. ~(i < SPLIC_PACK_SZIE) BY <1>3
  <2> QED BY <1>3, <2>1, <2>2 DEF At, TypeOK
<1>4. CASE /\ ~(inLast /\ i < LAST_BUFFER_SZIE)
           /\ ~(~inLast /\ i < SPLIC_PACK_SZIE)
           /\ ~(~inLast /\ i - SPLIC_PACK_SZIE \in 0..LAST_BUFFER_SZIE - 1)
  BY <1>4, CellCount DEF At
<1> QED BY <1>1, <1>2, <1>3, <1>4

\* ... and holds a number.
LEMMA ValueType == ASSUME TypeOK, NEW i \in Nat PROVE Value(i) \in Nat
  BY AtType DEF Value, TypeOK

\* The cells of a batch fit behind those of the last loop: when both together
\* are too long, they are put at most their own number behind the front.
LEMMA BatchFits ==
  ASSUME IInv
  PROVE  LastLength \in Nat /\ LastLength + splic_index <= LAST_BUFFER_SZIE
<1>1. /\ splic_index \in Nat /\ last_loop_length \in Nat
      /\ last_loop_length <= LAST_BUFFER_SZIE
      /\ 2 * splic_index <= LAST_BUFFER_SZIE
      /\ LAST_BUFFER_SZIE \in Nat
  BY TcpFramingAssumption DEF TcpFramingAssumption, IInv, TypeOK, Indices
<1> QED BY <1>1 DEF LastLength

-----------------------------------------------------------------------------
(* The invariant, one action at a time.                                    *)

LEMMA InitIInv == Init => IInv
<1> SUFFICES ASSUME Init PROVE IInv OBVIOUS
<1> USE TcpFramingAssumption DEF TcpFramingAssumption
<1>1. stream \in [Cells -> Nat] BY StreamType DEF Init
<1>2. /\ splic_pack_buffer \in [1..SPLIC_PACK_SZIE -> Cells]
      /\ last_loop_buffer \in [1..LAST_BUFFER_SZIE -> Cells]
  BY CellCount DEF Init, Zeroed
<1>3. inLast \in BOOLEAN BY DEF Init
<1>4. parsed \in Seq(Seq(Cells)) BY DEF Init
<1>5. TypeOK BY <1>1, <1>2, <1>3, <1>4, CellCount DEF Init, TypeOK
<1> QED BY <1>5 DEF Init, IInv, Indices

LEMMA AcceptIInv == IInv /\ Accept => IInv'
<1> SUFFICES ASSUME IInv, Accept PROVE IInv' OBVIOUS
<1> USE TcpFramingAssumption DEF TcpFramingAssumption
<1>1. last_loop_buffer' \in [1..LAST_BUFFER_SZIE -> Cells]
  BY CellCount DEF Accept, Zeroed
<1>2. TypeOK' BY <1>1 DEF IInv, TypeOK, Accept
<1> QED BY <1>2 DEF IInv, Indices, Accept

LEMMA HangupIInv == IInv /\ Hangup => IInv'
<1> SUFFICES ASSUME IInv, Hangup PROVE IInv' OBVIOUS
<1>1. received' \in Cells BY FrameEnd DEF Hangup
<1>2. TypeOK' BY <1>1 DEF IInv, TypeOK, Hangup
<1> QED BY <1>2 DEF IInv, Indices, Hangup

LEMMA RecvIInv == ASSUME IInv, NEW n \in 1..RECV_SIZE, Recv(n) PROVE IInv'
<1> USE TcpFramingAssumption DEF TcpFramingAssumption
<1>1. /\ splic_index \in Nat /\ splic_index <= FrameSize
      /\ n \in Nat /\ n <= RECV_SIZE /\ received \in Nat /\ received + n \in Cells
  BY DEF IInv, TypeOK, Indices, Recv, Cells
<1>2. splic_pack_buffer' \in [1..SPLIC_PACK_SZIE -> Cells]
  <2>1. \A i \in 1..n : [j \in 1..n |-> received + j][i] \in Cells
    BY <1>1 DEF Cells
  <2>2. splic_pack_buffer \in [1..SPLIC_PACK_SZIE -> Cells] BY DEF IInv, TypeOK
  <2>3. splic_pack_buffer' =
          Copied(splic_pack_buffer, splic_index, [j \in 1..n |-> received + j], n)
    BY DEF Recv
  <2> HIDE TcpFramingAssumption DEF TcpFramingAssumption
  <2>4. SPLIC_PACK_SZIE \in Nat
    BY TcpFramingAssumption DEF TcpFramingAssumption
  <2> QED BY <1>1, <2>1, <2>2, <2>3, <2>4, CopiedType
<1>3. splic_index' = splic_index + n /\ splic_index' \in 0..SPLIC_PACK_SZIE
  BY <1>1 DEF Recv
<1>4. pc' \in {"begin", "recv"} /\ (pc' = "recv" => splic_index' <= FrameSize)
  BY <1>1 DEF Recv, ParseDue
<1>5. TypeOK' BY <1>1, <1>2, <1>3, <1>4 DEF IInv, TypeOK, Recv
<1> QED BY <1>1, <1>3, <1>4, <1>5 DEF IInv, Indices, Recv

LEMMA BeginIInv == IInv /\ Begin => IInv'
<1> SUFFICES ASSUME IInv, Begin PROVE IInv' OBVIOUS
<1>1. LastLength \in Nat /\ LastLength + splic_index <= LAST_BUFFER_SZIE
  BY BatchFits
<1>2. /\ splic_index \in Nat /\ splic_index <= SPLIC_PACK_SZIE
      /\ SPLIC_PACK_SZIE \in Nat /\ LAST_BUFFER_SZIE \in Nat
      /\ splic_pack_buffer \in [1..SPLIC_PACK_SZIE -> Cells]
      /\ last_loop_buffer \in [1..LAST_BUFFER_SZIE -> Cells]
  BY TcpFramingAssumption DEF TcpFramingAssumption, IInv, TypeOK
<1>3. last_loop_buffer' \in [1..LAST_BUFFER_SZIE -> Cells]
  <2>1. \A i \in 1..splic_index : splic_pack_buffer[i] \in Cells BY <1>2
  <2>2. Copied(last_loop_buffer, LastLength, splic_pack_buffer, splic_index)
          \in [1..LAST_BUFFER_SZIE -> Cells]
    BY <1>1, <1>2, <2>1, CopiedType
  <2>3. last_loop_buffer' =
          IF LastLength > 0
          THEN Copied(last_loop_buffer, LastLength, splic_pack_buffer, splic_index)
          ELSE last_loop_buffer
    BY DEF Begin
  <2> QED BY <1>2, <2>2, <2>3
<1>4. inLast' \in BOOLEAN /\ (inLast' <=> LastLength > 0)
  <2>1. (LastLength > 0) \in BOOLEAN BY <1>1
  <2>2. inLast' = (LastLength > 0) BY Zenon DEF Begin
  <2> QED BY <2>1, <2>2, Zenon
<1>5. /\ length' = LastLength + splic_index /\ length' \in Nat
      /\ curpkg_index' = 0 /\ pc' = "scan"
  BY <1>1, <1>2 DEF Begin
<1>6. length' <= IF inLast' THEN LAST_BUFFER_SZIE ELSE SPLIC_PACK_SZIE
  BY <1>1, <1>2, <1>4, <1>5
<1>7. TypeOK' BY <1>3, <1>4, <1>5 DEF IInv, TypeOK, Begin
<1> QED BY <1>5, <1>6, <1>7 DEF IInv, Indices, Begin

LEMMA SkipIInv == IInv /\ SkipCell => IInv'
<1> SUFFICES ASSUME IInv, SkipCell PROVE IInv' OBVIOUS
<1>1. curpkg_index \in Nat /\ length \in Nat /\ curpkg_index < length
  BY DEF IInv, TypeOK, SkipCell, Scanning
<1>2. curpkg_index' \in Nat /\ curpkg_index' <= length BY <1>1 DEF SkipCell
<1>3. TypeOK' BY <1>2 DEF IInv, TypeOK, SkipCell
<1> QED BY <1>2, <1>3 DEF IInv, Indices, SkipCell

LEMMA TakeIInv == IInv /\ TakeFrame => IInv'
<1> SUFFICES ASSUME IInv, TakeFrame PROVE IInv' OBVIOUS
<1>1. curpkg_index \in Nat /\ length \in Nat /\ curpkg_index + 1 \in Nat
  BY DEF IInv, TypeOK
<1>2. DataLength \in Nat BY <1>1, ValueType DEF IInv, DataLength
<1>3. CheckIndex \in Nat /\ CheckIndex < length
  BY <1>1, <1>2 DEF CheckIndex, TakeFrame
<1>4. curpkg_index' \in Nat /\ curpkg_index' <= length
  BY <1>1, <1>3 DEF TakeFrame
<1>5. parsed' \in Seq(Seq(Cells))
  <2> DEFINE f == [i \in 1..DataLength + HeaderSize |-> At(curpkg_index + i - 1)]
  <2>1. DataLength + HeaderSize \in Nat BY <1>2
  <2>2. \A i \in 1..DataLength + HeaderSize : At(curpkg_index + i - 1) \in Cells
    <3> SUFFICES ASSUME NEW i \in 1..DataLength + HeaderSize
                 PROVE  At(curpkg_index + i - 1) \in Cells
      OBVIOUS
    <3>1. curpkg_index + i - 1 \in Nat BY <1>1, <2>1
    <3> QED BY <3>1, AtType DEF IInv
  <2>3. f \in [1..DataLength + HeaderSize -> Cells] BY <2>2
  <2>4. f \in Seq(Cells) BY <2>1, <2>3, SeqDef
  <2>5. parsed \in Seq(Seq(Cells)) BY DEF IInv, TypeOK
  <2>6. parsed' = parsed \/ parsed' = Append(parsed, f) BY DEF TakeFrame
  <2> HIDE DEF f
  <2>7. Append(parsed, f) \in Seq(Seq(Cells)) BY <2>4, <2>5, AppendProperties
  <2> QED BY <2>5, <2>6, <2>7
<1>6. TypeOK' BY <1>4, <1>5 DEF IInv, TypeOK, TakeFrame
<1> QED BY <1>4, <1>6 DEF IInv, Indices, TakeFrame

LEMMA EndScanIInv == IInv /\ EndScan => IInv'
<1> SUFFICES ASSUME IInv, EndScan PROVE IInv' OBVIOUS
<1>1. TypeOK' BY DEF IInv, TypeOK, EndScan
<1> QED BY <1>1 DEF IInv, Indices, EndScan

\* The rest that is saved fits its buffer.
LEMMA SavedFits ==
  ASSUME IInv PROVE Saved \in 0..LAST_BUFFER_SZIE /\ LAST_BUFFER_SZIE \in Nat
<1>1. /\ LAST_BUFFER_SZIE \in Nat /\ curpkg_index \in Nat /\ length \in Nat
  BY TcpFramingAssumption DEF TcpFramingAssumption, IInv, TypeOK
<1>2. Rest \in Nat BY <1>1 DEF Rest
<1>3. LAST_BUFFER_SZIE % Byte \in Nat /\ LAST_BUFFER_SZIE % Byte <= LAST_BUFFER_SZIE
  BY TcpFramingAssumption, SMTT(30) DEF TcpFramingAssumption
<1> QED BY <1>1, <1>2, <1>3 DEF Saved

\* What Save may find at the cell i of the rest: that of the buffer or one that
\* has been received.
Read(i) == {At(curpkg_index + i - 1)} \cup {c \in Cells : c <= received}

LEMMA SavedCells ==
  ASSUME IInv, Save
  PROVE  \E t : /\ last_loop_buffer' = Copied(last_loop_buffer, 0, t, Saved)
                /\ \A i \in 1..Saved : t[i] \in Read(i)
<1> DEFINE T(outside) ==
      [i \in 1..Saved |->
         CASE Inside(curpkg_index + i - 1) -> At(curpkg_index + i - 1)
           [] ~Inside(curpkg_index + i - 1) /\ outside[i] <= received -> outside[i]
           [] OTHER -> 0]
<1>1. PICK outside \in Outside :
        last_loop_buffer' = Copied(last_loop_buffer, 0, T(outside), Saved)
  BY Zenon DEF Save
<1>2. /\ outside \in [1..LAST_BUFFER_SZIE -> Cells] /\ LAST_BUFFER_SZIE \in Nat
      /\ 0 \in Cells /\ 0 <= received
  <2>1. received \in Nat BY CellCount DEF IInv, TypeOK, Cells
  <2> QED BY <2>1, OutsideAssumption, TcpFramingAssumption, CellCount DEF TcpFramingAssumption
<1>3. Saved \in Int /\ Saved <= LAST_BUFFER_SZIE
  BY SavedFits
<1>4. ASSUME NEW i \in 1..Saved PROVE T(outside)[i] \in Read(i)
  <2>1. i \in 1..LAST_BUFFER_SZIE BY <1>2, <1>3
  <2>2. outside[i] \in Cells BY <1>2, <2>1
  <2>3. CASE Inside(curpkg_index + i - 1)
    BY <2>3 DEF Read
  <2>4. CASE ~Inside(curpkg_index + i - 1) /\ outside[i] <= received
    BY <2>2, <2>4 DEF Read
  <2>5. CASE ~Inside(curpkg_index + i - 1) /\ ~(outside[i] <= received)
    BY <1>2, <2>5 DEF Read
  <2> QED BY <2>3, <2>4, <2>5
<1> HIDE DEF T
<1> QED BY <1>1, <1>4

LEMMA SaveIInv == IInv /\ Save => IInv'
<1> SUFFICES ASSUME IInv, Save PROVE IInv' OBVIOUS
<1>1. /\ curpkg_index \in Nat /\ length \in Nat
      /\ length <= LAST_BUFFER_SZIE \/ length <= SPLIC_PACK_SZIE
      /\ LAST_BUFFER_SZIE \in Nat /\ SPLIC_PACK_SZIE \in Nat
      /\ last_loop_buffer \in [1..LAST_BUFFER_SZIE -> Cells]
  BY TcpFramingAssumption
     DEF TcpFramingAssumption, IInv, TypeOK, Indices, Save
<1>3. Saved \in 0..LAST_BUFFER_SZIE BY SavedFits
<1>4. last_loop_buffer' \in [1..LAST_BUFFER_SZIE -> Cells]
  <2>2. PICK t : /\ last_loop_buffer' = Copied(last_loop_buffer, 0, t, Saved)
                 /\ \A i \in 1..Saved : t[i] \in Read(i)
    BY SavedCells
  <2>1. \A i \in 1..Saved : t[i] \in Cells
    <3> SUFFICES ASSUME NEW i \in 1..Saved PROVE t[i] \in Cells
      OBVIOUS
    <3>1. curpkg_index + i - 1 \in Nat BY <1>1, <1>3
    <3>2. At(curpkg_index + i - 1) \in Cells BY <3>1, AtType DEF IInv
    <3> QED BY <2>2, <3>2 DEF Read
  <2>3. Saved \in Nat /\ 0 \in Nat BY <1>1, <1>3
  <2> QED BY <1>1, <2>1, <2>2, <2>3, CopiedType
<1>5. splic_index' = 0 /\ pc' = "recv" /\ last_loop_length' = Saved BY DEF Save
<1>6. TypeOK' BY <1>1, <1>3, <1>4, <1>5 DEF IInv, TypeOK, Save
<1> QED
  BY <1>5, <1>6, TcpFramingAssumption
  DEF TcpFramingAssumption, IInv, Indices, Save

LEMMA StutterIInv == IInv /\ UNCHANGED vars => IInv'
<1> SUFFICES ASSUME IInv, UNCHANGED vars PROVE IInv' OBVIOUS
<1>1. TypeOK' BY DEF IInv, TypeOK, vars
<1> QED BY <1>1 DEF IInv, Indices, vars

LEMMA NextIInv == IInv /\ [Next]_vars => IInv'
<1> SUFFICES ASSUME IInv, [Next]_vars PROVE IInv' OBVIOUS
<1>1. CASE Accept BY <1>1, AcceptIInv
<1>2. CASE Hangup BY <1>2, HangupIInv
<1>3. ASSUME NEW n \in 1..RECV_SIZE, Recv(n) PROVE IInv' BY <1>3, RecvIInv
<1>4. CASE Begin BY <1>4, BeginIInv
<1>5. CASE SkipCell BY <1>5, SkipIInv
<1>6. CASE TakeFrame BY <1>6, TakeIInv
<1>7. CASE EndScan BY <1>7, EndScanIInv
<1>8. CASE Save BY <1>8, SaveIInv
<1>9. CASE UNCHANGED vars BY <1>9, StutterIInv
<1> QED
  BY <1>1, <1>2, <1>3, <1>4, <1>5, <1>6, <1>7, <1>8, <1>9 DEF Next, ParsePkg

LEMMA SpecIInv == Spec => []IInv
  BY InitIInv, NextIInv, PTL DEF Spec

-----------------------------------------------------------------------------
(* The theorems.                                                           *)

\* The type invariant, the ranges of splic_index and last_loop_length among it,
\* for any sizes (apptcpsocket.cpp 70-228).
THEOREM TypeCorrect == Spec => []TypeOK
<1>1. IInv => TypeOK BY DEF IInv
<1> QED BY <1>1, SpecIInv, PTL

\* No memcpy of the receiver leaves the buffer it writes: a segment fits behind
\* the spliced ones, and a batch behind the rest of the last one although that
\* rest is always taken to fill its buffer; and what is parsed lies inside
\* (apptcpsocket.cpp 106, 146-157, 164-198, 224).  It does not say that the copy
\* of the rest at 224 reads inside its source: that one reads past the end.
THEOREM BuffersSuffice == Spec => []InBounds
<1>1. IInv => InBounds
  <2> SUFFICES ASSUME IInv PROVE InBounds OBVIOUS
  <2>1. pc \in {"accept", "recv"} => splic_index + RECV_SIZE <= SPLIC_PACK_SZIE
    BY TcpFramingAssumption DEF TcpFramingAssumption, IInv, TypeOK, Indices
  <2>2. Saved <= LAST_BUFFER_SZIE BY SavedFits
  <2> QED BY <2>1, <2>2, BatchFits DEF IInv, Indices, InBounds
<1> QED BY <1>1, SpecIInv, PTL

-----------------------------------------------------------------------------
(* The place of a cell in its frame.                                       *)

LEMMA Divided ==
  ASSUME NEW a \in Nat, NEW d \in Nat \ {0}
  PROVE  a = d * (a \div d) + (a % d)
OBVIOUS

LEMMA PartsOf ==
  ASSUME NEW a \in Nat
  PROVE  /\ a % FrameSize \in 0..(FrameSize - 1) /\ a \div FrameSize \in Nat
         /\ a = FrameSize * (a \div FrameSize) + (a % FrameSize)
<1>1. FrameSize \in Nat \ {0}
  BY TcpFramingAssumption DEF TcpFramingAssumption
<1>2. a % FrameSize \in 0..(FrameSize - 1)
  BY <1>1
<1>3. a \div FrameSize \in Nat
  BY <1>1
<1>4. QED
  BY <1>1, <1>2, <1>3, Divided

LEMMA TimesAtLeast ==
  ASSUME NEW d \in Nat \ {0}
  PROVE  FrameSize * d >= FrameSize
<1>1. FrameSize \in Nat
  BY TcpFramingAssumption DEF TcpFramingAssumption
<1>2. PICK e \in Nat : d = e + 1
  <2>1. d - 1 \in Nat /\ d = (d - 1) + 1
    OBVIOUS
  <2>2. QED
    BY <2>1
<1>3. FrameSize * d = FrameSize * e + FrameSize
  BY <1>1, <1>2
<1>4. FrameSize * e \in Nat
  BY <1>1
<1>5. QED
  BY <1>1, <1>3, <1>4

\* Going n cells on in the stream goes at most n places on, and exactly n
\* within a frame.
LEMMA FurtherOn ==
  ASSUME NEW a \in Nat, NEW n \in Nat
  PROVE  /\ (a + n) % FrameSize \in Nat
         /\ (a + n) % FrameSize <= (a % FrameSize) + n
         /\ (a % FrameSize) + n < FrameSize =>
              (a + n) % FrameSize = (a % FrameSize) + n
<1> DEFINE q == a \div FrameSize
           r == a % FrameSize
           q2 == (a + n) \div FrameSize
           r2 == (a + n) % FrameSize
<1>1. FrameSize \in Nat
  BY TcpFramingAssumption DEF TcpFramingAssumption
<1>2. q \in Nat /\ r \in Nat /\ r < FrameSize /\ a = FrameSize * q + r
  BY <1>1, PartsOf
<1>3. /\ q2 \in Nat /\ r2 \in Nat /\ r2 < FrameSize
      /\ a + n = FrameSize * q2 + r2
  BY <1>1, PartsOf
<1> HIDE DEF q, r, q2, r2
<1>4. q2 >= q
  <2>1. SUFFICES ASSUME q2 < q PROVE FALSE
    BY <1>2, <1>3
  <2>2. q - q2 \in Nat \ {0} /\ q = q2 + (q - q2)
    BY <1>2, <1>3, <2>1
  <2>3. PICK d \in Nat \ {0} : q = q2 + d
    BY <2>2
  <2>4. FrameSize * q = FrameSize * q2 + FrameSize * d
    BY <1>1, <1>3, <2>3
  <2>5. FrameSize * d >= FrameSize /\ FrameSize * d \in Nat
    BY <1>1, <2>3, TimesAtLeast
  <2>6. FrameSize * q2 \in Nat
    BY <1>1, <1>3
  <2>7. QED
    BY <1>1, <1>2, <1>3, <2>4, <2>5, <2>6
<1>5. PICK d \in Nat : q2 = q + d
  <2>1. q2 - q \in Nat /\ q2 = q + (q2 - q)
    BY <1>2, <1>3, <1>4
  <2>2. QED
    BY <2>1
<1>6. r2 + FrameSize * d = r + n /\ FrameSize * d \in Nat
  <2>1. FrameSize * q2 = FrameSize * q + FrameSize * d
    BY <1>1, <1>2, <1>5
  <2>2. FrameSize * d \in Nat /\ FrameSize * q \in Nat
    BY <1>1, <1>2
  <2>3. QED
    BY <1>2, <1>3, <2>1, <2>2
<1>7. r2 <= r + n
  BY <1>2, <1>3, <1>6
<1>8. ASSUME r + n < FrameSize
      PROVE  r2 = r + n
  <2>1. d = 0
    <3>1. SUFFICES ASSUME d # 0 PROVE FALSE
      OBVIOUS
    <3>2. FrameSize * d >= FrameSize
      BY <3>1, TimesAtLeast
    <3>3. QED
      BY <1>1, <1>2, <1>3, <1>6, <1>8, <3>2
  <2>2. FrameSize * d = 0
    BY <1>1, <2>1
  <2>3. QED
    BY <1>2, <1>3, <1>6, <2>2
<1>9. QED
  BY <1>3, <1>7, <1>8 DEF r, r2

LEMMA PlaceRange ==
  ASSUME NEW p \in Nat \ {0}
  PROVE  Place(p) \in 1..FrameSize
<1>1. p - 1 \in Nat /\ FrameSize \in Nat
  BY TcpFramingAssumption DEF TcpFramingAssumption
<1>2. (p - 1) % FrameSize \in 0..(FrameSize - 1)
  BY <1>1, PartsOf
<1>3. QED
  BY <1>1, <1>2 DEF Place

\* The cells behind the first of a frame.
LEMMA PlaceBehind ==
  ASSUME NEW p \in Nat \ {0}, Place(p) = 1, NEW n \in Nat, n < FrameSize
  PROVE  Place(p + n) = n + 1
<1>1. p - 1 \in Nat /\ FrameSize \in Nat
  BY TcpFramingAssumption DEF TcpFramingAssumption
<1>2. (p - 1) % FrameSize = 0
  <2>1. (p - 1) % FrameSize \in 0..(FrameSize - 1)
    BY <1>1, PartsOf
  <2>2. QED
    BY <1>1, <2>1 DEF Place
<1>3. ((p - 1) + n) % FrameSize = n
  <2>1. 0 + n = n /\ ((p - 1) % FrameSize) + n < FrameSize
    BY <1>2
  <2>2. QED
    BY <1>1, <1>2, <2>1, FurtherOn
<1>4. (p - 1) + n = (p + n) - 1
  OBVIOUS
<1>5. QED
  BY <1>3, <1>4 DEF Place

-----------------------------------------------------------------------------
(* What the cells of the stream hold.                                      *)

\* Data hold neither the value of a header nor that of a check, nor is the
\* length of a frame the latter; a header read as a length is longer than
\* every buffer.
Distinct ==
  /\ \A v \in Noise : v # DATA_HEAD /\ v # DATA_CHECK_VALUE
  /\ FrameSize - HeaderSize # DATA_CHECK_VALUE
  /\ SPLIC_PACK_SZIE <= DATA_HEAD /\ LAST_BUFFER_SZIE <= DATA_HEAD

StreamInv == \E data \in [DataCells -> Noise] : stream = Stream(data)

\* Headers, lengths and checks are where their values are.
LEMMA WhatCellsHold ==
  ASSUME Distinct, StreamInv, NEW p \in Cells
  PROVE  /\ stream[p] = DATA_HEAD => p # 0 /\ Place(p) = 1
         /\ stream[p] = DATA_CHECK_VALUE => p # 0 /\ Place(p) = FrameSize
         /\ p # 0 /\ Place(p) = 1 => stream[p] = DATA_HEAD
         /\ p # 0 /\ Place(p) = 2 => stream[p] = FrameSize - HeaderSize
<1> USE TcpFramingAssumption DEF TcpFramingAssumption
<1>1. PICK data \in [DataCells -> Noise] : stream = Stream(data)
  BY DEF StreamInv
<1>2. /\ FrameSize - HeaderSize # DATA_HEAD
      /\ FrameSize - HeaderSize # DATA_CHECK_VALUE
      /\ 0 # DATA_HEAD /\ 0 # DATA_CHECK_VALUE /\ DATA_HEAD # DATA_CHECK_VALUE
  BY DEF Distinct, DATA_HEAD, DATA_CHECK_VALUE
<1>3. CASE p = 0
  <2>1. stream[p] = 0
    BY <1>1, <1>3 DEF Stream, DataCells
  <2>2. QED
    BY <1>2, <1>3, <2>1
<1>4. CASE p \in DataCells
  <2>1. stream[p] = data[p] /\ data[p] \in Noise
    BY <1>1, <1>4 DEF Stream, DataCells
  <2>2. Place(p) # 1 /\ Place(p) # 2
    BY <1>4 DEF DataCells
  <2>3. QED
    BY <2>1, <2>2 DEF Distinct
<1>5. CASE p # 0 /\ Place(p) = 1
  <2>1. stream[p] = DATA_HEAD
    BY <1>1, <1>5 DEF Stream, DataCells
  <2>2. QED
    BY <1>2, <1>5, <2>1
<1>6. CASE p # 0 /\ Place(p) = 2
  <2>1. stream[p] = FrameSize - HeaderSize
    BY <1>1, <1>6 DEF Stream, DataCells
  <2>2. QED
    BY <1>2, <1>6, <2>1
<1>7. CASE p # 0 /\ p \notin DataCells /\ Place(p) # 1 /\ Place(p) # 2
  <2>1. stream[p] = DATA_CHECK_VALUE
    BY <1>1, <1>7 DEF Stream
  <2>2. Place(p) = FrameSize
    <3>1. p \in Nat \ {0}
      BY <1>7 DEF Cells
    <3>2. Place(p) \in 1..FrameSize
      BY <3>1, PlaceRange
    <3>3. QED
      BY <1>7, <3>2 DEF DataCells
  <2>3. QED
    BY <1>2, <1>7, <2>1, <2>2
<1>8. QED
  BY <1>3, <1>4, <1>5, <1>6, <1>7

-----------------------------------------------------------------------------
(* The batch in splic_pack_buffer, and how the cells elsewhere relate to it. *)

\* Its cells rise, and between two of them the stream either runs on without a
\* gap or has begun a frame: a card starts each connection with a whole one.
Spliced ==
  /\ \A i \in 1..splic_index :
       /\ splic_pack_buffer[i] \in 1..received
       /\ \/ received = splic_pack_buffer[i] + (splic_index - i)
          \/ (received % FrameSize) <= splic_index - i
  /\ \A i, j \in 1..splic_index : i < j =>
       /\ splic_pack_buffer[i] < splic_pack_buffer[j]
       /\ \/ splic_pack_buffer[j] = splic_pack_buffer[i] + (j - i)
          \/ Place(splic_pack_buffer[j]) <= j - i

\* All cells of the frames p are older than c.
Older(p, c) == \A k \in 1..Len(p) : \A j \in 1..Len(p[k]) : p[k][j] < c

\* No cell is newer than what has been received.
Known ==
  /\ \A i \in 1..SPLIC_PACK_SZIE : splic_pack_buffer[i] <= received
  /\ \A i \in 1..LAST_BUFFER_SZIE : last_loop_buffer[i] <= received
  /\ Older(parsed, received + 1)

\* The batch is newer than the rest of the last loop and than what has been
\* handed on.
Ahead ==
  pc \in {"accept", "recv", "begin"} =>
    \A i \in 1..splic_index :
      /\ \A j \in 1..LAST_BUFFER_SZIE : last_loop_buffer[j] < splic_pack_buffer[i]
      /\ Older(parsed, splic_pack_buffer[i])

\* While it is parsed it lies behind older cells, and what is not yet behind
\* curpkg_index is newer than what has been handed on.
InHand ==
  pc = "scan" =>
    /\ splic_index <= length
    /\ \A k \in 0..length - 1, i \in 1..splic_index :
         /\ k + 1 = (length - splic_index) + i => At(k) = splic_pack_buffer[i]
         /\ k < length - splic_index => At(k) < splic_pack_buffer[i]
    /\ \A i \in 1..splic_index :
         curpkg_index < (length - splic_index) + i => Older(parsed, splic_pack_buffer[i])

Splicing == IInv /\ StreamInv /\ Spliced /\ Known /\ Ahead /\ InHand

LEMMA CellNumbers == Cells \subseteq Nat
  BY CellCount DEF Cells

\* The cells of the buffers, the received and the spliced ones are numbers.
LEMMA Numbers ==
  ASSUME IInv
  PROVE  /\ received \in Nat /\ splic_index \in 0..SPLIC_PACK_SZIE
         /\ \A i \in 1..SPLIC_PACK_SZIE : splic_pack_buffer[i] \in Nat
         /\ \A i \in 1..LAST_BUFFER_SZIE : last_loop_buffer[i] \in Nat
<1>1. /\ received \in Cells /\ splic_index \in 0..SPLIC_PACK_SZIE
      /\ splic_pack_buffer \in [1..SPLIC_PACK_SZIE -> Cells]
      /\ last_loop_buffer \in [1..LAST_BUFFER_SZIE -> Cells]
  BY DEF IInv, TypeOK
<1>2. QED
  BY <1>1, CellNumbers

\* A whole number of frames leaves no rest.
LEMMA Multiple ==
  ASSUME NEW k \in Nat PROVE (k * FrameSize) % FrameSize = 0
<1>1. FrameSize \in Nat \ {0}
  BY TcpFramingAssumption DEF TcpFramingAssumption
<1>2. QED
  BY <1>1, SMTT(30)

\* The numbers in the frames handed on.
LEMMA OlderStill ==
  ASSUME IInv, NEW c \in Nat, NEW d \in Nat, c <= d, Older(parsed, c)
  PROVE  Older(parsed, d)
<1> SUFFICES ASSUME NEW k \in 1..Len(parsed), NEW j \in 1..Len(parsed[k])
             PROVE  parsed[k][j] < d
  BY DEF Older
<1>1. parsed[k] \in Seq(Cells)
  BY ElementOfSeq DEF IInv, TypeOK
<1>2. parsed[k][j] \in Cells
  BY <1>1, ElementOfSeq
<1>3. parsed[k][j] \in Nat /\ parsed[k][j] < c
  BY <1>2 DEF Cells, Older
<1>4. QED
  BY <1>3

LEMMA InitSplicing == Init => Splicing
<1> SUFFICES ASSUME Init PROVE Splicing
  OBVIOUS
<1>1. IInv /\ StreamInv
  BY InitIInv DEF Init, StreamInv
<1>2. Known
  BY DEF Init, Known, Older, Zeroed
<1>3. QED
  BY <1>1, <1>2 DEF Splicing, Init, Spliced, Ahead, InHand

LEMMA AcceptSplicing == Splicing /\ Accept => Splicing'
<1> SUFFICES ASSUME Splicing, Accept PROVE Splicing'
  OBVIOUS
<1>1. IInv' /\ StreamInv'
  BY AcceptIInv DEF Splicing, StreamInv, Accept
<1>2. Spliced'
  BY DEF Splicing, Spliced, Accept
<1>3. received \in Nat /\ \A i \in 1..LAST_BUFFER_SZIE : last_loop_buffer'[i] = 0
  BY DEF Splicing, IInv, TypeOK, Cells, Accept, Zeroed
<1>4. Known'
  BY <1>3 DEF Splicing, Known, Older, Accept
<1>5. \A i \in 1..splic_index : splic_pack_buffer[i] \in 1..received
  BY DEF Splicing, Spliced
<1>6. Ahead'
  BY <1>3, <1>5 DEF Splicing, Ahead, Accept
<1>7. QED
  BY <1>1, <1>2, <1>4, <1>6 DEF Splicing, InHand, Accept

LEMMA HangupSplicing == Splicing /\ Hangup => Splicing'
<1> SUFFICES ASSUME Splicing, Hangup PROVE Splicing'
  OBVIOUS
<1>1. IInv' /\ StreamInv'
  BY HangupIInv DEF Splicing, StreamInv, Hangup
<1>2. PICK k \in 0..Frames : k * FrameSize >= received /\ received' = k * FrameSize
  BY DEF Hangup
<1>3. /\ received \in Nat /\ received' \in Nat /\ received <= received'
      /\ splic_index \in Nat
  <2>1. received' \in Nat
    BY <1>1, Numbers, CellNumbers DEF IInv, TypeOK
  <2>2. QED
    BY <1>2, <2>1, Numbers DEF Splicing
<1>4. received' % FrameSize = 0
  <2>1. k \in Nat /\ FrameSize \in Nat \ {0}
    BY TcpFramingAssumption DEF TcpFramingAssumption
  <2>2. QED
    BY <1>2, <2>1, Multiple
<1>5. Spliced'
  BY <1>3, <1>4 DEF Splicing, Spliced, Hangup
<1>6. Known'
  <2>1. /\ \A i \in 1..SPLIC_PACK_SZIE : splic_pack_buffer[i] \in Nat
        /\ \A i \in 1..LAST_BUFFER_SZIE : last_loop_buffer[i] \in Nat
    BY Numbers DEF Splicing
  <2>2. Older(parsed, received' + 1)
    BY <1>3, OlderStill DEF Splicing, Known
  <2>3. QED
    BY <1>3, <2>1, <2>2 DEF Splicing, Known, Hangup
<1>7. Ahead'
  BY DEF Splicing, Ahead, Hangup
<1>8. QED
  BY <1>1, <1>5, <1>6, <1>7 DEF Splicing, InHand, Hangup


\* What a segment does to the buffer of the batch.
LEMMA RecvCells ==
  ASSUME IInv, NEW n \in 1..RECV_SIZE, Recv(n)
  PROVE  /\ received \in Nat /\ splic_index \in Nat /\ n \in Nat \ {0}
         /\ splic_index + n <= SPLIC_PACK_SZIE
         /\ received' = received + n /\ splic_index' = splic_index + n
         /\ \A i \in 1..splic_index : splic_pack_buffer'[i] = splic_pack_buffer[i]
         /\ \A i \in splic_index + 1 .. splic_index + n :
              splic_pack_buffer'[i] = received + (i - splic_index)
<1> DEFINE b == splic_pack_buffer
           s == splic_index
           r == received
<1>1. /\ r \in Nat /\ s \in Nat /\ n \in Nat \ {0} /\ s + n <= SPLIC_PACK_SZIE
      /\ r' = r + n /\ s' = s + n
  <2>1. /\ s <= FrameSize /\ RECV_SIZE \in Nat /\ FrameSize \in Nat
        /\ SPLIC_PACK_SZIE \in Nat /\ FrameSize + RECV_SIZE <= SPLIC_PACK_SZIE
    BY TcpFramingAssumption DEF TcpFramingAssumption, IInv, Indices, Recv
  <2>2. QED
    BY <2>1, Numbers DEF Recv
<1>2. /\ \A i \in 1..s : b'[i] = b[i]
      /\ \A i \in s + 1 .. s + n : b'[i] = r + (i - s)
  <2>1. DOMAIN b = 1..SPLIC_PACK_SZIE
    BY DEF IInv, TypeOK
  <2>2. b' = Copied(b, s, [i \in 1..n |-> r + i], n)
    BY DEF Recv
  <2>3. \A i \in 1..SPLIC_PACK_SZIE :
          b'[i] = IF i \in s + 1 .. s + n
                  THEN [j \in 1..n |-> r + j][i - s] ELSE b[i]
    BY <2>1, <2>2 DEF Copied
  <2>4. SPLIC_PACK_SZIE \in Nat
    BY TcpFramingAssumption DEF TcpFramingAssumption
  <2>5. ASSUME NEW i \in 1..s
        PROVE  b'[i] = b[i]
    <3>1. i \in 1..SPLIC_PACK_SZIE /\ i \notin s + 1 .. s + n
      BY <1>1, <2>4
    <3>2. QED
      BY <2>3, <3>1
  <2>6. ASSUME NEW i \in s + 1 .. s + n
        PROVE  b'[i] = r + (i - s)
    <3>1. i \in 1..SPLIC_PACK_SZIE /\ i - s \in 1..n
      BY <1>1, <2>4
    <3>2. b'[i] = [j \in 1..n |-> r + j][i - s]
      BY <2>3, <2>6, <3>1
    <3>3. QED
      BY <3>1, <3>2
  <2>7. QED
    BY <2>5, <2>6
<1>3. QED
  BY <1>1, <1>2

\* A segment: its cells are newer than all, and what was true of the gap before
\* the stream's next cell is true of the gap behind each of them.
LEMMA RecvSpliced ==
  ASSUME IInv, Spliced, NEW n \in 1..RECV_SIZE, Recv(n) PROVE Spliced'
<1> DEFINE b == splic_pack_buffer
           s == splic_index
           r == received
<1>1. /\ r \in Nat /\ s \in Nat /\ n \in Nat \ {0}
      /\ r' = r + n /\ s' = s + n
  BY RecvCells
<1>2. /\ \A i \in 1..s : b'[i] = b[i]
      /\ \A i \in s + 1 .. s + n : b'[i] = r + (i - s)
  BY RecvCells
<1>3. \A i \in 1..s : /\ b[i] \in 1..r
                      /\ r = b[i] + (s - i) \/ (r % FrameSize) <= s - i
  BY DEF Spliced
<1>4. \A i, j \in 1..s : i < j =>
        b[i] < b[j] /\ (b[j] = b[i] + (j - i) \/ Place(b[j]) <= j - i)
  BY DEF Spliced
<1>5. r % FrameSize \in Nat
  <2>1. FrameSize \in Nat
    BY TcpFramingAssumption DEF TcpFramingAssumption
  <2>2. QED
    BY <1>1, <2>1, PartsOf
<1> HIDE DEF b, s, r
<1>6. ASSUME NEW i \in 1..(s + n)
      PROVE  /\ b'[i] \in 1..(r + n)
             /\ \/ r + n = b'[i] + ((s + n) - i)
                \/ ((r + n) % FrameSize) <= (s + n) - i
  <2>1. CASE i \in 1..s
    <3>1. b'[i] = b[i] /\ b[i] \in 1..r
      BY <1>2, <1>3, <2>1
    <3>2. CASE r = b[i] + (s - i)
      BY <1>1, <2>1, <3>1, <3>2
    <3>3. CASE (r % FrameSize) <= s - i
      <4>1. (r + n) % FrameSize <= (r % FrameSize) + n /\ (r + n) % FrameSize \in Nat
        BY <1>1, FurtherOn
      <4>2. QED
        BY <1>1, <1>5, <2>1, <3>1, <3>3, <4>1
    <3>4. QED
      BY <1>3, <2>1, <3>2, <3>3
  <2>2. CASE i \in s + 1 .. s + n
    <3>1. b'[i] = r + (i - s)
      BY <1>2, <2>2
    <3>2. QED
      BY <1>1, <2>2, <3>1
  <2>3. QED
    BY <1>1, <2>1, <2>2
<1>7. ASSUME NEW i \in 1..(s + n), NEW j \in 1..(s + n), i < j
      PROVE  b'[i] < b'[j] /\ (b'[j] = b'[i] + (j - i) \/ Place(b'[j]) <= j - i)
  <2>1. CASE j \in 1..s
    <3>1. i \in 1..s
      BY <1>1, <1>7, <2>1
    <3>2. b'[i] = b[i] /\ b'[j] = b[j]
      BY <1>2, <2>1, <3>1
    <3>3. QED
      BY <1>4, <1>7, <2>1, <3>1, <3>2
  <2>2. CASE i \in s + 1 .. s + n
    <3>1. j \in s + 1 .. s + n
      BY <1>1, <1>7, <2>2
    <3>2. b'[i] = r + (i - s) /\ b'[j] = r + (j - s)
      BY <1>2, <2>2, <3>1
    <3>3. QED
      BY <1>1, <1>7, <2>2, <3>1, <3>2
  <2>3. CASE i \in 1..s /\ j \in s + 1 .. s + n
    <3>1. b'[i] = b[i] /\ b'[j] = r + (j - s) /\ b[i] \in 1..r
      BY <1>2, <1>3, <2>3
    <3>2. b'[i] < b'[j]
      BY <1>1, <2>3, <3>1
    <3>3. CASE r = b[i] + (s - i)
      BY <1>1, <2>3, <3>1, <3>2, <3>3
    <3>4. CASE (r % FrameSize) <= s - i
      <4>1. PICK m \in Nat : m = (j - s) - 1
        BY <1>1, <2>3
      <4>2. (r + m) % FrameSize <= (r % FrameSize) + m /\ (r + m) % FrameSize \in Nat
        BY <1>1, FurtherOn
      <4>3. b'[j] - 1 = r + m
        BY <1>1, <2>3, <3>1, <4>1
      <4>4. Place(b'[j]) = ((r + m) % FrameSize) + 1
        BY <4>3 DEF Place
      <4>5. QED
        BY <1>1, <1>5, <2>3, <3>2, <3>4, <4>1, <4>2, <4>4
    <3>5. QED
      BY <1>3, <2>3, <3>3, <3>4
  <2>4. QED
    BY <1>1, <2>1, <2>2, <2>3
<1>8. QED
  BY <1>1, <1>6, <1>7 DEF Spliced, b, s, r

LEMMA RecvSplicing ==
  ASSUME Splicing, NEW n \in 1..RECV_SIZE, Recv(n) PROVE Splicing'
<1>1. IInv' /\ StreamInv'
  BY RecvIInv DEF Splicing, StreamInv, Recv
<1>2. Spliced'
  BY RecvSpliced DEF Splicing
<1>3. /\ received \in Nat /\ n \in Nat \ {0} /\ splic_index \in Nat
      /\ RECV_SIZE \in Nat /\ SPLIC_PACK_SZIE \in Nat
  BY Numbers, TcpFramingAssumption DEF TcpFramingAssumption, Splicing
<1>4. Known'
  <2>1. \A i \in 1..SPLIC_PACK_SZIE :
          \/ splic_pack_buffer'[i] = splic_pack_buffer[i]
          \/ \E j \in 1..n : splic_pack_buffer'[i] = received + j
    <3>1. DOMAIN splic_pack_buffer = 1..SPLIC_PACK_SZIE
      BY DEF Splicing, IInv, TypeOK
    <3>2. SUFFICES ASSUME NEW i \in 1..SPLIC_PACK_SZIE
                   PROVE  \/ splic_pack_buffer'[i] = splic_pack_buffer[i]
                          \/ \E j \in 1..n : splic_pack_buffer'[i] = received + j
      OBVIOUS
    <3>3. splic_pack_buffer'[i] =
            IF i \in splic_index + 1 .. splic_index + n
            THEN [j \in 1..n |-> received + j][i - splic_index]
            ELSE splic_pack_buffer[i]
      BY <3>1 DEF Recv, Copied
    <3>4. CASE i \in splic_index + 1 .. splic_index + n
      <4>1. i - splic_index \in 1..n
        BY <1>3, <3>4
      <4>2. splic_pack_buffer'[i] = received + (i - splic_index)
        BY <3>3, <3>4, <4>1
      <4>3. QED
        BY <4>1, <4>2
    <3>5. QED
      BY <3>3, <3>4
  <2>2. \A i \in 1..SPLIC_PACK_SZIE :
          splic_pack_buffer[i] \in Nat /\ splic_pack_buffer[i] <= received
    BY Numbers DEF Splicing, Known
  <2>3. \A i \in 1..LAST_BUFFER_SZIE :
          last_loop_buffer[i] \in Nat /\ last_loop_buffer[i] <= received
    BY Numbers DEF Splicing, Known
  <2>4. received' = received + n /\ UNCHANGED <<last_loop_buffer, parsed>>
    BY DEF Recv
  <2>5. \A i \in 1..SPLIC_PACK_SZIE : splic_pack_buffer'[i] <= received'
    BY <1>3, <2>1, <2>2, <2>4
  <2>6. \A i \in 1..LAST_BUFFER_SZIE : last_loop_buffer'[i] <= received'
    BY <1>3, <2>3, <2>4
  <2>7. Older(parsed, (received + n) + 1)
    <3>1. received + 1 \in Nat /\ (received + n) + 1 \in Nat
          /\ received + 1 <= (received + n) + 1
      BY <1>3
    <3>2. QED
      BY <3>1, OlderStill DEF Splicing, Known
  <2>8. QED
    BY <2>4, <2>5, <2>6, <2>7 DEF Known
<1>5. Ahead'
  <2>1. SUFFICES ASSUME NEW i \in 1..(splic_index + n)
                 PROVE  /\ \A j \in 1..LAST_BUFFER_SZIE :
                             last_loop_buffer[j] < splic_pack_buffer'[i]
                        /\ Older(parsed, splic_pack_buffer'[i])
    BY DEF Ahead, Recv
  <2>2. CASE i \in 1..splic_index
    <3>1. splic_pack_buffer'[i] = splic_pack_buffer[i]
      BY <1>3, <2>2, RecvCells DEF Splicing
    <3>2. pc = "recv"
      BY DEF Recv
    <3>3. QED
      BY <2>2, <3>1, <3>2 DEF Splicing, Ahead
  <2>3. CASE i \in splic_index + 1 .. splic_index + n
    <3>1. splic_pack_buffer'[i] = received + (i - splic_index)
      BY <2>3, RecvCells DEF Splicing
    <3>2. splic_pack_buffer'[i] \in Nat /\ received + 1 <= splic_pack_buffer'[i]
      BY <1>3, <2>3, <3>1
    <3>3. \A j \in 1..LAST_BUFFER_SZIE :
            last_loop_buffer[j] \in Nat /\ last_loop_buffer[j] <= received
      BY Numbers DEF Splicing, Known
    <3>4. Older(parsed, splic_pack_buffer'[i])
      BY <1>3, <3>2, OlderStill DEF Splicing, Known
    <3>5. QED
      BY <1>3, <3>2, <3>3, <3>4
  <2>4. QED
    BY <1>3, <2>2, <2>3
<1>6. pc' # "scan"
  BY DEF Recv
<1>7. QED
  BY <1>1, <1>2, <1>4, <1>5, <1>6 DEF Splicing, InHand


\* What parsePkg finds at an offset when it begins: the rest, then the batch.
LEMMA BeginCells ==
  ASSUME IInv, Begin, NEW k \in 0..(LastLength + splic_index) - 1
  PROVE  At(k)' = IF k < LastLength THEN last_loop_buffer[k + 1]
                                    ELSE splic_pack_buffer[(k + 1) - LastLength]
<1>1. LastLength \in Nat /\ LastLength + splic_index <= LAST_BUFFER_SZIE
  BY BatchFits
<1>2. /\ splic_index \in Nat /\ splic_index <= SPLIC_PACK_SZIE
      /\ SPLIC_PACK_SZIE \in Nat /\ LAST_BUFFER_SZIE \in Nat
      /\ DOMAIN last_loop_buffer = 1..LAST_BUFFER_SZIE
  BY TcpFramingAssumption DEF TcpFramingAssumption, IInv, TypeOK
<1>3. (inLast' <=> LastLength > 0) /\ splic_pack_buffer' = splic_pack_buffer
  <2>1. inLast' = (LastLength > 0) /\ splic_pack_buffer' = splic_pack_buffer
    BY Zenon DEF Begin
  <2>2. (LastLength > 0) \in BOOLEAN
    BY <1>1
  <2>3. QED
    BY <2>1, <2>2, Zenon
<1>4. CASE LastLength > 0
  <2>1. last_loop_buffer' =
          Copied(last_loop_buffer, LastLength, splic_pack_buffer, splic_index)
    BY <1>4 DEF Begin
  <2>2. k + 1 \in 1..LAST_BUFFER_SZIE
    BY <1>1, <1>2
  <2>3. last_loop_buffer'[k + 1] =
          IF k + 1 \in LastLength + 1 .. LastLength + splic_index
          THEN splic_pack_buffer[(k + 1) - LastLength] ELSE last_loop_buffer[k + 1]
    BY <1>2, <2>1, <2>2 DEF Copied
  <2>4. At(k)' = last_loop_buffer'[k + 1]
    <3>1. k < LAST_BUFFER_SZIE
      BY <1>1, <1>2
    <3>2. inLast'
      BY <1>3, <1>4
    <3>3. QED
      BY <3>1, <3>2 DEF At
  <2>5. k + 1 \in LastLength + 1 .. LastLength + splic_index <=> ~(k < LastLength)
    BY <1>1, <1>2
  <2>6. QED
    BY <2>3, <2>4, <2>5
<1>5. CASE LastLength = 0
  <2>1. k < SPLIC_PACK_SZIE /\ ~(k < LastLength) /\ (k + 1) - LastLength = k + 1
    BY <1>1, <1>2, <1>5
  <2>2. ~inLast'
    BY <1>3, <1>5
  <2>3. At(k)' = splic_pack_buffer'[k + 1]
    <3>1. /\ ~(inLast' /\ k < LAST_BUFFER_SZIE)
          /\ ~inLast' /\ k < SPLIC_PACK_SZIE
          /\ ~(~inLast' /\ k - SPLIC_PACK_SZIE \in 0..LAST_BUFFER_SZIE - 1)
      BY <1>2, <2>1, <2>2
    <3>2. QED
      BY <3>1, Zenon DEF At
  <2>4. QED
    BY <1>3, <2>1, <2>3
<1>6. QED
  BY <1>1, <1>4, <1>5

LEMMA BeginSplicing == Splicing /\ Begin => Splicing'
<1> SUFFICES ASSUME Splicing, Begin PROVE Splicing'
  OBVIOUS
<1> DEFINE l == LastLength
<1>1. IInv' /\ StreamInv'
  BY BeginIInv DEF Splicing, StreamInv, Begin
<1>2. Spliced'
  BY DEF Splicing, Spliced, Begin
<1>3. /\ l \in Nat /\ l + splic_index <= LAST_BUFFER_SZIE
      /\ splic_index \in Nat /\ splic_index <= SPLIC_PACK_SZIE
      /\ SPLIC_PACK_SZIE \in Nat /\ LAST_BUFFER_SZIE \in Nat
  BY BatchFits, Numbers, TcpFramingAssumption DEF TcpFramingAssumption, Splicing
<1>4. /\ UNCHANGED <<splic_pack_buffer, splic_index, received, parsed>>
      /\ length' = l + splic_index /\ curpkg_index' = 0 /\ pc = "begin" /\ pc' = "scan"
  BY DEF Begin
<1>5. Known'
  <2>1. \A j \in 1..LAST_BUFFER_SZIE : last_loop_buffer'[j] <= received
    <3>1. SUFFICES ASSUME NEW j \in 1..LAST_BUFFER_SZIE
                   PROVE  last_loop_buffer'[j] <= received
      OBVIOUS
    <3>2. last_loop_buffer[j] <= received
      BY DEF Splicing, Known
    <3>3. CASE last_loop_buffer' = last_loop_buffer
      BY <3>2, <3>3
    <3>4. CASE last_loop_buffer' = Copied(last_loop_buffer, l, splic_pack_buffer, splic_index)
      <4>1. DOMAIN last_loop_buffer = 1..LAST_BUFFER_SZIE
        BY DEF Splicing, IInv, TypeOK
      <4>2. last_loop_buffer'[j] = IF j \in l + 1 .. l + splic_index
                                   THEN splic_pack_buffer[j - l] ELSE last_loop_buffer[j]
        BY <3>4, <4>1 DEF Copied
      <4>3. j \in l + 1 .. l + splic_index => j - l \in 1..SPLIC_PACK_SZIE
        BY <1>3
      <4>4. QED
        BY <3>2, <4>2, <4>3 DEF Splicing, Known
    <3>5. QED
      BY <3>3, <3>4 DEF Begin
  <2>2. QED
    BY <1>4, <2>1 DEF Splicing, Known
<1>6. ASSUME NEW k \in 0..(l + splic_index) - 1, NEW i \in 1..splic_index
      PROVE  /\ k + 1 = l + i => At(k)' = splic_pack_buffer[i]
             /\ k < l => At(k)' < splic_pack_buffer[i]
  <2>1. At(k)' = IF k < l THEN last_loop_buffer[k + 1]
                          ELSE splic_pack_buffer[(k + 1) - l]
    BY BeginCells DEF Splicing
  <2>2. ASSUME k + 1 = l + i
        PROVE  At(k)' = splic_pack_buffer[i]
    <3>1. ~(k < l) /\ (k + 1) - l = i
      BY <1>3, <2>2
    <3>2. QED
      BY <2>1, <3>1
  <2>3. ASSUME k < l
        PROVE  At(k)' < splic_pack_buffer[i]
    <3>1. k + 1 \in 1..LAST_BUFFER_SZIE
      BY <1>3
    <3>2. QED
      BY <1>4, <2>1, <2>3, <3>1 DEF Splicing, Ahead
  <2>4. QED
    BY <2>2, <2>3
<1>7. \A i \in 1..splic_index : Older(parsed, splic_pack_buffer[i])
  BY <1>4 DEF Splicing, Ahead
<1>8. InHand'
  <2> HIDE DEF l
  <2>1. length' - splic_index' = l /\ splic_index' <= length'
    BY <1>3, <1>4
  <2>2. \A i \in 1..splic_index : Older(parsed', splic_pack_buffer'[i])
    BY <1>4, <1>7
  <2>3. QED
    BY <1>4, <1>6, <2>1, <2>2 DEF InHand
<1>9. Ahead'
  BY <1>4 DEF Ahead
<1>10. QED
  BY <1>1, <1>2, <1>5, <1>8, <1>9 DEF Splicing

LEMMA SkipSplicing == Splicing /\ SkipCell => Splicing'
<1> SUFFICES ASSUME Splicing, SkipCell PROVE Splicing'
  OBVIOUS
<1>1. IInv' /\ StreamInv'
  BY SkipIInv DEF Splicing, StreamInv, SkipCell
<1>2. /\ UNCHANGED <<received, splic_pack_buffer, splic_index, last_loop_buffer, pc,
                     inLast, length, parsed>>
      /\ curpkg_index' = curpkg_index + 1 /\ pc = "scan"
  BY DEF SkipCell, Scanning
<1>3. curpkg_index \in Nat /\ length \in Nat /\ splic_index \in Nat
  BY Numbers DEF Splicing, IInv, TypeOK
<1>4. Spliced' /\ Known' /\ Ahead'
  BY <1>2 DEF Splicing, Spliced, Known, Ahead
<1>5. \A k \in Nat : At(k)' = At(k)
  BY <1>2 DEF At
<1>6. InHand'
  <2>1. \A i \in 1..splic_index :
          curpkg_index + 1 < (length - splic_index) + i =>
            Older(parsed, splic_pack_buffer[i])
    BY <1>2, <1>3 DEF Splicing, InHand
  <2>2. QED
    BY <1>2, <1>3, <1>5, <2>1 DEF Splicing, InHand
<1>7. QED
  BY <1>1, <1>4, <1>6 DEF Splicing

LEMMA EndScanSplicing == Splicing /\ EndScan => Splicing'
<1> SUFFICES ASSUME Splicing, EndScan PROVE Splicing'
  OBVIOUS
<1>1. IInv' /\ StreamInv'
  BY EndScanIInv DEF Splicing, StreamInv, EndScan
<1>2. /\ UNCHANGED <<received, splic_pack_buffer, splic_index, last_loop_buffer, parsed>>
      /\ pc' = "save"
  BY DEF EndScan
<1>3. QED
  BY <1>1, <1>2 DEF Splicing, Spliced, Known, Ahead, InHand

LEMMA StutterSplicing == Splicing /\ UNCHANGED vars => Splicing'
<1> SUFFICES ASSUME Splicing, UNCHANGED vars PROVE Splicing'
  OBVIOUS
<1>1. IInv' /\ StreamInv'
  BY StutterIInv DEF Splicing, StreamInv, vars
<1>2. \A k \in Nat : At(k)' = At(k)
  BY DEF At, vars
<1>3. length \in Nat
  BY DEF Splicing, IInv, TypeOK
<1>4. QED
  BY <1>1, <1>2, <1>3 DEF Splicing, Spliced, Known, Ahead, InHand, vars

\* No offset holds a cell that has not been received.
LEMMA AtKnown ==
  ASSUME IInv, Known, NEW k \in Nat PROVE At(k) \in Nat /\ At(k) <= received
<1>1. At(k) \in Nat
  <2>1. At(k) \in Cells
    BY AtType DEF IInv
  <2>2. QED
    BY <2>1, CellNumbers
<1> USE TcpFramingAssumption DEF TcpFramingAssumption
<1>2. CASE inLast /\ k < LAST_BUFFER_SZIE
  <2>1. k + 1 \in 1..LAST_BUFFER_SZIE
    BY <1>2
  <2>2. QED
    BY <1>1, <1>2, <2>1 DEF At, Known
<1>3. CASE ~inLast /\ k < SPLIC_PACK_SZIE
  <2>1. k + 1 \in 1..SPLIC_PACK_SZIE
    BY <1>3
  <2>2. QED
    BY <1>1, <1>3, <2>1 DEF At, Known
<1>4. CASE ~inLast /\ k - SPLIC_PACK_SZIE \in 0..LAST_BUFFER_SZIE - 1
  <2>1. k - SPLIC_PACK_SZIE + 1 \in 1..LAST_BUFFER_SZIE /\ ~(k < SPLIC_PACK_SZIE)
    BY <1>4
  <2>2. QED
    BY <1>1, <1>4, <2>1 DEF At, Known
<1>5. CASE /\ ~(inLast /\ k < LAST_BUFFER_SZIE)
           /\ ~(~inLast /\ k < SPLIC_PACK_SZIE)
           /\ ~(~inLast /\ k - SPLIC_PACK_SZIE \in 0..LAST_BUFFER_SZIE - 1)
  BY <1>1, <1>5, Numbers DEF At
<1>6. QED
  BY <1>2, <1>3, <1>4, <1>5

LEMMA SaveSplicing == Splicing /\ Save => Splicing'
<1> SUFFICES ASSUME Splicing, Save PROVE Splicing'
  OBVIOUS
<1>1. IInv' /\ StreamInv'
  BY SaveIInv DEF Splicing, StreamInv, Save
<1>2. /\ UNCHANGED <<received, splic_pack_buffer, parsed>>
      /\ splic_index' = 0 /\ pc' = "recv"
  BY DEF Save
<1>3. \A j \in 1..LAST_BUFFER_SZIE : last_loop_buffer'[j] <= received
  <2>1. SUFFICES ASSUME NEW j \in 1..LAST_BUFFER_SZIE
                 PROVE  last_loop_buffer'[j] <= received
    OBVIOUS
  <2>2. DOMAIN last_loop_buffer = 1..LAST_BUFFER_SZIE /\ curpkg_index \in Nat
    BY DEF Splicing, IInv, TypeOK
  <2>3. PICK t : /\ last_loop_buffer' = Copied(last_loop_buffer, 0, t, Saved)
                 /\ \A i \in 1..Saved : t[i] \in Read(i)
    BY SavedCells DEF Splicing
  <2>7. last_loop_buffer'[j] = IF j \in 0 + 1 .. 0 + Saved THEN t[j - 0] ELSE last_loop_buffer[j]
    BY <2>2, <2>3 DEF Copied
  <2>4. CASE j \in 0 + 1 .. 0 + Saved
    <3>1. Saved \in Nat
      BY SavedFits DEF Splicing
    <3>2. j \in Nat \ {0} /\ j - 0 = j /\ j \in 1..Saved
      BY <2>4, <3>1
    <3>3. last_loop_buffer'[j] \in Read(j)
      BY <2>3, <2>4, <2>7, <3>2
    <3>4. curpkg_index + j - 1 \in Nat
      BY <2>2, <3>2
    <3>5. At(curpkg_index + j - 1) <= received
      BY <3>4, AtKnown DEF Splicing
    <3>6. QED
      BY <3>3, <3>5 DEF Read
  <2>5. CASE j \notin 0 + 1 .. 0 + Saved
    BY <2>5, <2>7 DEF Splicing, Known
  <2>6. QED
    BY <2>4, <2>5
<1>4. Known'
  BY <1>2, <1>3 DEF Splicing, Known
<1>5. QED
  BY <1>1, <1>2, <1>4 DEF Splicing, Spliced, Ahead, InHand


-----------------------------------------------------------------------------
(* A frame found in the batch.                                             *)

\* A header that lies in the batch is that of a frame whose length follows it,
\* and if the check value is where that length says, all of it has arrived.
LEMMA FoundIsSent ==
  ASSUME Splicing, Distinct, TakeFrame, CheckHolds, curpkg_index >= length - splic_index
  PROVE  \E i \in 1..splic_index :
           /\ i = (curpkg_index - (length - splic_index)) + 1
           /\ DataLength + HeaderSize = FrameSize
           /\ i + FrameSize - 1 <= splic_index
           /\ \A n \in 0..FrameSize - 1 : /\ At(curpkg_index + n) = splic_pack_buffer[i + n]
                                          /\ At(curpkg_index + n) = splic_pack_buffer[i] + n
<1> DEFINE o == length - splic_index
           x == curpkg_index
           i == (x - o) + 1
           b == splic_pack_buffer
<1>1. /\ x \in Nat /\ length \in Nat /\ o \in Nat /\ splic_index \in Nat
      /\ splic_index <= length /\ o <= x /\ x + 2 <= length
      /\ FrameSize \in Nat /\ FrameSize > 2 /\ length <= DATA_HEAD /\ pc = "scan"
      /\ length = o + splic_index
  <2>1. pc = "scan" /\ HeaderFits
    BY DEF TakeFrame, Scanning
  <2>2. splic_index <= length
    BY <2>1 DEF Splicing, InHand
  <2>3. curpkg_index \in Nat /\ length \in Nat /\ splic_index \in Nat
    BY Numbers DEF Splicing, IInv, TypeOK
  <2>4. length <= DATA_HEAD
    <3>1. SPLIC_PACK_SZIE \in Nat /\ LAST_BUFFER_SZIE \in Nat
      BY TcpFramingAssumption DEF TcpFramingAssumption
    <3>2. QED
      BY <2>1, <2>3, <3>1 DEF Splicing, IInv, Indices, Distinct, DATA_HEAD
  <2>5. FrameSize \in Nat /\ FrameSize > 2
    BY TcpFramingAssumption DEF TcpFramingAssumption
  <2>6. QED
    BY <2>1, <2>2, <2>3, <2>4, <2>5 DEF HeaderFits
<1>2. \A k \in 0..length - 1, j \in 1..splic_index : k + 1 = o + j => At(k) = b[j]
  BY <1>1 DEF Splicing, InHand
<1>3. \A j \in 1..splic_index : b[j] \in Cells /\ b[j] \in Nat \ {0}
  <2>1. \A j \in 1..splic_index : j \in 1..SPLIC_PACK_SZIE /\ b[j] \in 1..received
    BY Numbers, TcpFramingAssumption DEF TcpFramingAssumption, Splicing, Spliced
  <2>2. b \in [1..SPLIC_PACK_SZIE -> Cells] /\ received \in Nat
    BY Numbers DEF Splicing, IInv, TypeOK
  <2>3. QED
    BY <2>1, <2>2
<1>4. \A j, k \in 1..splic_index : j < k => b[k] = b[j] + (k - j) \/ Place(b[k]) <= k - j
  BY DEF Splicing, Spliced
<1>5. i \in 1..splic_index /\ i + 1 \in 1..splic_index
  BY <1>1
<1>6. At(x) = b[i] /\ At(x + 1) = b[i + 1]
  <2>1. x \in 0..length - 1 /\ x + 1 \in 0..length - 1
        /\ x + 1 = o + i /\ (x + 1) + 1 = o + (i + 1)
    BY <1>1
  <2>2. QED
    BY <1>2, <1>5, <2>1
<1> HIDE DEF o, i, b, x
<1>7. Place(b[i]) = 1
  <2>1. stream[b[i]] = DATA_HEAD
    BY <1>6 DEF TakeFrame, Value, x
  <2>2. QED
    BY <1>3, <1>5, <2>1, WhatCellsHold DEF Splicing
<1>8. DataLength = stream[b[i + 1]] /\ CheckIndex = x + 1 + DataLength
      /\ CheckIndex < length /\ stream[At(CheckIndex)] = DATA_CHECK_VALUE
  <2>1. DataLength = stream[b[i + 1]]
    BY <1>6 DEF DataLength, Value, x
  <2>2. DataLength \in Nat
    <3>1. stream \in [Cells -> Nat]
      BY DEF Splicing, IInv, TypeOK
    <3>2. QED
      BY <1>3, <1>5, <2>1, <3>1
  <2>3. CheckIndex = x + 1 + DataLength
    BY <1>1, <2>2 DEF CheckIndex, x
  <2>4. CheckIndex < length
    BY DEF TakeFrame
  <2>5. stream[At(CheckIndex)] = DATA_CHECK_VALUE
    BY DEF CheckHolds, Value
  <2>6. QED
    BY <2>1, <2>3, <2>4, <2>5
<1>9. DataLength = FrameSize - 2
  <2>1. CASE b[i + 1] = b[i] + 1
    <3>1. Place(b[i] + 1) = 1 + 1
      BY <1>1, <1>3, <1>5, <1>7, PlaceBehind
    <3>2. QED
      BY <1>3, <1>5, <1>8, <2>1, <3>1, WhatCellsHold DEF Splicing
  <2>2. CASE Place(b[i + 1]) <= 1
    <3>1. Place(b[i + 1]) \in 1..FrameSize
      BY <1>3, <1>5, PlaceRange
    <3>2. Place(b[i + 1]) = 1
      BY <1>1, <2>2, <3>1
    <3>3. DataLength = DATA_HEAD
      BY <1>3, <1>5, <1>8, <3>2, WhatCellsHold DEF Splicing
    <3>4. QED
      BY <1>1, <1>8, <3>3 DEF DATA_HEAD
  <2>3. i < i + 1 /\ (i + 1) - i = 1
    BY <1>5
  <2>4. QED
    BY <1>4, <1>5, <2>1, <2>2, <2>3
<1>10. i + FrameSize - 1 \in 1..splic_index
  BY <1>1, <1>5, <1>8, <1>9 DEF i
<1>11. \A n \in 0..FrameSize - 1 : At(x + n) = b[i + n]
  <2>1. SUFFICES ASSUME NEW n \in 0..FrameSize - 1
                 PROVE  At(x + n) = b[i + n]
    OBVIOUS
  <2>2. i + n \in 1..splic_index /\ x + n \in 0..length - 1 /\ (x + n) + 1 = o + (i + n)
    BY <1>1, <1>5, <1>10 DEF i
  <2>3. QED
    BY <1>2, <2>2
<1> DEFINE e == i + FrameSize - 1
<1>12. Place(b[e]) = FrameSize
  <2>1. CheckIndex = x + (FrameSize - 1) /\ FrameSize - 1 \in 0..FrameSize - 1
        /\ i + (FrameSize - 1) = e
    BY <1>1, <1>5, <1>8, <1>9
  <2>2. At(CheckIndex) = b[e]
    BY <1>11, <2>1
  <2>3. QED
    BY <1>3, <1>8, <1>10, <2>2, WhatCellsHold DEF Splicing
<1>13. ASSUME NEW n \in 0..FrameSize - 1
       PROVE  b[i + n] = b[e] - (FrameSize - 1 - n)
  <2>1. CASE n = FrameSize - 1
    <3>1. i + n = e /\ FrameSize - 1 - n = 0
      BY <1>1, <1>5, <2>1
    <3>2. QED
      BY <1>3, <1>10, <3>1
  <2>2. CASE n < FrameSize - 1
    <3>1. i + n \in 1..splic_index /\ i + n < e /\ e - (i + n) = FrameSize - 1 - n
      BY <1>1, <1>5, <1>10, <2>2
    <3>2. ~(Place(b[e]) <= e - (i + n))
      BY <1>1, <1>12, <3>1
    <3>3. b[e] = b[i + n] + (e - (i + n))
      BY <1>4, <1>10, <3>1, <3>2
    <3>4. b[e] \in Nat /\ b[i + n] \in Nat
      BY <1>3, <1>10, <3>1
    <3>5. QED
      BY <1>1, <3>1, <3>3, <3>4
  <2>3. QED
    BY <1>1, <2>1, <2>2
<1>14. ASSUME NEW n \in 0..FrameSize - 1
       PROVE  b[i + n] = b[i] + n
  <2>1. b[i + n] = b[e] - (FrameSize - 1 - n)
    BY <1>13
  <2>2. b[i + 0] = b[e] - (FrameSize - 1 - 0) /\ i + 0 = i
    BY <1>1, <1>5, <1>13
  <2>3. b[e] \in Nat
    BY <1>3, <1>10
  <2>4. QED
    BY <1>1, <2>1, <2>2, <2>3
<1>15. i = (curpkg_index - (length - splic_index)) + 1
  BY DEF i, o, x
<1>16. DataLength + HeaderSize = FrameSize /\ i + FrameSize - 1 <= splic_index
  BY <1>1, <1>5, <1>9, <1>10
<1>17. \A n \in 0..FrameSize - 1 : /\ At(curpkg_index + n) = splic_pack_buffer[i + n]
                                   /\ At(curpkg_index + n) = splic_pack_buffer[i] + n
  BY <1>11, <1>14 DEF x, b
<1>18. QED
  BY <1>5, <1>15, <1>16, <1>17

\* Frames with one more behind them.
LEMMA OlderAppend ==
  ASSUME IInv, NEW f \in Seq(Cells), NEW c, Older(parsed, c),
         \A j \in 1..Len(f) : f[j] < c
  PROVE  Older(Append(parsed, f), c)
<1> SUFFICES ASSUME NEW k \in 1..Len(Append(parsed, f)),
                    NEW j \in 1..Len(Append(parsed, f)[k])
             PROVE  Append(parsed, f)[k][j] < c
  BY DEF Older
<1>1. parsed \in Seq(Seq(Cells))
  BY DEF IInv, TypeOK
<1>2. Len(Append(parsed, f)) = Len(parsed) + 1 /\ Len(parsed) \in Nat
  BY <1>1, AppendProperties, LenProperties
<1>3. CASE k \in 1..Len(parsed)
  <2>1. Append(parsed, f)[k] = parsed[k]
    BY <1>1, <1>3, AppendProperties
  <2>2. QED
    BY <1>3, <2>1 DEF Older
<1>4. CASE k = Len(parsed) + 1
  <2>1. Append(parsed, f)[k] = f
    BY <1>1, <1>4, AppendProperties
  <2>2. QED
    BY <2>1
<1>5. QED
  BY <1>2, <1>3, <1>4

\* The frame that parsePkg takes.
LEMMA Taken ==
  ASSUME IInv, TakeFrame
  PROVE  \E f \in Seq(Cells) :
           /\ DataLength \in Nat /\ Len(f) = DataLength + HeaderSize
           /\ \A j \in 1..Len(f) : f[j] = At(curpkg_index + (j - 1))
           /\ parsed' = IF CheckHolds THEN Append(parsed, f) ELSE parsed
<1> DEFINE n == DataLength + HeaderSize
           f == [j \in 1..n |-> At(curpkg_index + j - 1)]
<1>1. curpkg_index \in Nat /\ curpkg_index + 1 \in Nat
  BY DEF IInv, TypeOK
<1>2. DataLength \in Nat
  BY <1>1, ValueType DEF IInv, DataLength
<1>3. n \in Nat
  BY <1>2
<1>4. \A j \in 1..n : curpkg_index + j - 1 \in Nat /\ curpkg_index + j - 1 = curpkg_index + (j - 1)
  BY <1>1, <1>3
<1>5. \A j \in 1..n : At(curpkg_index + j - 1) \in Cells
  BY <1>4, AtType DEF IInv
<1>6. f \in [1..n -> Cells]
  BY <1>5
<1>7. f \in Seq(Cells)
  BY <1>3, <1>6, SeqDef
<1>8. parsed' = IF CheckHolds THEN Append(parsed, f) ELSE parsed
  BY DEF TakeFrame
<1>9. \A j \in 1..n : f[j] = At(curpkg_index + (j - 1))
  BY <1>4
<1>10. DOMAIN f = 1..n
  OBVIOUS
<1> HIDE DEF f, n
<1>11. Len(f) = n
  BY <1>3, <1>7, <1>10, LenProperties
<1>12. QED
  BY <1>2, <1>7, <1>8, <1>9, <1>11 DEF n

LEMMA TakeSplicing == Splicing /\ TakeFrame => Splicing'
<1> SUFFICES ASSUME Splicing, TakeFrame PROVE Splicing'
  OBVIOUS
<1>1. IInv' /\ StreamInv'
  BY TakeIInv DEF Splicing, StreamInv, TakeFrame
<1>2. /\ UNCHANGED <<received, splic_pack_buffer, splic_index, last_loop_buffer, pc,
                     inLast, length>>
      /\ curpkg_index' = CheckIndex + 1 /\ pc = "scan" /\ CheckIndex < length
  BY DEF TakeFrame, Scanning
<1>3. PICK f \in Seq(Cells) :
        /\ DataLength \in Nat /\ Len(f) = DataLength + HeaderSize
        /\ \A j \in 1..Len(f) : f[j] = At(curpkg_index + (j - 1))
        /\ parsed' = IF CheckHolds THEN Append(parsed, f) ELSE parsed
  BY Taken DEF Splicing
<1>4. /\ curpkg_index \in Nat /\ length \in Nat /\ splic_index \in Nat
      /\ received \in Nat
      /\ CheckIndex \in Nat /\ CheckIndex + 1 = curpkg_index + Len(f)
  <2>1. curpkg_index \in Nat /\ length \in Nat /\ splic_index \in Nat /\ received \in Nat
    BY Numbers DEF Splicing, IInv, TypeOK
  <2>2. QED
    BY <1>3, <2>1 DEF CheckIndex
<1>5. \A c : Older(parsed, c) /\ (\A j \in 1..Len(f) : f[j] < c) => Older(parsed', c)
  <2>1. SUFFICES ASSUME NEW c, Older(parsed, c), \A j \in 1..Len(f) : f[j] < c
                 PROVE  Older(parsed', c)
    OBVIOUS
  <2>2. Older(Append(parsed, f), c)
    BY <2>1, OlderAppend DEF Splicing
  <2>3. QED
    BY <1>3, <2>1, <2>2
<1>6. Spliced' /\ Ahead'
  BY <1>2 DEF Splicing, Spliced, Ahead
<1>7. Known'
  <2>1. \A j \in 1..Len(f) : f[j] < received + 1
    <3>1. SUFFICES ASSUME NEW j \in 1..Len(f)
                   PROVE  f[j] < received + 1
      OBVIOUS
    <3>2. curpkg_index + (j - 1) \in Nat
      BY <1>3, <1>4
    <3>3. At(curpkg_index + (j - 1)) \in Nat /\ At(curpkg_index + (j - 1)) <= received
      BY <3>2, AtKnown DEF Splicing
    <3>4. QED
      BY <1>3, <1>4, <3>3
  <2>2. Older(parsed', received + 1)
    BY <1>5, <2>1 DEF Splicing, Known
  <2>3. QED
    BY <1>2, <2>2 DEF Splicing, Known
<1>8. \A k \in Nat : At(k)' = At(k)
  BY <1>2 DEF At
<1>9. ASSUME NEW i \in 1..splic_index, CheckIndex + 1 < (length - splic_index) + i
      PROVE  Older(parsed', splic_pack_buffer[i])
  <2>1. Older(parsed, splic_pack_buffer[i])
    BY <1>2, <1>3, <1>4, <1>9 DEF Splicing, InHand
  <2>2. \A j \in 1..Len(f) : f[j] < splic_pack_buffer[i]
    <3>1. SUFFICES ASSUME NEW j \in 1..Len(f)
                   PROVE  f[j] < splic_pack_buffer[i]
      OBVIOUS
    <3>2. PICK k \in 0..length - 1 : k = curpkg_index + (j - 1)
      BY <1>2, <1>3, <1>4
    <3>3. f[j] = At(k) /\ k <= CheckIndex
      BY <1>3, <1>4, <3>2
    <3>4. CASE k < length - splic_index
      BY <1>2, <3>3, <3>4 DEF Splicing, InHand
    <3>5. CASE k >= length - splic_index
      <4>1. PICK m \in 1..splic_index : k + 1 = (length - splic_index) + m
        <5>1. splic_index <= length
          BY <1>2 DEF Splicing, InHand
        <5>2. (k + 1) - (length - splic_index) \in 1..splic_index
          BY <1>4, <3>5, <5>1
        <5>3. k + 1 = (length - splic_index) + ((k + 1) - (length - splic_index))
          BY <1>4
        <5>4. QED
          BY <5>2, <5>3
      <4>2. m < i
        BY <1>4, <1>9, <3>3, <4>1
      <4>3. At(k) = splic_pack_buffer[m]
        BY <1>2, <4>1 DEF Splicing, InHand
      <4>4. QED
        BY <3>3, <4>2, <4>3 DEF Splicing, Spliced
    <3>6. QED
      BY <1>4, <3>4, <3>5
  <2>3. QED
    BY <1>5, <2>1, <2>2
<1>10. InHand'
  <2>1. splic_index <= length
    BY <1>2 DEF Splicing, InHand
  <2>2. \A k \in 0..length - 1, i \in 1..splic_index :
          /\ k + 1 = (length - splic_index) + i => At(k)' = splic_pack_buffer[i]
          /\ k < length - splic_index => At(k)' < splic_pack_buffer[i]
    BY <1>2, <1>4, <1>8 DEF Splicing, InHand
  <2>3. QED
    BY <1>2, <1>9, <2>1, <2>2 DEF InHand
<1>11. QED
  BY <1>1, <1>6, <1>7, <1>10 DEF Splicing

LEMMA NextSplicing == Splicing /\ [Next]_vars => Splicing'
<1> SUFFICES ASSUME Splicing, [Next]_vars PROVE Splicing'
  OBVIOUS
<1>1. CASE Accept BY <1>1, AcceptSplicing
<1>2. CASE Hangup BY <1>2, HangupSplicing
<1>3. ASSUME NEW n \in 1..RECV_SIZE, Recv(n) PROVE Splicing' BY <1>3, RecvSplicing
<1>4. CASE Begin BY <1>4, BeginSplicing
<1>5. CASE SkipCell BY <1>5, SkipSplicing
<1>6. CASE TakeFrame BY <1>6, TakeSplicing
<1>7. CASE EndScan BY <1>7, EndScanSplicing
<1>8. CASE Save BY <1>8, SaveSplicing
<1>9. CASE UNCHANGED vars BY <1>9, StutterSplicing
<1>10. QED
  BY <1>1, <1>2, <1>3, <1>4, <1>5, <1>6, <1>7, <1>8, <1>9 DEF Next, ParsePkg

LEMMA SpecSplicing == Spec => []Splicing
  BY InitSplicing, NextSplicing, PTL DEF Spec


\* A frame that lies whole in the batch is handed on as the card sent it, and
\* is newer than all that has been, however the stream is cut, whatever is left
\* of lost connections, however long the last loop's rest was taken to be and
\* whatever was read behind it -
\* if no data looks like a header or a check, and a header read as a length
\* is longer than the buffers (apptcpsocket.cpp 106-112, 141-227).
THEOREM FreshFramesAreSent == Distinct => (Spec => FreshFramesWhole)
<1> SUFFICES ASSUME Distinct PROVE Spec => FreshFramesWhole
  OBVIOUS
<1> DEFINE Fresh == pc = "scan" /\ parsed' # parsed /\ curpkg_index >= length - splic_index
           NewFrame == parsed'[Len(parsed')]
           Whole == /\ Sent(NewFrame)
                    /\ \A i \in 1..Len(parsed) :
                         \A j \in 1..Len(parsed[i]) : parsed[i][j] < NewFrame[1]
<1>1. ASSUME Splicing, [Next]_vars, Fresh
      PROVE  Whole
  <2>1. TakeFrame
    BY <1>1 DEF Next, ParsePkg, Accept, Hangup, Recv, Begin, SkipCell, EndScan, Save, vars
  <2>2. PICK f \in Seq(Cells) :
          /\ DataLength \in Nat /\ Len(f) = DataLength + HeaderSize
          /\ \A j \in 1..Len(f) : f[j] = At(curpkg_index + (j - 1))
          /\ parsed' = IF CheckHolds THEN Append(parsed, f) ELSE parsed
    BY <1>1, <2>1, Taken DEF Splicing
  <2>3. CheckHolds /\ parsed' = Append(parsed, f)
    BY <1>1, <2>2
  <2>4. PICK i \in 1..splic_index :
          /\ i = (curpkg_index - (length - splic_index)) + 1
          /\ DataLength + HeaderSize = FrameSize
          /\ \A n \in 0..FrameSize - 1 : At(curpkg_index + n) = splic_pack_buffer[i] + n
    BY <1>1, <2>1, <2>3, FoundIsSent
  <2>5. FrameSize \in Nat /\ FrameSize > 2
    BY TcpFramingAssumption DEF TcpFramingAssumption
  <2>6. splic_pack_buffer[i] \in Nat
    <3>1. i \in 1..SPLIC_PACK_SZIE
      BY <1>1, Numbers, TcpFramingAssumption DEF TcpFramingAssumption, Splicing
    <3>2. QED
      BY <1>1, <3>1, Numbers DEF Splicing
  <2>7. \A j \in 1..FrameSize : f[j] = splic_pack_buffer[i] + (j - 1)
    <3>1. SUFFICES ASSUME NEW j \in 1..FrameSize
                   PROVE  f[j] = splic_pack_buffer[i] + (j - 1)
      OBVIOUS
    <3>2. j \in 1..Len(f) /\ j - 1 \in 0..FrameSize - 1
      BY <2>2, <2>4, <2>5
    <3>3. QED
      BY <2>2, <2>4, <3>2
  <2>8. f[1] = splic_pack_buffer[i]
    BY <2>5, <2>6, <2>7
  <2>9. Sent(f)
    BY <2>2, <2>4, <2>5, <2>6, <2>7, <2>8 DEF Sent
  <2>10. Older(parsed, f[1])
    <3>1. curpkg_index < (length - splic_index) + i
      <4>1. curpkg_index \in Nat /\ length \in Nat /\ splic_index \in Nat
        BY <1>1, Numbers DEF Splicing, IInv, TypeOK
      <4>2. QED
        BY <2>4, <4>1
    <3>2. QED
      BY <1>1, <2>8, <3>1 DEF Splicing, InHand
  <2>11. NewFrame = f
    <3>1. parsed \in Seq(Seq(Cells))
      BY <1>1 DEF Splicing, IInv, TypeOK
    <3>2. QED
      BY <2>3, <3>1, AppendProperties
  <2>12. QED
    BY <2>9, <2>10, <2>11 DEF Older
<1>2. ASSUME Splicing, [Next]_vars
      PROVE  [Fresh => Whole]_vars
  BY <1>1, <1>2
<1> HIDE DEF Fresh, Whole
<1>3. [][Fresh => Whole]_vars => FreshFramesWhole
  BY DEF FreshFramesWhole, Fresh, Whole
<1>4. QED
  BY <1>2, <1>3, SpecSplicing, PTL DEF Spec

=============================================================================
