----------------------------- MODULE TcpFraming -----------------------------
(***************************************************************************)
(* APPTCP: one thread receives the stream of the acquisition card, splices *)
(* its segments and cuts frames out of them.  A frame is a header, the     *)
(* length of what follows, the data and a check value.                     *)
(*                                                                         *)
(* Memory is a sequence of cells.  A cell is named by the position in the  *)
(* stream it was received from, 0 is a zeroed cell; `stream' tells what is *)
(* in it.  The header, the length and the check take one cell each, so a   *)
(* segment never ends inside one of them.  The object lives on the fresh   *)
(* stack of its thread, which the kernel has zeroed.                       *)
(***************************************************************************)
EXTENDS Integers, Sequences

CONSTANTS
  Frames,            \* how many frames the card sends (bound)
  Connections,       \* how often it connects (bound)
  FrameSize,         \* cells of a frame
  Noise,             \* what a data cell may hold
  RECV_SIZE,         \* RECV_BUFFER_SZIE - 1
  SPLIC_PACK_SZIE,
  LAST_BUFFER_SZIE,
  MIN_LENGTH,        \* the 5000 of parsePkg
  Byte,              \* what uint8_t counts up to
  Outside            \* what may lie behind last_loop_buffer, as cells that hold it

DATA_HEAD == 43571         \* 0xAA33
DATA_CHECK_VALUE == 204    \* 0xCC
HeaderSize == 2            \* sizeof(pack_header_t)

ASSUME TcpFramingAssumption ==
  /\ Frames \in Nat /\ Connections \in Nat /\ FrameSize \in Nat /\ FrameSize > HeaderSize
  /\ Noise \subseteq Nat
  /\ RECV_SIZE \in Nat \ {0} /\ MIN_LENGTH \in Nat /\ Byte \in Nat \ {0}
  /\ SPLIC_PACK_SZIE \in Nat /\ FrameSize + RECV_SIZE <= SPLIC_PACK_SZIE
  /\ LAST_BUFFER_SZIE \in Nat
  /\ 2 * (FrameSize + RECV_SIZE) <= LAST_BUFFER_SZIE

VARIABLES
  stream,            \* what the card sends
  connections,       \* connections so far
  received,          \* how many cells of it have been received or lost
  splic_pack_buffer,
  splic_index,
  last_loop_buffer,
  last_loop_length,
  pc,                \* "accept", "recv", "begin", "scan" or "save"
  inLast,            \* parsePkg: does buffer point at last_loop_buffer?
  length,
  curpkg_index,
  parsed             \* the calls of parse_data_frame: their frames

vars == <<stream, connections, received, splic_pack_buffer, splic_index,
          last_loop_buffer, last_loop_length, pc, inLast, length, curpkg_index,
          parsed>>

Cells == 0..(Frames * FrameSize)

ASSUME OutsideAssumption ==
  Outside # {} /\ Outside \subseteq [1..LAST_BUFFER_SZIE -> Cells]

\* The place of cell p in its frame, 1..FrameSize.
Place(p) == ((p - 1) % FrameSize) + 1

DataCells == {p \in Cells \ {0} : Place(p) \in HeaderSize + 1 .. FrameSize - 1}

\* The stream of the card, and the zeroed cell: header, length, data, check.
Stream(data) ==
  [p \in Cells |-> CASE p = 0 -> 0
                     [] p \in DataCells -> data[p]
                     [] p # 0 /\ Place(p) = 1 -> DATA_HEAD
                     [] p # 0 /\ Place(p) = 2 -> FrameSize - HeaderSize
                     [] OTHER -> DATA_CHECK_VALUE]

Zeroed(size) == [i \in 1..size |-> 0]

\* memcpy(buffer + at, t, n).
Copied(buffer, at, t, n) ==
  [i \in DOMAIN buffer |->
     IF i \in at + 1 .. at + n THEN t[i - at] ELSE buffer[i]]

TypeOK ==
  /\ stream \in [Cells -> Nat]
  /\ connections \in 0..Connections
  /\ received \in Cells
  /\ splic_pack_buffer \in [1..SPLIC_PACK_SZIE -> Cells]
  /\ splic_index \in 0..SPLIC_PACK_SZIE
  /\ last_loop_buffer \in [1..LAST_BUFFER_SZIE -> Cells]
  /\ last_loop_length \in 0..LAST_BUFFER_SZIE
  /\ pc \in {"accept", "recv", "begin", "scan", "save"}
  /\ inLast \in BOOLEAN
  /\ length \in Nat /\ curpkg_index \in Nat
  /\ parsed \in Seq(Seq(Cells))

Init ==
  /\ \E data \in [DataCells -> Noise] : stream = Stream(data)
  /\ connections = 0 /\ received = 0
  /\ splic_pack_buffer = Zeroed(SPLIC_PACK_SZIE) /\ splic_index = 0
  /\ last_loop_buffer = Zeroed(LAST_BUFFER_SZIE) /\ last_loop_length = 0
  /\ pc = "accept" /\ inLast = FALSE /\ length = 0 /\ curpkg_index = 0
  /\ parsed = <<>>

-----------------------------------------------------------------------------
(* dataReceiverThread.                                                     *)

\* A card connects; what was left of the last connection stays in the indices.
Accept ==
  /\ pc = "accept" /\ connections < Connections
  /\ connections' = connections + 1
  /\ last_loop_buffer' = Zeroed(LAST_BUFFER_SZIE)
  /\ pc' = "recv"
  /\ UNCHANGED <<stream, received, splic_pack_buffer, splic_index,
                 last_loop_length, inLast, length, curpkg_index, parsed>>

\* recv returns 0 or -1.  The card loses what it has not delivered, and starts
\* the next connection with a whole frame.
Hangup ==
  /\ pc = "recv"
  /\ pc' = "accept"
  /\ \E k \in 0..Frames :
       k * FrameSize >= received /\ received' = k * FrameSize
  /\ UNCHANGED <<stream, connections, splic_pack_buffer, splic_index, last_loop_buffer,
                 last_loop_length, inLast, length, curpkg_index, parsed>>

ParseDue(n) == splic_index + n > FrameSize

\* recv returns n cells; they are parsed as soon as there is more than a frame.
Recv(n) ==
  /\ pc = "recv" /\ received + n \in Cells
  /\ splic_pack_buffer' = Copied(splic_pack_buffer, splic_index,
                                 [i \in 1..n |-> received + i], n)
  /\ splic_index' = splic_index + n
  /\ received' = received + n
  /\ pc' = IF ParseDue(n) THEN "begin" ELSE "recv"
  /\ UNCHANGED <<stream, connections, last_loop_buffer, last_loop_length, inLast, length,
                 curpkg_index, parsed>>

-----------------------------------------------------------------------------
(* parsePkg(splic_pack_buffer, splic_index).                               *)

\* Mutation of LastLength: no test against the size of the buffer.
LastLengthAsIs == last_loop_length

\* Where the new cells are put behind those of the last loop.
LastLength ==
  IF last_loop_length + splic_index > LAST_BUFFER_SZIE
  THEN last_loop_length + splic_index - LAST_BUFFER_SZIE
  ELSE last_loop_length

Begin ==
  /\ pc = "begin"
  /\ pc' = "scan"
  /\ inLast' = (LastLength > 0)
  /\ last_loop_buffer' =
       IF LastLength > 0
       THEN Copied(last_loop_buffer, LastLength, splic_pack_buffer,
                   splic_index)
       ELSE last_loop_buffer
  /\ length' = LastLength + splic_index
  /\ curpkg_index' = 0
  /\ UNCHANGED <<stream, connections, received, splic_pack_buffer, splic_index,
                 last_loop_length, parsed>>

\* Does buffer + i lie in the buffers?  In the object last_loop_buffer lies
\* behind splic_pack_buffer.
Inside(i) ==
  i < IF inLast THEN LAST_BUFFER_SZIE ELSE SPLIC_PACK_SZIE + LAST_BUFFER_SZIE

\* The cell at buffer + i, if it is inside.
At(i) ==
  CASE inLast /\ i < LAST_BUFFER_SZIE -> last_loop_buffer[i + 1]
    [] ~inLast /\ i < SPLIC_PACK_SZIE -> splic_pack_buffer[i + 1]
    [] ~inLast /\ i - SPLIC_PACK_SZIE \in 0..LAST_BUFFER_SZIE - 1 ->
         last_loop_buffer[i - SPLIC_PACK_SZIE + 1]
    [] OTHER -> 0

Value(i) == stream[At(i)]

Scanning == pc = "scan" /\ curpkg_index < length /\ length >= MIN_LENGTH

HeaderFits == curpkg_index + HeaderSize <= length

DataLength == Value(curpkg_index + 1)

CheckIndex == curpkg_index + HeaderSize + DataLength - 1

\* Mutation of CheckHolds: the check value is not looked at.
CheckAssumed == TRUE

CheckHolds == Value(CheckIndex) = DATA_CHECK_VALUE

\* Mutation of SkipCell: continue without moving on.
SkipNothing ==
  /\ Scanning /\ HeaderFits /\ Value(curpkg_index) # DATA_HEAD
  /\ curpkg_index' = curpkg_index
  /\ UNCHANGED <<stream, connections, received, splic_pack_buffer, splic_index,
                 last_loop_buffer, last_loop_length, pc, inLast, length, parsed>>

SkipCell ==
  /\ Scanning /\ HeaderFits /\ Value(curpkg_index) # DATA_HEAD
  /\ curpkg_index' = curpkg_index + 1
  /\ UNCHANGED <<stream, connections, received, splic_pack_buffer, splic_index,
                 last_loop_buffer, last_loop_length, pc, inLast, length, parsed>>

\* A frame that lies in the buffer is handed to parse_data_frame if its last
\* cell is the check value, and skipped in either case.
TakeFrame ==
  /\ Scanning /\ HeaderFits /\ Value(curpkg_index) = DATA_HEAD
  /\ CheckIndex < length
  /\ parsed' = IF CheckHolds
               THEN Append(parsed, [i \in 1..DataLength + HeaderSize |->
                                      At(curpkg_index + i - 1)])
               ELSE parsed
  /\ curpkg_index' = CheckIndex + 1
  /\ UNCHANGED <<stream, connections, received, splic_pack_buffer, splic_index,
                 last_loop_buffer, last_loop_length, pc, inLast, length>>

EndScan ==
  /\ pc = "scan"
  /\ \/ ~Scanning
     \/ ~HeaderFits
     \/ Value(curpkg_index) = DATA_HEAD /\ CheckIndex >= length
  /\ pc' = "save"
  /\ UNCHANGED <<stream, connections, received, splic_pack_buffer, splic_index,
                 last_loop_buffer, last_loop_length, inLast, length,
                 curpkg_index, parsed>>

Rest == IF length > curpkg_index THEN length - curpkg_index ELSE 0

\* The test against (uint8_t)sizeof(last_loop_buffer).
Saved ==
  IF Rest > LAST_BUFFER_SZIE % Byte THEN LAST_BUFFER_SZIE ELSE Rest

\* memcpy(last_loop_buffer, buffer + curpkg_index, last_loop_length); where the
\* two overlap the copy does what memmove does.  A rest that is taken to fill
\* the buffer is read past the end of it, from wherever the frames found end:
\* those cells are what happens to lie there, a cell not yet received a zero.
Save ==
  /\ pc = "save"
  /\ last_loop_length' = Saved
  /\ \E outside \in Outside :
       last_loop_buffer' =
         Copied(last_loop_buffer, 0,
                [i \in 1..Saved |->
                   CASE Inside(curpkg_index + i - 1) -> At(curpkg_index + i - 1)
                     [] ~Inside(curpkg_index + i - 1) /\ outside[i] <= received -> outside[i]
                     [] OTHER -> 0], Saved)
  /\ splic_index' = 0
  /\ pc' = "recv"
  /\ UNCHANGED <<stream, connections, received, splic_pack_buffer, inLast, length,
                 curpkg_index, parsed>>

ParsePkg == Begin \/ SkipCell \/ TakeFrame \/ EndScan \/ Save

Next == Accept \/ Hangup \/ (\E n \in 1..RECV_SIZE : Recv(n)) \/ ParsePkg

Spec == Init /\ [][Next]_vars

\* The thread runs.  Nothing is asked of the card.
FairSpec == Spec /\ WF_vars(Accept) /\ WF_vars(ParsePkg)

-----------------------------------------------------------------------------
(* Properties.                                                             *)

\* Nothing is written outside a buffer, and what is parsed lies inside one:
\* splic_pack_buffer has room for the next segment, last_loop_buffer for what is
\* appended to the last loop's rest and for the rest of this one, and parsePkg
\* never looks for a frame beyond the buffer it is in (apptcpsocket.cpp 106,
\* 146-157, 164-198, 224).  Where the copy at 224 reads from is not asked: the
\* code's does read past the end of last_loop_buffer (Save).
InBounds ==
  /\ pc \in {"accept", "recv"} => splic_index + RECV_SIZE <= SPLIC_PACK_SZIE
  /\ pc = "begin" => LastLength + splic_index <= LAST_BUFFER_SZIE
  /\ pc \in {"scan", "save"} =>
       curpkg_index <= length
         /\ length <= IF inLast THEN LAST_BUFFER_SZIE ELSE SPLIC_PACK_SZIE
  /\ pc = "save" => Saved <= LAST_BUFFER_SZIE

\* A frame as the card sent it.
Sent(f) == Len(f) = FrameSize /\ \A i \in 1..FrameSize : f[i] = f[1] + i - 1

\* A frame that parsePkg finds among the cells just received, and not in what
\* was left of the loop before, is a frame as the card sent it, and newer than
\* anything that has been handed on: however the stream is cut, whatever is
\* spliced from lost connections, however wrongly the last loop's rest was
\* saved and whatever was read behind it - as long as no data cell holds the
\* check value, nor the value of a header with a length behind it
\* (apptcpsocket.cpp 106-112, 141-227).
FreshFramesWhole ==
  [][pc = "scan" /\ parsed' # parsed /\ curpkg_index >= length - splic_index =>
       LET f == parsed'[Len(parsed')]
       IN  /\ Sent(f)
           /\ \A i \in 1..Len(parsed) :
                \A j \in 1..Len(parsed[i]) : parsed[i][j] < f[1]]_vars

\* What README.md 42 promises of the card's data and the comments at
\* apptcpsocket.cpp 197-206 of the check value: what is handed on are frames as
\* they were sent, in this order and none twice.
OnlySentFrames ==
  /\ \A i \in 1..Len(parsed) : Sent(parsed[i])
  /\ \A i, j \in 1..Len(parsed) : i < j => parsed[i][1] < parsed[j][1]

\* parsePkg returns, whatever is in the buffer (apptcpsocket.cpp 164-217).
ParseEnds == pc = "begin" ~> pc = "recv"
=============================================================================
