---------------------------- MODULE CodedValue ----------------------------
(***************************************************************************)
(* How a value becomes coded elements and a reader's buffer becomes a      *)
(* value again (src/src/codes/rlnc_rs.cpp), with the parameters that the   *)
(* two sides compute for themselves: the writer's come from the payload it *)
(* holds, the reader's from the file size of its last start command        *)
(* (src/src/utilities/helpers.c, src/src/daemons).                         *)
(*                                                                         *)
(* A byte of a value is its position in the value.  The payload that kodo  *)
(* makes of one block for one server is named by the two; a decoder turns  *)
(* K payloads of one block from K servers into the block.                  *)
(*                                                                         *)
(* SODAW models the messages: a reader collects a majority of elements of  *)
(* one tag, at most one of each server, all of the same length.            *)
(***************************************************************************)
EXTENDS Majorities, Sequences, FiniteSetsExt

CONSTANTS
    ServerCounts,   \* the numbers of servers a deployment may have
    FileSizes,      \* the file sizes that a user may set, in bytes
    SYMBOL_SIZE,    \* bytes of a symbol, 1024 in the code
    Header,         \* what a payload holds besides its symbol
    FloatBits,      \* bits in the significand of a C float, 24
    Codings,        \* the coding algorithms in use
    ResizeRunning,  \* whether the file size may be set after the start
    MaxResizes,     \* bound: how often it is set
    MaxWrites       \* bound: how often the writer writes

ASSUME CodingAssumption ==
    /\ ServerCounts \subseteq Nat \ {0}
    /\ FileSizes \subseteq Nat
    /\ {SYMBOL_SIZE, Header, FloatBits} \subseteq Nat \ {0}
    /\ Codings \subseteq {"full_vector", "reed_solomon"}
    /\ ResizeRunning \in BOOLEAN
    /\ {MaxResizes, MaxWrites} \subseteq Nat

VARIABLES
    n,          \* num_servers
    algorithm,  \* the coding algorithm
    file_size,  \* data.file_size, which a command sets in every client
    resizes,    \* how often it was set
    writes,     \* how many values the writer has written
    filesize,   \* filesize_kb * 1024 in the reader's cparameters
    stored,     \* what the servers hold the elements of
    pc,         \* where the reader is
    source,     \* what the elements that it collects belong to
    frames,     \* the servers whose elements it has, in order of arrival
    info,       \* its EncodeData
    decoded     \* its decoded blocks

vars == <<n, algorithm, file_size, resizes, writes, filesize, stored, pc,
          source, frames, info, decoded>>

---------------------------------------------------------------------------
(* Arithmetic. *)

CeilDiv(a, b) == (a + b - 1) \div b

\* a / b to the nearest integer, ties to even.
NearestDiv(a, b) ==
    LET q == a \div b
        r == a % b
    IN  IF 2 * r > b \/ (2 * r = b /\ q % 2 = 1) THEN q + 1 ELSE q

\* (float) a
Float(a) ==
    LET unit == 2 ^ Min({e \in 0..a : a < 2 ^ (FloatBits + e)})
    IN  unit * NearestDiv(a, unit)

\* ceil of the float quotient of two floats.
CeilFloatDiv(a, b) ==
    IF a = 0 THEN 0
    ELSE LET scale == 2 ^ Max({e \in 0..(FloatBits + b) : a * 2 ^ e < b * 2 ^ FloatBits})
         IN  CeilDiv(NearestDiv(a * scale, b), scale)

\* ceil((float) n + 1) / 2: the division is one of integers.
CodeK(servers) == (servers + 1) \div 2

BlockSize == CodeK(n) * SYMBOL_SIZE

create_EncodeData(size) ==
    [K |-> CodeK(n), raw_data_size |-> size, encoded_symbol_size |-> 0,
     num_blocks |-> CeilFloatDiv(Float(size), BlockSize)]

---------------------------------------------------------------------------
(* The writing side. *)

Payload == SYMBOL_SIZE + Header

\* encode: as many blocks as it takes, whatever create_EncodeData computed.
encode(size) == [raw_data_size |-> size, num_blocks |-> CeilDiv(size, BlockSize)]

Nothing == encode(0)

PAD == 0

\* A faulty variant: the last block is left out unless it is full.
Block_dropped(size, b) ==
    [i \in 1..BlockSize |-> IF b * BlockSize <= size THEN (b - 1) * BlockSize + i ELSE PAD]

\* The bytes of block b of a value; the last one is filled up.
Block(size, b) ==
    [i \in 1..BlockSize |-> LET byte == (b - 1) * BlockSize + i
                            IN  IF byte <= size THEN byte ELSE PAD]

FrameSize == source.num_blocks * Payload

---------------------------------------------------------------------------
Init ==
    /\ n \in ServerCounts
    /\ algorithm \in Codings
    /\ file_size \in FileSizes
    /\ resizes = 0
    /\ writes = 0
    /\ filesize = 0
    /\ stored = Nothing
    /\ pc = "off"
    /\ source = Nothing
    /\ frames = <<>>
    /\ info = create_EncodeData(0)
    /\ decoded = <<>>

readVars == <<source, frames, info, decoded>>
---------------------------------------------------------------------------
(* Commands and writes. *)

SetFileSize(size) ==
    /\ ResizeRunning \/ (pc = "off" /\ writes = 0)
    /\ resizes < MaxResizes
    /\ resizes' = resizes + 1
    /\ file_size' = size
    /\ UNCHANGED <<n, algorithm, writes, filesize, stored, pc, readVars>>

\* The first start command of the reader copies the parameters for C.
StartReader ==
    /\ pc = "off"
    /\ filesize' = Float(file_size)
    /\ pc' = "started"
    /\ UNCHANGED <<n, algorithm, file_size, resizes, writes, stored, readVars>>

\* It then writes a first value, of the file size of this moment.
write_initial_data ==
    /\ pc = "started"
    /\ stored' = encode(file_size)
    /\ pc' = "idle"
    /\ UNCHANGED <<n, algorithm, file_size, resizes, writes, filesize, readVars>>

\* A turn of the writer's loop.
WriterWrites ==
    /\ writes < MaxWrites
    /\ writes' = writes + 1
    /\ stored' = encode(file_size)
    /\ UNCHANGED <<n, algorithm, file_size, resizes, filesize, pc, readVars>>
---------------------------------------------------------------------------
(* A read. *)

BeginRead ==
    /\ pc = "idle"
    /\ pc' = "collect"
    /\ info' = create_EncodeData(filesize)
    /\ source' = stored
    /\ UNCHANGED <<n, algorithm, file_size, resizes, writes, filesize, stored, frames, decoded>>

\* A faulty variant: frames count beyond the majority.
Unused_more(s) == \A i \in 1..Len(frames) : frames[i] # s

\* A faulty variant: a second element of a server counts as well.
Unused_any(s) == Len(frames) < Majority(n)

\* Each server sends its element of a tag once.
Unused(s) == /\ Len(frames) < Majority(n)
             /\ \A i \in 1..Len(frames) : frames[i] # s

Collect(s) ==
    /\ pc = "collect"
    /\ Unused(s)
    /\ frames' = Append(frames, s)
    /\ UNCHANGED <<n, algorithm, file_size, resizes, writes, filesize, stored, pc,
                   source, info, decoded>>

\* A faulty variant: the lengths are not added up.
Stride_last == FrameSize \div (info.num_blocks * info.K)

\* The length of all frames, divided by what the reader knows.
Stride == (Len(frames) * FrameSize) \div (info.num_blocks * info.K)

\* More frames than the K buffers go beyond the array, with any outcome; no
\* block to divide by ends the process.
get_encoded_info ==
    /\ pc = "collect"
    /\ Len(frames) = Majority(n)
    /\ \/ /\ info.num_blocks = 0 \/ Len(frames) > info.K
          /\ pc' = "killed"
          /\ UNCHANGED info
       \/ /\ info.num_blocks # 0
          /\ info' = [info EXCEPT !.encoded_symbol_size = Stride]
          /\ pc' = "decode"
    /\ UNCHANGED <<n, algorithm, file_size, resizes, writes, filesize, stored,
                   source, frames, decoded>>

\* Where the payload that the decoder takes for block b begins in a frame.
Offset(b) == (b - 1) * info.encoded_symbol_size

\* It is one payload, and not parts of two or what follows the frame.
IsPayload(b) ==
    /\ Offset(b) % Payload = 0
    /\ info.encoded_symbol_size >= Payload
    /\ Offset(b) + Payload <= FrameSize

\* The first K frames come from K servers.
Independent == \A i, j \in 1..info.K : frames[i] = frames[j] => i = j

GARBAGE == [i \in 1..BlockSize |-> PAD]

\* What decoding block b may give.  The random combinations of full_vector may
\* depend on each other, and then K of them are not enough.
Decodings(b) ==
    IF IsPayload(b) /\ Independent
    THEN {Block(source.raw_data_size, Offset(b) \div Payload + 1)}
    ELSE {GARBAGE}

MayFail(b) == algorithm = "full_vector" \/ ~IsPayload(b) \/ ~Independent

DecodeBlock ==
    /\ pc = "decode"
    /\ LET b == Len(decoded) + 1
       IN  /\ b <= info.num_blocks
           /\ \/ decoded' \in {Append(decoded, block) : block \in Decodings(b)} /\ UNCHANGED pc
              \/ MayFail(b) /\ pc' = "failed" /\ UNCHANGED decoded
    /\ UNCHANGED <<n, algorithm, file_size, resizes, writes, filesize, stored,
                   source, frames, info>>

EndRead ==
    /\ pc = "decode"
    /\ Len(decoded) = info.num_blocks
    /\ pc' = "done"
    /\ UNCHANGED <<n, algorithm, file_size, resizes, writes, filesize, stored, readVars>>

Next ==
    \/ \E size \in FileSizes : SetFileSize(size)
    \/ StartReader
    \/ write_initial_data
    \/ WriterWrites
    \/ BeginRead
    \/ \E s \in 1..n : Collect(s)
    \/ get_encoded_info
    \/ DecodeBlock
    \/ EndRead

Spec == Init /\ [][Next]_vars
---------------------------------------------------------------------------
(* Properties. *)

\* Types of the parameters, of the buffers and of what was decoded.
TypeOK ==
    /\ n \in ServerCounts
    /\ algorithm \in Codings
    /\ file_size \in FileSizes
    /\ resizes \in 0..MaxResizes
    /\ writes \in 0..MaxWrites
    /\ filesize \in Nat
    /\ stored \in [raw_data_size : Nat, num_blocks : Nat]
    /\ source \in [raw_data_size : Nat, num_blocks : Nat]
    /\ pc \in {"off", "started", "idle", "collect", "decode", "done", "failed", "killed"}
    /\ frames \in Seq(1..n) /\ Len(frames) <= Majority(n)
    /\ info \in [K : Nat, raw_data_size : Nat, encoded_symbol_size : Nat, num_blocks : Nat]
    /\ decoded \in Seq([1..BlockSize -> Nat]) /\ Len(decoded) <= info.num_blocks

\* decoded_correctly of rlnc_rs_check.c: a read that returns has, from its first
\* byte on, what was written under the tag it read (rlnc_rs.cpp, decode).
DecodedCorrectly ==
    pc = "done" =>
      \A i \in 1..source.raw_data_size :
         LET b == (i - 1) \div BlockSize + 1
         IN  b <= Len(decoded) /\ decoded[b][((i - 1) % BlockSize) + 1] = i

\* Any majority of elements decodes with Reed-Solomon: the process of a reader
\* ends neither for a lack of payloads nor in get_encoded_info.
ReadSucceeds ==
    algorithm = "reed_solomon" => pc \notin {"failed", "killed"}

\* The reader's buffers: a slot for each frame, and in each frame a payload for
\* each block, none of it beyond the end (sodaw_reader.c, get_encoded_info).
FramesFit ==
    pc = "decode" => /\ Len(frames) <= info.K
                     /\ info.num_blocks * info.encoded_symbol_size = FrameSize
===========================================================================
