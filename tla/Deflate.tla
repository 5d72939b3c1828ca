------------------------------- MODULE Deflate -------------------------------
(***************************************************************************)
(* How a capture is compressed on its way to the file: ZLibCompressor in   *)
(* optick_server.cpp drives mz_deflate with one chunk at a time, and       *)
(* mz_deflate drives the level 1 compressor of optick_miniz.cpp, which     *)
(* keeps a window of the input in a ring, remembers where a trigram was    *)
(* seen last, collects literals and matches in a code buffer, and writes a *)
(* block whenever that buffer is full or the stream is finished.  One step *)
(* of this module is one iteration of one of those loops.                  *)
(*                                                                         *)
(* The sizes of the buffers are constants: the hazards of this code are at *)
(* their limits, and short inputs reach those of small buffers.  Output of *)
(* a block goes through the compressor's own buffer; the code writes to    *)
(* the caller's directly when a whole block is sure to fit, with the same  *)
(* result.                                                                 *)
(***************************************************************************)
EXTENDS DeflateBlock, Inflate, Bitwise

CONSTANTS DictSize,       \* TDEFL_LZ_DICT_SIZE
          PosMod,         \* positions in the hash table are 16 bits wide: 2^16
          Lookahead,      \* TDEFL_COMP_FAST_LOOKAHEAD_SIZE
          MaxMatch,       \* TDEFL_MAX_MATCH_LEN
          TooFar,         \* the distance a match of three bytes may not have: 8K
          CodeBufSize,    \* TDEFL_LZ_CODE_BUF_SIZE
          StaticBytes,    \* a block of fewer bytes gets static codes: 48
          OutLimit,       \* TDEFL_OUT_BUF_SIZE - 16
          BufferSize,     \* ZLibCompressor::BUFFER_SIZE
          Chunks,         \* what Server::Send may be called with
          MaxChunks       \* bound: calls of Send in one capture

ASSUME Sizes ==
    /\ PosMod % DictSize = 0 /\ DictSize > Lookahead /\ Lookahead >= 4
    /\ MaxMatch \in 3 .. 258 /\ MaxMatch < DictSize
    /\ CodeBufSize > 12 /\ BufferSize > 0

VARIABLES d,         \* tdefl_compressor
          stream,    \* z_stream, and what Compress was called with
          pc,        \* where the thread that holds socketLock is
          input,     \* history: the chunks that were sent since SendStart
          file       \* what the save callback was given

vars == <<d, stream, pc, input, file>>

sent == Concat(input)

Min2(a, b) == IF a < b THEN a ELSE b

\* tdefl_init, after tdefl_create_comp_flags_from_zip_params(1, 15, 0).
tdefl_init ==
    [dict |-> [i \in 0 .. DictSize - 1 |-> 0], hash |-> << >>,
     lookahead_pos |-> 0, lookahead_size |-> 0, dict_size |-> 0,
     codes |-> << >>, lz_code_buf_dict_pos |-> 0, bits |-> << >>, block_index |-> 0,
     output_flush |-> << >>, finished |-> FALSE, adler32 |-> AdlerInit, src |-> << >>]

EmptyStream == [next_in |-> << >>, orig |-> 0, out |-> << >>, finish |-> FALSE, status |-> "Ok"]

Init == /\ d = tdefl_init /\ stream = EmptyStream
        /\ pc = "none" /\ input = << >> /\ file = << >>

-----------------------------------------------------------------------------
(* The block writer.                                                       *)

total_lz_bytes == SumOf([i \in DOMAIN d.codes |-> d.codes[i].len])

\* Where the next code goes: a flag byte precedes every eight codes, a literal
\* takes one byte and a match three.
CodeBufUsed(codes) ==
    1 + SumOf([i \in DOMAIN codes |-> IF codes[i].dist = 0 THEN 1 ELSE 3]) + Len(codes) \div 8
\* Mutant of CodeBufFull: a code is recorded as long as one byte is free.
FullAtTheEnd(codes) == CodeBufUsed(codes) >= CodeBufSize
CodeBufFull(codes) == CodeBufUsed(codes) > CodeBufSize - 8

Pad(bits) == [i \in 1 .. ((8 - (Len(bits) % 8)) % 8) |-> 0]

RawBlock(before) ==
    LET head == <<0, 0>> \o Pad(before \o <<0, 0>>)
    IN  head \o Bits(total_lz_bytes, 16) \o Bits(65535 - total_lz_bytes, 16)
        \o Concat([i \in 1 .. total_lz_bytes |->
                      Bits(d.dict[(d.lz_code_buf_dict_pos + i - 1) % DictSize], 8)])

\* The bits of the block, from those left over from the last one on.  A block
\* that does not get smaller is stored, if the window still has all of it; one
\* that does not fit the output buffer gets static codes.
BlockBits(final) ==
    LET before == d.bits \o (IF d.block_index = 0 THEN Bits(120, 8) \o Bits(1, 8) ELSE << >>)
                  \o <<IF final THEN 1 ELSE 0>>
        Bytes(b) == Min2((Len(before) + Len(b)) \div 8, OutLimit)
        UseRaw(written) == /\ total_lz_bytes > 0 /\ written - Len(before) \div 8 + 1 >= total_lz_bytes
                           /\ d.lookahead_pos - d.lz_code_buf_dict_pos <= d.dict_size
        Whole(b) == b.header \o b.codes
        Chosen(comp, all) ==
            LET fits == Bytes(all) < OutLimit
            IN  IF UseRaw(Bytes(IF fits THEN all ELSE comp.header)) THEN RawBlock(before)
                ELSE IF fits THEN all ELSE Whole(CompressBlock(d.codes, TRUE))
        Compared(comp) == Chosen(comp, Whole(comp))
    IN  before \o Compared(CompressBlock(d.codes, total_lz_bytes < StaticBytes))

\* The end of the stream: up to the byte boundary, then the checksum.
Trailer(bits) ==
    Pad(bits) \o Concat([i \in 1 .. 4 |-> Bits(AdlerBytes(d.adler32)[i], 8)])

ToBytes(bits) ==
    << >> \o [i \in 1 .. Len(bits) \div 8 |->
                 SumOf([k \in 1 .. 8 |-> bits[8 * (i - 1) + k] * 2^(k - 1)])]

FlushedBits(final) ==
    LET Ended(bits) == IF final THEN bits \o Trailer(bits) ELSE bits IN Ended(BlockBits(final))

\* tdefl_flush_block: what the caller has room for goes to the caller, the rest
\* waits in output_flush; the bits of an unfinished byte wait for the next block.
tdefl_flush_block(final) ==
    LET Flush(bits, bytes) ==
            LET n == Min2(Len(bytes), BufferSize - Len(stream.out))
            IN  /\ d' = [d EXCEPT !.bits = SubSeq(bits, 8 * Len(bytes) + 1, Len(bits)),
                                  !.codes = << >>,
                                  !.lz_code_buf_dict_pos = @ + total_lz_bytes,
                                  !.block_index = @ + 1,
                                  !.output_flush = SubSeq(bytes, n + 1, Len(bytes)),
                                  !.finished = @ \/ final]
                /\ stream' = [stream EXCEPT !.out = @ \o SubSeq(bytes, 1, n)]
        Write(bits) == Flush(bits, ToBytes(bits))
    IN  Write(<< >> \o FlushedBits(final))

-----------------------------------------------------------------------------
(* ZLibCompressor and mz_deflate.                                          *)

\* SendStart, with ZLibCompressor::Init and mz_deflateInit: a new compressor.
SendStart ==
    /\ pc \in {"none", "closed"}
    /\ d' = tdefl_init /\ stream' = EmptyStream
    /\ pc' = "idle" /\ input' = << >> /\ file' = << >>

\* Server::Send while a capture is being saved.
Send(chunk) ==
    /\ pc = "idle" /\ Len(input) < MaxChunks
    /\ stream' = [stream EXCEPT !.next_in = chunk]
    /\ input' = Append(input, chunk) /\ pc' = "compress"
    /\ UNCHANGED <<d, file>>

\* SendFinish, with ZLibCompressor::Finish.
SendFinish ==
    /\ pc = "idle"
    /\ stream' = [stream EXCEPT !.next_in = << >>, !.finish = TRUE]
    /\ pc' = "compress"
    /\ UNCHANGED <<d, input, file>>

\* The loop of ZLibCompressor::Compress: is there another mz_deflate to call?
MoreToDo == stream.next_in # << >> \/ stream.finish

Compress ==
    /\ pc = "compress"
    /\ pc' = IF MoreToDo THEN "deflate" ELSE "idle"
    /\ stream' = [stream EXCEPT !.orig = Len(stream.next_in)]
    /\ UNCHANGED <<d, input, file>>

\* One turn of mz_deflate's loop: tdefl_compress first empties its own buffer.
EnterCompress ==
    /\ pc = "deflate"
    /\ d' = [d EXCEPT !.src = stream.next_in]
    /\ pc' = IF d.output_flush # << >> \/ d.finished THEN "output" ELSE "fill"
    /\ UNCHANGED <<stream, input, file>>

-----------------------------------------------------------------------------
(* tdefl_compress_fast.                                                    *)

\* How much of the window survives when the lookahead grows to size.
\* Mutant of Window: the window still counts what was overwritten.
WholeWindow(size) == d.dict_size
Window(size) == Min2(DictSize - size, d.dict_size)

\* The head of its outer loop: take what fits the lookahead into the ring, and
\* forget as much of the window as that overwrites.
FillLookahead ==
    LET n     == Min2(Len(d.src), Lookahead - d.lookahead_size)
        first == d.lookahead_pos + d.lookahead_size
        size  == d.lookahead_size + n
        taken == [i \in {(first + k) % DictSize : k \in 0 .. n - 1} |->
                     d.src[((i - first) % DictSize) + 1]]
    IN  /\ pc = "fill"
        /\ IF d.src # << >> \/ (stream.finish /\ d.lookahead_size > 0)
           THEN /\ d' = [d EXCEPT !.dict = taken @@ @, !.lookahead_size = size,
                                  !.src = SubSeq(d.src, n + 1, Len(d.src)),
                                  !.dict_size = Window(size)]
                /\ pc' = IF ~stream.finish /\ size < Lookahead THEN "after" ELSE "parse"
           ELSE /\ pc' = "after" /\ UNCHANGED d
        /\ UNCHANGED <<stream, input, file>>

Ring(pos) == d.dict[pos % DictSize]

\* Where the trigram at the head of the lookahead was seen last, hash and all.
TrigramHash(pos) ==
    LET t == Ring(pos) + 256 * (Ring(pos + 1) % 16) IN t ^^ (Ring(pos + 2) \div 2)

InWindow(dist) == dist <= d.dict_size

\* The literal or match at the head of the lookahead: its only candidate is
\* what the hash table has, which may be stale, too far away or another trigram.
FirstCode(probe) ==
    LET pos  == d.lookahead_pos
        dist == (pos - probe) % PosMod
        hit  == InWindow(dist) /\ \A k \in 0 .. 2 : Ring(probe + k) = Ring(pos + k)
        same == {n \in 0 .. MaxMatch : \A k \in 0 .. n - 1 : Ring(probe + k) = Ring(pos + k)}
        len  == CHOOSE n \in same : \A m \in same : m <= n
    IN  IF hit /\ dist > 0 /\ ~(len = MinMatch /\ dist >= TooFar)
        THEN [len |-> Min2(len, d.lookahead_size), dist |-> dist, lit |-> 0]
        ELSE [len |-> 1, dist |-> 0, lit |-> Ring(pos)]

\* Advance over the code that was recorded.
Record(code, hash) ==
    LET codes == Append(d.codes, code)
        left  == d.lookahead_size - code.len
    IN  /\ d' = [d EXCEPT !.codes = codes, !.hash = hash,
                          !.lookahead_pos = @ + code.len, !.lookahead_size = left,
                          !.dict_size = Min2(@ + code.len, DictSize)]
        /\ pc' = IF CodeBufFull(codes) THEN "block" ELSE IF left > 0 THEN "parse" ELSE "fill"
        /\ UNCHANGED <<stream, input, file>>

\* The first inner loop, while there are four bytes ahead.
ParseMatch ==
    LET h == TrigramHash(d.lookahead_pos)
        probe == IF h \in DOMAIN d.hash THEN d.hash[h] ELSE 0
    IN  /\ pc = "parse" /\ d.lookahead_size >= 4
        /\ Record(FirstCode(probe), (h :> d.lookahead_pos % PosMod) @@ d.hash)

\* The second inner loop: the last bytes ahead become literals.
ParseTail ==
    /\ pc = "parse" /\ d.lookahead_size \in 1 .. 3
    /\ Record([len |-> 1, dist |-> 0, lit |-> Ring(d.lookahead_pos)], d.hash)

\* The code buffer is full.  The loops go on only when the caller took it all.
WriteBlock ==
    /\ pc = "block"
    /\ tdefl_flush_block(FALSE)
    /\ pc' = IF d'.output_flush # << >> THEN "after"
             ELSE IF d.lookahead_size > 0 THEN "parse" ELSE "fill"
    /\ UNCHANGED <<input, file>>

-----------------------------------------------------------------------------
(* The way back.                                                           *)

\* Mutants of MayFinish: the last block is written over output that is pending;
\* a Finish that brings no input is not seen.
FinishOverPending == stream.finish /\ d.lookahead_size = 0 /\ d.src = << >>
FinishNeedsInput == FinishOverPending /\ d.output_flush = << >> /\ stream.next_in # << >>
MayFinish ==
    stream.finish /\ d.lookahead_size = 0 /\ d.src = << >> /\ d.output_flush = << >>

\* The rest of tdefl_compress: checksum what was taken, and end the stream when
\* that was asked for and nothing is left to do first.
AfterCompress ==
    LET taken == SubSeq(stream.next_in, 1, Len(stream.next_in) - Len(d.src))
    IN  /\ pc = "after"
        /\ d' = [d EXCEPT !.adler32 = Adler32(@, taken)]
        /\ pc' = IF MayFinish THEN "final" ELSE "output"
        /\ UNCHANGED <<stream, input, file>>

WriteFinalBlock ==
    /\ pc = "final"
    /\ tdefl_flush_block(TRUE)
    /\ pc' = "output"
    /\ UNCHANGED <<input, file>>

\* tdefl_flush_output_buffer, and what mz_deflate makes of it.
FlushOutput ==
    LET n    == Min2(Len(d.output_flush), BufferSize - Len(stream.out))
        out  == stream.out \o SubSeq(d.output_flush, 1, n)
        rest == SubSeq(d.output_flush, n + 1, Len(d.output_flush))
        Return(status) == pc' = "return" /\ stream' = [stream EXCEPT !.out = out, !.next_in = d.src,
                                                                     !.status = status]
    IN  /\ pc = "output"
        /\ d' = [d EXCEPT !.output_flush = rest]
        /\ CASE d.finished /\ rest = << >> -> Return("StreamEnd")
             [] ~(d.finished /\ rest = << >>) /\ Len(out) = BufferSize -> Return("Ok")
             [] Len(out) < BufferSize /\ d.src = << >> /\ ~stream.finish ->
                   Return(IF stream.orig > 0 \/ out # << >> THEN "Ok" ELSE "BufError")
             [] OTHER -> pc' = "deflate" /\ stream' = [stream EXCEPT !.out = out, !.next_in = d.src]
        /\ UNCHANGED <<input, file>>

\* Compress hands a buffer that is not empty to the save callback; at the end of
\* the stream Finish lets the compressor go.
Callback ==
    /\ pc = "return"
    /\ file' = file \o stream.out
    /\ stream' = [stream EXCEPT !.out = << >>]
    /\ pc' = CASE stream.status = "StreamEnd" -> "closed"
               [] stream.status = "Ok" -> "compress"
               [] stream.status = "BufError" -> "idle"
    /\ UNCHANGED <<d, input>>

Working == \/ Compress \/ EnterCompress \/ FillLookahead \/ ParseMatch \/ ParseTail \/ WriteBlock
           \/ AfterCompress \/ WriteFinalBlock \/ FlushOutput \/ Callback

Next == Working \/ SendStart \/ SendFinish \/ (\E chunk \in Chunks : Send(chunk))

\* A call runs to its end; nothing makes the profiler send or finish.  This is
\* WF_vars(Working), which is enabled exactly when the thread is in a call,
\* without the ENABLED that would have TLC look for the bits of a block.
AtRest == pc \in {"none", "idle", "closed"}
Fairness == []<>AtRest \/ []<><<TRUE>>_vars

Spec == Init /\ [][Next]_vars /\ Fairness

-----------------------------------------------------------------------------
(* Properties.                                                             *)

IsBytes(s) == \A i \in DOMAIN s : s[i] \in 0 .. 255

\* Every variable has its type: positions and sizes are within the buffers, a
\* partial byte has fewer than eight bits, and the code buffer is not overrun.
TypeOK ==
    /\ pc \in {"none", "idle", "compress", "deflate", "fill", "parse", "block", "after", "final",
               "output", "return", "closed"}
    /\ d.lookahead_size \in 0 .. Lookahead /\ d.dict_size \in 0 .. DictSize
    /\ d.lookahead_pos \in 0 .. Len(sent)
    /\ \A h \in DOMAIN d.hash : h \in 0 .. 4095 /\ d.hash[h] \in 0 .. PosMod - 1
    /\ Len(d.bits) < 8 /\ CodeBufUsed(d.codes) <= CodeBufSize
    /\ d.finished \in BOOLEAN /\ stream.finish \in BOOLEAN
    /\ Len(stream.out) <= BufferSize
    /\ IsBytes(sent) /\ IsBytes(file) /\ IsBytes(stream.out) /\ IsBytes(d.output_flush)

\* A finished capture file, decompressed, is what the profiler sent, byte for
\* byte, whatever the chunks were and however the blocks were cut.
RoundTrip == pc = "closed" => Uncompress(file, Len(sent)) = [status |-> "Ok", data |-> sent]

\* The ring holds the input it is said to hold: the dict_size bytes before the
\* parse position, which matches may refer to and a stored block is copied
\* from, and the lookahead after it.  Bytes that were overwritten are forgotten.
WindowIntact ==
    LET end == d.lookahead_pos + d.lookahead_size
        n   == d.dict_size + d.lookahead_size
    IN  /\ n <= DictSize /\ n <= end /\ end <= Len(sent)
        /\ \A p \in end - n .. end - 1 : Ring(p) = sent[p + 1]

\* The two MZ_ASSERTs of tdefl_flush_block: the output of the last block has
\* been taken before the next one is written over it, and a block with its
\* trailer fits the output buffer.
NoOverrun == pc \in {"block", "final"} => /\ d.output_flush = << >>
                                          /\ Len(FlushedBits(pc = "final")) \div 8 < OutLimit

\* A call of Finish ends: the compressor delivers everything it holds and says
\* so, even when the buffer it may write to is smaller than what is pending.
Closes == (stream.finish /\ pc # "closed") ~> (pc = "closed")
=============================================================================
