------------------------------ MODULE Encoding ------------------------------
(***************************************************************************)
(* The "chunked" transfer encoding of httpp/encoding.c: one encoding       *)
(* object that writes, a reliable byte stream that takes and gives any     *)
(* number of bytes per call, and one encoding object that reads.  A call   *)
(* of httpp_encoding_write or httpp_encoding_read is one step, with the    *)
(* answers of its callbacks chosen inside it.                              *)
(*                                                                         *)
(* The stream is a sequence of symbols: the digits of a chunk's length     *)
(* with its extensions are one symbol, "\r", "\n" and the bytes of the     *)
(* body are one each.  A body byte is its position in the data; what it    *)
(* spells is left out.  Module ChunkExtensions has the text of extensions. *)
(***************************************************************************)
EXTENDS Integers, Sequences, FiniteSets, SequencesExt

CONSTANTS
    Lens,       \* lengths of the buffers given to httpp_encoding_write
    ReadLens,   \* lengths of the buffers given to httpp_encoding_read
    MaxChunk,   \* 1048576: the longest body of one chunk
    RawBuf,     \* 1024: what the reader asks for when it expects a header
    WriteFails, \* malloc may fail in the writer
    MetaFails,  \* ... even for a chunk that carries meta data
    ReadFails,  \* malloc may fail in the reader
    LoneEnd,    \* the writer is a peer that ends with one empty line, as the
                \* grammar in encoding.c says, not this library's writer
    MaxBytes,   \* bound: bytes written
    MaxMetas,   \* bound: calls of httpp_encoding_append_meta
    MaxEnds     \* bound: terminating chunks

ASSUME EncodingAssumption ==
    /\ Lens \subseteq Nat /\ ReadLens \subseteq Nat \ {0}
    /\ MaxChunk \in Nat \ {0} /\ RawBuf \in Nat \ {0}
    /\ WriteFails \in BOOLEAN /\ MetaFails \in BOOLEAN
    /\ ReadFails \in BOOLEAN /\ LoneEnd \in BOOLEAN
    /\ MaxBytes \in Nat /\ MaxMetas \in Nat /\ MaxEnds \in Nat

VARIABLES
    meta_write,  \* writer: meta data waiting for the next chunk
    encoded,     \* writer: buf_write_encoded from its offset on
    wire,        \* the bytes in transit
    rd,          \* reader: its buffers (from their offsets on) and counters
    meta_read,   \* reader: meta data not yet fetched
    written,     \* client: bytes that httpp_encoding_write said it took
    ends,        \* client: terminating chunks produced by write(NULL)
    metas,       \* client: the meta data attached so far
    got,         \* client: the bytes read
    gotmeta      \* client: the meta data fetched

vars == <<meta_write, encoded, wire, rd, meta_read, written, ends, metas, got, gotmeta>>

Symbol(c, n, m) == [c |-> c, n |-> n, m |-> m]
CR       == Symbol("CR", 0, <<>>)
LF       == Symbol("LF", 0, <<>>)
Data(i)  == Symbol("data", i, <<>>)

\* A piece of meta data: its number and how much data was written before it.
Metas == [nr : 1 .. MaxMetas, at : 0 .. MaxBytes]

Symbols == [c : {"len", "CR", "LF", "data"}, n : 0 .. MaxBytes, m : Seq(Metas)]

Reader == [raw : Seq(Symbols), decoded : Seq(Symbols),
           bytes_till_eof : {-1, 0, 2}, read_bytes_till_header : Nat,
           bad : BOOLEAN]  \* something else was met where a header should be

TypeOK ==
    /\ meta_write \in Seq(Metas) /\ meta_read \in Seq(Metas)
    /\ encoded \in Seq(Symbols) /\ wire \in Seq(Symbols)
    /\ rd \in Reader
    /\ written \in 0 .. MaxBytes /\ ends \in 0 .. MaxEnds
    /\ metas \in Seq(Metas) /\ gotmeta \in Seq(Metas)
    /\ got \in Seq(Symbols)

\* httpp_encoding_new, on both sides.
httpp_encoding_new == [raw |-> <<>>, decoded |-> <<>>, bytes_till_eof |-> -1,
                       read_bytes_till_header |-> 0, bad |-> FALSE]

Init ==
    /\ meta_write = <<>> /\ encoded = <<>> /\ wire = <<>>
    /\ rd = httpp_encoding_new /\ meta_read = <<>>
    /\ written = 0 /\ ends = 0 /\ metas = <<>> /\ got = <<>> /\ gotmeta = <<>>

Least(m, n) == IF m < n THEN m ELSE n
Take(s, k)  == SubSeq(s, 1, k)
Drop(s, k)  == SubSeq(s, k + 1, Len(s))

-----------------------------------------------------------------------------
(* The writer                                                              *)

httpp_encoding_append_meta ==
    /\ Len(metas) < MaxMetas
    /\ LET m == [nr |-> Len(metas) + 1, at |-> written]
       IN  /\ metas' = Append(metas, m)
           /\ meta_write' = Append(meta_write, m)
    /\ UNCHANGED <<encoded, wire, rd, meta_read, written, ends, got, gotmeta>>

\* Mutant of Chunk: no second "\r\n" after the last chunk.
ChunkAlike(n, null) ==
    <<Symbol("len", n, meta_write), CR, LF>> \o [i \in 1 .. n |-> Data(written + i)]
    \o <<CR, LF>>

\* The chunk that __enc_chunked_write builds: header, body, "\r\n", and one more
\* "\r\n" when buf is NULL.
Chunk(n, null) ==
    <<Symbol("len", n, meta_write), CR, LF>>
    \o [i \in 1 .. n |-> Data(written + i)]
    \o <<CR, LF>>
    \o IF null /\ ~LoneEnd THEN <<CR, LF>> ELSE <<>>

\* A call of httpp_encoding_write whose first __flush_output got the transport to
\* take k symbols of the old buffer, whose __enc_chunked_write then left "buf" to
\* be sent, and whose second __flush_output got it to take j symbols of that.
Flushed(k, buf, j) ==
    /\ encoded' = Drop(buf, j)
    /\ wire' = wire \o Take(encoded, k) \o Take(buf, j)

\* "refuse to write if we still have stuff to flush": 0 is returned.
WriteRefused ==
    /\ \E k \in 0 .. (Len(encoded) - 1) :
        LET rest == Drop(encoded, k)
        IN  \E j \in 0 .. Len(rest) : Flushed(k, rest, j)
    /\ UNCHANGED <<meta_write, rd, meta_read, written, ends, metas, got, gotmeta>>

\* Mutant of httpp_encoding_write: the meta data is not taken off the list.
WriteKeepsMeta(n, null) ==
    LET len == Least(n, MaxChunk) IN
    /\ IF null THEN n = 0 /\ ends < MaxEnds ELSE ends = 0 /\ written + len <= MaxBytes
    /\ \E j \in 0 .. Len(Chunk(len, null)) :
          Flushed(Len(encoded), Chunk(len, null), j)
    /\ written' = written + len
    /\ ends' = IF null THEN ends + 1 ELSE ends
    /\ UNCHANGED <<meta_write, rd, meta_read, metas, got, gotmeta>>

\* Mutant of httpp_encoding_write: a long buffer is said to be taken whole.
WriteClaimsAll(n, null) ==
    LET len == Least(n, MaxChunk) IN
    /\ IF null THEN n = 0 /\ ends < MaxEnds ELSE ends = 0 /\ written + n <= MaxBytes
    /\ \E j \in 0 .. Len(Chunk(len, null)) :
          Flushed(Len(encoded), Chunk(len, null), j)
    /\ meta_write' = <<>>
    /\ written' = written + n
    /\ ends' = IF null THEN ends + 1 ELSE ends
    /\ UNCHANGED <<rd, meta_read, metas, got, gotmeta>>

\* httpp_encoding_write with a buffer of n bytes, or with NULL to end the stream;
\* the client writes nothing after that.
httpp_encoding_write(n, null) ==
    LET len == Least(n, MaxChunk) IN
    /\ IF null THEN n = 0 /\ ends < MaxEnds ELSE ends = 0 /\ written + len <= MaxBytes
    /\ \E j \in 0 .. Len(Chunk(len, null)) :
          Flushed(Len(encoded), Chunk(len, null), j)
    /\ meta_write' = <<>>
    /\ written' = written + len
    /\ ends' = IF null THEN ends + 1 ELSE ends
    /\ UNCHANGED <<rd, meta_read, metas, got, gotmeta>>

\* The allocation of the chunk fails and -1 is returned.  The meta data was
\* turned into text and freed before.
WriteNoMemory ==
    /\ WriteFails /\ (MetaFails \/ meta_write = <<>>)
    /\ Flushed(Len(encoded), <<>>, 0)
    /\ meta_write' = <<>>
    /\ UNCHANGED <<rd, meta_read, written, ends, metas, got, gotmeta>>

-----------------------------------------------------------------------------
(* The reader                                                              *)

\* Mutant of Asked: the two bytes after the body count as body.
AskedTwoMore(r, len) ==
    IF r.read_bytes_till_header > 2 THEN Least(len, r.read_bytes_till_header)
    ELSE IF r.bytes_till_eof # -1 THEN r.bytes_till_eof
    ELSE RawBuf

\* What __enc_chunked_read asks its callback for, "len" bytes being wanted.
Asked(r, len) ==
    IF r.read_bytes_till_header > 2 THEN Least(len, r.read_bytes_till_header - 2)
    ELSE IF r.bytes_till_eof # -1 THEN r.bytes_till_eof
    ELSE RawBuf

\* The answer of __enc_chunked_read: the reader it leaves, the bytes it returns
\* and the meta data it adds.
Answer(r, out, meta) == [r |-> r, out |-> out, meta |-> meta]

\* The end of the header: the first "\r\n".
HeaderEnds(raw) == {i \in 2 .. Len(raw) : raw[i] = LF /\ raw[i - 1] = CR}

\* Mutant of Body: the "\r\n" after the body is forgotten.
BodyWithoutEnd(r, n, rest) ==
    IF Len(rest) <= n
    THEN [r EXCEPT !.raw = <<>>, !.decoded = rest, !.read_bytes_till_header = n + 2 - Len(rest)]
    ELSE [r EXCEPT !.raw = Drop(rest, n), !.decoded = Take(rest, n),
                   !.bytes_till_eof = IF n = 0 THEN 2 ELSE @]

\* A header with body length n was taken off raw; "rest" follows it.
Body(r, n, rest) ==
    LET eof  == IF n = 0 THEN 2 ELSE r.bytes_till_eof
        tail == Drop(rest, n)
    IN  IF rest = <<>>
        THEN [r EXCEPT !.raw = <<>>, !.bytes_till_eof = eof,
                       !.read_bytes_till_header = n + 2]
        ELSE IF Len(rest) <= n
        THEN [r EXCEPT !.raw = <<>>, !.decoded = rest, !.bytes_till_eof = eof,
                       !.read_bytes_till_header = n + 2 - Len(rest)]
        ELSE IF Len(tail) < 2
        THEN [r EXCEPT !.raw = tail, !.decoded = Take(rest, n), !.bytes_till_eof = eof,
                       !.read_bytes_till_header = 2]
        ELSE [r EXCEPT !.raw = Drop(tail, 2), !.decoded = Take(rest, n),
                       !.bytes_till_eof = IF eof # -1 THEN 0 ELSE eof,
                       !.read_bytes_till_header = 0]

\* malloc(bodylen) fails ("just retry later"): the header is gone from raw.
BodyNoMemory(r, n, rest) ==
    [r EXCEPT !.raw = rest, !.bytes_till_eof = IF n = 0 THEN 2 ELSE @]

\* Looks for a header in raw and goes on if it is complete.
Header(r, mem) ==
    IF HeaderEnds(r.raw) = {} THEN Answer(r, <<>>, <<>>)
    ELSE LET end  == CHOOSE i \in HeaderEnds(r.raw) : \A j \in HeaderEnds(r.raw) : i <= j
             rest == Drop(r.raw, end)
             n    == r.raw[1].n
         IN  IF r.raw[1].c # "len"
             THEN Answer([r EXCEPT !.bad = TRUE], <<>>, <<>>)
             ELSE Answer(IF mem \/ Len(rest) <= n THEN Body(r, n, rest)
                         ELSE BodyNoMemory(r, n, rest), <<>>, r.raw[1].m)

\* Mutant of Skip: any "\r\n" after a body is taken for the end of the stream.
SkipToEof(r, mem) ==
    LET due == r.read_bytes_till_header
        s   == [r EXCEPT !.raw = Drop(@, due), !.read_bytes_till_header = 0]
    IN  IF Len(r.raw) <= due THEN Header(r, mem)
        ELSE IF due > 0 THEN Answer([s EXCEPT !.bytes_till_eof = 0], <<>>, <<>>)
        ELSE Header(s, mem)

\* Skips what is left of the "\r\n" after the last body; then the end of the
\* stream or a header comes.  (A skip that uses up the buffer returns at once.)
Skip(r, mem) ==
    LET due == r.read_bytes_till_header
        s   == IF Len(r.raw) >= due
               THEN [r EXCEPT !.raw = Drop(@, due), !.read_bytes_till_header = 0]
               ELSE r
    IN  IF Len(r.raw) = due THEN Answer(s, <<>>, <<>>)
        ELSE IF s.bytes_till_eof # -1 /\ s.read_bytes_till_header = 0
        THEN Answer([s EXCEPT !.bytes_till_eof = 0], <<>>, <<>>)
        ELSE Header(s, mem)

\* __enc_chunked_read after its callback returned "in" (nothing: 0 or -1, and raw
\* is left as it is).
__enc_chunked_read(r, in, mem) ==
    IF r.read_bytes_till_header > 2
    THEN Answer([r EXCEPT !.read_bytes_till_header = @ - Len(in)], in, <<>>)
    ELSE IF in = <<>> THEN Answer(r, <<>>, <<>>)
    ELSE Skip([r EXCEPT !.raw = @ \o in], mem)

\* httpp_encoding_read when the decoded bytes are enough: no callback.
ReadDecoded(len) ==
    /\ Len(rd.decoded) >= len
    /\ got' = got \o Take(rd.decoded, len)
    /\ rd' = [rd EXCEPT !.decoded = Drop(@, len)]
    /\ UNCHANGED <<meta_write, encoded, wire, meta_read, written, ends, metas, gotmeta>>

\* httpp_encoding_read when they are not: what is there, then what the callback
\* and __enc_chunked_read give, then what has just been decoded.  The callback
\* returns k symbols.
httpp_encoding_read(len, k, mem) ==
    LET r    == [rd EXCEPT !.decoded = <<>>]
        want == len - Len(rd.decoded)
        a    == __enc_chunked_read(r, Take(wire, k), mem)
        more == Least(want - Len(a.out), Len(a.r.decoded))
    IN  /\ want > 0
        /\ k <= Least(Asked(r, want), Len(wire))
        /\ wire' = Drop(wire, k)
        /\ got' = got \o rd.decoded \o a.out \o Take(a.r.decoded, more)
        /\ rd' = [a.r EXCEPT !.decoded = Drop(@, more)]
        /\ meta_read' = meta_read \o a.meta
        /\ UNCHANGED <<meta_write, encoded, written, ends, metas, gotmeta>>

\* httpp_encoding_get_meta hands the list over.
httpp_encoding_get_meta ==
    /\ meta_read # <<>>
    /\ gotmeta' = gotmeta \o meta_read
    /\ meta_read' = <<>>
    /\ UNCHANGED <<meta_write, encoded, wire, rd, written, ends, metas, got>>

\* httpp_encoding_eof, without a callback.
httpp_encoding_eof == rd.decoded = <<>> /\ rd.bytes_till_eof = 0

-----------------------------------------------------------------------------
\* A read whose callback returns something.
ReadSome ==
    \E len \in ReadLens, k \in 1 .. Len(wire), mem \in {TRUE, ~ReadFails} :
        httpp_encoding_read(len, k, mem)

\* A read that lives on what is in the buffers: nothing has arrived.
ReadNothing == \E len \in ReadLens : ReadDecoded(len) \/ httpp_encoding_read(len, 0, TRUE)

Next ==
    \/ httpp_encoding_append_meta
    \/ WriteRefused
    \/ \E n \in Lens : httpp_encoding_write(n, FALSE)
    \/ httpp_encoding_write(0, TRUE)
    \/ WriteNoMemory
    \/ ReadSome \/ ReadNothing
    \/ httpp_encoding_get_meta

Spec == Init /\ [][Next]_vars

\* The writer's client ends the stream and calls again while there is something
\* to flush, the transport takes the bytes, and the reader's client keeps reading.
FairSpec ==
    /\ Spec
    /\ WF_vars(ends = 0 /\ httpp_encoding_write(0, TRUE))
    /\ WF_vars(WriteRefused) /\ WF_vars(ReadSome) /\ WF_vars(ReadNothing)

-----------------------------------------------------------------------------
(* Properties                                                              *)

\* The reader gets the bytes that were written, in order, each once, however the
\* stream was cut up on the way; framing never gets into the data.
DeliveredInOrder == \A i \in 1 .. Len(got) : got[i] = Data(i)

\* httpp_encoding_eof says 1 only when the writer ended the stream and everything
\* it wrote was read.
EofMeansAll == httpp_encoding_eof => ends > 0 /\ Len(got) = written

\* "Check if EOF is reached" (encoding.h): when the stream was ended, all of it went
\* to the reader and no chunk waits in its buffer, httpp_encoding_eof says so.
EofNoticed ==
    LET through == /\ ends > 0 /\ encoded = <<>> /\ wire = <<>>
                   /\ rd.decoded = <<>>
                   /\ \A i \in 1 .. Len(rd.raw) : rd.raw[i].c # "len"
    IN  through => httpp_encoding_eof

\* What stands where a chunk header should be is one: the reader never loses
\* track of where chunks begin.
NeverLost == ~rd.bad

\* Meta data is "written out as soon as the encoding supports": no byte that was
\* written after it arrives before it, none is lost, none is repeated.
MetaBeforeData ==
    LET all == gotmeta \o meta_read IN
    /\ IsPrefix(all, metas)
    /\ \A i \in DOMAIN metas : metas[i].at < Len(got) => i <= Len(all)

\* A pair of encoding objects is a pipe.
Pipe == INSTANCE BytePipe
            WITH sent  <- written,
                 ended <- ends > 0,
                 got   <- [i \in 1 .. Len(got) |-> got[i].n],
                 seen  <- httpp_encoding_eof

\* The chunked encoding implements the pipe: no step of either side returns bytes
\* out of order, ends the stream early, or returns bytes after the end.
ImplementsPipe == Pipe!Spec

\* "If it is [complete] we will process it": when the writer ended the stream, all
\* that it wrote is eventually read.
EventuallyDelivered == (ends > 0) ~> (Len(got) = written)
=============================================================================
