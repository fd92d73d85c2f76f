------------------------------ MODULE Bz2Reader ------------------------------
(***************************************************************************)
(* The bz2 input reader of the extractor (InputReaderFactory.h):           *)
(* inputReaderFactory opens a .osm.bz2 file with BZ2_bzReadOpen, and      *)
(* libxml's reader pulls the decompressed text through readFromBz2Stream   *)
(* until it returns 0, then calls closeBz2Stream.  readFromBz2Stream walks *)
(* over concatenated bzip2 streams: at the end of one it takes the unread *)
(* input bzlib holds, closes the stream and opens the next one on that    *)
(* input.                                                                  *)
(*                                                                         *)
(* A file is a sequence of streams, each with the number of compressed    *)
(* bytes it occupies and the number of bytes it decompresses to.  bzlib   *)
(* is the environment; its BZ2_bzRead is modelled by what it does with    *)
(* the FILE: it freads BZ_MAX_UNUSED bytes whenever its buffer is empty    *)
(* and its myfeof (an fgetc that sets the FILE's end-of-file indicator at *)
(* the end) says there is more, and reports BZ_UNEXPECTED_EOF when a      *)
(* stream needs input and the file is at its end.  A stream's text        *)
(* becomes available once its compressed bytes are consumed.              *)
(***************************************************************************)
EXTENDS Naturals, Sequences

CONSTANTS
    Files,          \* the well-formed files: sequences of [csize, osize]
    BZ_MAX_UNUSED,  \* bzlib's fread size (5000 in bzlib)
    Lens            \* the buffer sizes libxml passes to the read callback

ASSUME /\ BZ_MAX_UNUSED \in Nat \ {0}
       /\ Lens \subseteq Nat \ {0}
       /\ \A f \in Files : f # <<>> /\
            \A k \in 1..Len(f) : f[k].csize > 0 /\ f[k].osize > 0

VARIABLES
    file,       \* the file being read
    present,    \* whether fopen finds it
    stdio,      \* the FILE: bytes taken from the file, end-of-file indicator
    bz,         \* the BZFILE: open, stream index k, bytes buffered, bytes of
                \* stream k handed out, and whether it was opened on the
                \* wrong input
    error,      \* context->error
    nUnused,    \* context->nUnused
    pc,         \* where the reader is
    len,        \* the len of the current call
    read,       \* the local read of the current call
    delivered   \* bytes handed to libxml so far

vars == <<file, present, stdio, bz, error, nUnused, pc, len, read, delivered>>

Errors == {"BZ_OK", "BZ_STREAM_END", "BZ_UNEXPECTED_EOF", "BZ_DATA_ERROR"}

\* The compressed bytes of the first k - 1 streams: the first byte of
\* stream k, and for k = Len(f) + 1 the size of the file.
RECURSIVE Start(_, _)
Start(f, k) == IF k = 1 THEN 0 ELSE Start(f, k - 1) + f[k - 1].csize

RECURSIVE Total(_)
Total(f) == IF f = <<>> THEN 0 ELSE Head(f).osize + Total(Tail(f))

FileSize(f) == Start(f, Len(f) + 1)

TypeOK ==
    /\ file \in Files
    /\ present \in BOOLEAN
    /\ stdio \in [pos : 0..FileSize(file), eof : BOOLEAN]
    /\ bz \in [open : BOOLEAN, k : 1..Len(file) + 1, avail : 0..BZ_MAX_UNUSED,
               out : 0..Total(file), garbled : BOOLEAN]
    /\ error \in Errors
    /\ nUnused \in 0..BZ_MAX_UNUSED
    /\ pc \in {"start", "null", "ready", "loop", "eof", "closed", "exited"}
    /\ len \in Lens \cup {0}
    /\ read \in 0..Total(file)
    /\ delivered \in 0..Total(file)

Init ==
    /\ file \in Files
    /\ present \in BOOLEAN
    /\ stdio = [pos |-> 0, eof |-> FALSE]
    /\ bz = [open |-> FALSE, k |-> 1, avail |-> 0, out |-> 0, garbled |-> FALSE]
    /\ error = "BZ_OK"
    /\ nUnused = 0
    /\ pc = "start"
    /\ len = 0
    /\ read = 0
    /\ delivered = 0

----------------------------------------------------------------------------
(* bzlib as the reader sees it.                                            *)
----------------------------------------------------------------------------

\* myfeof: an fgetc that ungets what it read, and sets the indicator when
\* there is nothing left.
AtEnd(s) == s.pos = FileSize(file)
MyFeof(s) == IF AtEnd(s) THEN [s EXCEPT !.eof = TRUE] ELSE s

\* fread(buf, 1, BZ_MAX_UNUSED, f): a short count sets the indicator.
Fread(s) ==
    LET n == IF FileSize(file) - s.pos < BZ_MAX_UNUSED
             THEN FileSize(file) - s.pos ELSE BZ_MAX_UNUSED
    IN  [pos |-> s.pos + n, eof |-> s.eof \/ n < BZ_MAX_UNUSED, n |-> n]

\* The last byte of stream k, or the end of the file past the last stream.
StreamEnd(k) == IF k <= Len(file) THEN Start(file, k + 1) ELSE FileSize(file)

\* The outcomes of BZ2_bzRead(len) from FILE state f and BZFILE state b, as
\* records [err, n, f, b]: its loop of fill, BZ2_bzDecompress and checks.
\* A stream opened on the wrong input fails on its first byte.  With
\* exactly the buffer's room left in the stream, bzlib may report the
\* stream end in this call or, with no bytes, in the next one.
RECURSIVE BzRead(_, _, _)
BzRead(f, b, got) ==
    LET refill == b.avail = 0 /\ ~AtEnd(f)
        f1     == IF refill THEN [pos |-> Fread(f).pos, eof |-> Fread(f).eof]
                  ELSE IF b.avail = 0 THEN MyFeof(f) ELSE f
        n      == IF refill THEN Fread(f).n ELSE b.avail
        ipos   == f1.pos - n
        x      == IF n < StreamEnd(b.k) - ipos THEN n ELSE StreamEnd(b.k) - ipos
        whole  == ~b.garbled /\ b.k <= Len(file) /\ ipos + x = StreamEnd(b.k)
        left   == IF whole THEN file[b.k].osize - b.out ELSE 0
        y      == IF left < len - got THEN left ELSE len - got
        b1     == [b EXCEPT !.avail = n - x, !.out = b.out + y]
        done   == whole /\ left = y
        early  == done /\ y > 0 /\ y = len - got
        \* The checks after BZ2_bzDecompress returned BZ_OK.
        AfterOk == IF AtEnd(f1) /\ b1.avail = 0 /\ got + y < len
                   THEN {[err |-> "BZ_UNEXPECTED_EOF", n |-> 0,
                          f |-> MyFeof(f1), b |-> b1]}
                   ELSE IF got + y = len
                   THEN {[err |-> "BZ_OK", n |-> len, f |-> MyFeof(f1), b |-> b1]}
                   ELSE BzRead(MyFeof(f1), b1, got + y)
    IN  IF b.garbled /\ n > 0
        THEN {[err |-> "BZ_DATA_ERROR", n |-> 0, f |-> f1, b |-> b]}
        ELSE (IF done THEN {[err |-> "BZ_STREAM_END", n |-> got + y,
                             f |-> f1, b |-> b1]} ELSE {})
             \cup (IF ~done \/ early THEN AfterOk ELSE {})

----------------------------------------------------------------------------
(* inputReaderFactory, readFromBz2Stream and closeBz2Stream.               *)
----------------------------------------------------------------------------

\* inputReaderFactory on a .osm.bz2 name: a zeroed context, fopen, then
\* BZ2_bzReadOpen with no unused input; NULL when either fails, else the
\* libxml reader over the callbacks.
inputReaderFactory ==
    /\ pc = "start"
    /\ pc' = IF present THEN "ready" ELSE "null"
    /\ bz' = [bz EXCEPT !.open = present]
    /\ UNCHANGED <<file, present, stdio, error, nUnused, len, read, delivered>>

\* libxml calls readFromBz2Stream with a buffer of len bytes.
Call ==
    /\ pc = "ready"
    /\ \E l \in Lens : len' = l
    /\ read' = 0
    /\ pc' = "loop"
    /\ UNCHANGED <<file, present, stdio, bz, error, nUnused, delivered>>

\* A variant of the while condition without 0 == read.
LoopGuardNoRead ==
    ~(error = "BZ_STREAM_END" /\ nUnused = 0 /\ stdio.eof)

\* The while condition of readFromBz2Stream.
LoopGuard ==
    read = 0 /\ ~(error = "BZ_STREAM_END" /\ nUnused = 0 /\ stdio.eof)

\* A variant that reports the buffer's size instead of the bytes read.
ReturnLen(n) ==
    /\ delivered' = delivered + len
    /\ pc' = IF n = 0 THEN "eof" ELSE "ready"

\* return read: libxml takes the bytes, and takes 0 as the end of input.
Return(n) ==
    /\ delivered' = delivered + n
    /\ pc' = IF n = 0 THEN "eof" ELSE "ready"

LoopExit ==
    /\ pc = "loop"
    /\ ~LoopGuard
    /\ Return(read)
    /\ UNCHANGED <<file, present, stdio, bz, error, nUnused, len, read>>

\* BZ2_bzRead returned BZ_OK: return what it read.
ReadOk ==
    /\ pc = "loop"
    /\ LoopGuard
    /\ \E r \in BzRead(stdio, bz, 0) :
          /\ r.err = "BZ_OK"
          /\ stdio' = r.f /\ bz' = r.b /\ error' = r.err /\ read' = r.n
          /\ Return(r.n)
    /\ UNCHANGED <<file, present, nUnused, len>>

\* BZ2_bzRead returned BZ_STREAM_END: BZ2_bzReadGetUnused copies what bzlib
\* has buffered past the stream, BZ2_bzReadClose closes it, and error is
\* set back to BZ_STREAM_END.  With nothing unused and the FILE at its end
\* the call returns what it read; otherwise BZ2_bzReadOpen opens the next
\* stream on the unused bytes and the loop goes on.
StreamEnded(r) ==
    /\ r.err = "BZ_STREAM_END"
    /\ nUnused' = r.b.avail
    /\ stdio' = r.f
    /\ read' = r.n

\* A variant without the reset of line 61: error stays BZ_OK from
\* BZ2_bzReadClose.
ReadStreamEndLastNoReset ==
    /\ pc = "loop"
    /\ LoopGuard
    /\ \E r \in BzRead(stdio, bz, 0) :
          /\ StreamEnded(r)
          /\ r.b.avail = 0 /\ r.f.eof
          /\ bz' = [r.b EXCEPT !.open = FALSE]
          /\ error' = "BZ_OK"
          /\ Return(r.n)
    /\ UNCHANGED <<file, present, len>>

ReadStreamEndLast ==
    /\ pc = "loop"
    /\ LoopGuard
    /\ \E r \in BzRead(stdio, bz, 0) :
          /\ StreamEnded(r)
          /\ r.b.avail = 0 /\ r.f.eof
          /\ bz' = [r.b EXCEPT !.open = FALSE]
          /\ error' = "BZ_STREAM_END"
          /\ Return(r.n)
    /\ UNCHANGED <<file, present, len>>

\* BZ2_bzReadOpen on the unused bytes: the decompressor starts where the
\* previous stream ended only if those are exactly the bytes bzlib held.
\* A variant that opens the next stream without copying the unused bytes
\* into context->unused (lines 56-58): bzlib gets stale bytes.
ReadStreamEndNextNoCopy ==
    /\ pc = "loop"
    /\ LoopGuard
    /\ \E r \in BzRead(stdio, bz, 0) :
          /\ StreamEnded(r)
          /\ ~(r.b.avail = 0 /\ r.f.eof)
          /\ bz' = [open |-> TRUE, k |-> r.b.k + 1, avail |-> nUnused',
                    out |-> 0, garbled |-> nUnused' > 0]
          /\ error' = "BZ_OK"
    /\ UNCHANGED <<file, present, len, delivered, pc>>

ReadStreamEndNext ==
    /\ pc = "loop"
    /\ LoopGuard
    /\ \E r \in BzRead(stdio, bz, 0) :
          /\ StreamEnded(r)
          /\ ~(r.b.avail = 0 /\ r.f.eof)
          /\ bz' = [open |-> TRUE, k |-> r.b.k + 1, avail |-> nUnused',
                    out |-> 0,
                    garbled |-> r.f.pos - nUnused' # Start(file, r.b.k + 1)]
          /\ error' = "BZ_OK"
    /\ UNCHANGED <<file, present, len, delivered, pc>>

\* Any other code from BZ2_bzRead: "Could not read bz2 file" and exit(-1).
ReadFails ==
    /\ pc = "loop"
    /\ LoopGuard
    /\ \E r \in BzRead(stdio, bz, 0) :
          /\ r.err \notin {"BZ_OK", "BZ_STREAM_END"}
          /\ stdio' = r.f /\ bz' = r.b /\ error' = r.err
    /\ pc' = "exited"
    /\ UNCHANGED <<file, present, nUnused, len, read, delivered>>

\* libxml closes its input after the end: closeBz2Stream fcloses the file
\* and deletes the context.
closeBz2Stream ==
    /\ pc = "eof"
    /\ pc' = "closed"
    /\ UNCHANGED <<file, present, stdio, bz, error, nUnused, len, read, delivered>>

Next ==
    \/ inputReaderFactory
    \/ Call
    \/ LoopExit
    \/ ReadOk
    \/ ReadStreamEndLast
    \/ ReadStreamEndNext
    \/ ReadFails
    \/ closeBz2Stream

\* libxml's parse loop calls the reader until it returns 0.
Spec == Init /\ [][Next]_vars /\ WF_vars(Next)

(* Properties.                                                             *)

\* readFromBz2Stream calls BZ2_bzRead only on an open stream: after the
\* last stream is closed (line 59), the error reset to BZ_STREAM_END at
\* line 61 and the feof test at line 62 must keep every later call out of
\* the loop.
ReadsOnlyOpenStream ==
    (pc = "loop" /\ LoopGuard) => bz.open

\* libxml is told the input has ended (a return of 0) only once the text of
\* every stream of the file has been handed over: a stream boundary inside
\* the file never looks like its end.
EndOfInputOnlyAtEnd ==
    pc = "eof" => delivered = Total(file)

\* On a well-formed file the reader exits only when the file's size is a
\* multiple of BZ_MAX_UNUSED: then the last fread fills bzlib's buffer
\* exactly, feof is still false at the last stream end, and the stream
\* opened on no input reports BZ_UNEXPECTED_EOF.
ExitOnlyAtChunkBoundary ==
    pc = "exited" => FileSize(file) % BZ_MAX_UNUSED = 0

====
