------------------------ MODULE BufferedReadSeeker ------------------------
(***************************************************************************)
(* BufferedReadSeeker of pkg/iobuf over a reader that cannot seek: what it *)
(* has read is in a buffer until the buffer reaches the threshold, and     *)
(* then in a temporary file.  One goroutine uses it, so its methods are    *)
(* operators from a state to a state and what is returned.                 *)
(*                                                                         *)
(* The stream is a sequence of units; sizes and offsets count units.       *)
(***************************************************************************)
EXTENDS Integers, Sequences

CONSTANTS
    Threshold,   \* br.threshold, positive
    CopySize,    \* defaultBufferSize, what readToEnd takes at once, positive
    EOFWithData  \* does the underlying reader return io.EOF with its last data?

Least(a, b) == IF a < b THEN a ELSE b
Slice(s, from, n) == SubSeq(s, from + 1, Least(from + n, Len(s)))

(* NewBufferedReaderSeeker.  got is how far the underlying reader is, and  *)
(* foff the offset of the temporary file.                                  *)
NewBufferedReaderSeeker(stream) ==
    [src |-> stream, got |-> 0, buf |-> <<>>, bytesRead |-> 0, index |-> 0,
     temp |-> FALSE, file |-> <<>>, foff |-> 0, disk |-> 0,
     total |-> 0, known |-> FALSE]

(* flushBufferToDisk: the buffer is written where the file stands.         *)
Flush(br) ==
    LET end == br.foff + Len(br.buf) IN
    [br EXCEPT !.file = SubSeq(br.file, 1, br.foff) \o br.buf
                            \o SubSeq(br.file, end + 1, Len(br.file)),
               !.foff = end, !.disk = @ + Len(br.buf), !.buf = <<>>]

(* writeData: into the buffer, which goes to the file at the threshold.    *)
WriteData(br, units) ==
    LET b == [br EXCEPT !.buf = @ \o units, !.bytesRead = @ + Len(units)]
    IN IF Len(b.buf) < Threshold THEN b ELSE Flush([b EXCEPT !.temp = TRUE])

(* The total size is what has been read, once the reader is at its end.    *)
EndKnown(br) == [br EXCEPT !.total = br.bytesRead, !.known = TRUE]

(* A read so far: the state, the units read, whether the error is io.EOF.  *)
NothingYet(br) == [br |-> br, out |-> <<>>, eof |-> FALSE]
Given(r, units) == [r EXCEPT !.out = @ \o units, !.br.index = @ + Len(units)]
GivenFromFile(r, at, units) == [Given(r, units) EXCEPT !.br.foff = at + Len(units)]
Joined(r, s) == [s EXCEPT !.out = r.out \o @]

(* Read(out) with Len(out) = n looks in the buffer, then in the file, then *)
(* reads on from the underlying reader; once the size is known and there   *)
(* is a file, the file is all it looks at.                                 *)
FromBuffer(r, n) ==
    IF r.br.index < Len(r.br.buf) THEN Given(r, Slice(r.br.buf, r.br.index, n)) ELSE r

FromFile(r, n) ==
    LET at == r.br.index - Len(r.br.buf)
    IN IF r.br.temp /\ r.br.index < r.br.disk /\ Len(r.out) < n
       THEN GivenFromFile(r, at, Slice(r.br.file, at, n - Len(r.out)))
       ELSE r

AtEnd(br, units) == br.got = Len(br.src) /\ (units = <<>> \/ EOFWithData)

(* A read that took some units from the buffer and goes on in the file     *)
(* cuts out a second time by what it has in all, so that as many places    *)
(* as the buffer filled are passed over.  There may be none left to read   *)
(* into, which is a short read, or less than none, which is a panic.       *)
Spans(r, n) ==
    r.out # <<>> /\ Len(r.out) < n /\ r.br.temp /\ r.br.index < r.br.disk

RoomAfter(r, n) == n - Len(r.out) - Len(FromFile(r, n).out)

Panics(br, n) ==
    /\ ~(br.known /\ br.temp)
    /\ LET r == FromBuffer(NothingYet(br), n) IN Spans(r, n) /\ RoomAfter(r, n) < 0

Received(br, units, all) ==
    [br |-> IF AtEnd(br, units) THEN EndKnown(br) ELSE br,
     out |-> all, eof |-> AtEnd(br, units)]

ReceivedOn(r, units) ==
    Received(WriteData([r.br EXCEPT !.got = @ + Len(units), !.index = @ + Len(units)],
                       units),
             units, r.out \o units)

FromReader(r, n) ==
    IF Len(r.out) = n THEN r
    ELSE ReceivedOn(r, Slice(r.br.src, r.br.got, n - Len(r.out)))

(* What the caller sees in the places passed over is what they held, 0.    *)
Shifted(units, gap) == SubSeq([i \in 1..gap |-> 0] \o units, 1, Len(units))
Torn(r, n) ==
    LET f == FromFile(r, n)
        units == Slice(f.br.src, f.br.got, RoomAfter(r, n))
    IN IF RoomAfter(r, n) <= 0 THEN f
       ELSE [ReceivedOn(f, units) EXCEPT !.out = f.out \o Shifted(units, Len(r.out))]

FromFileOnly(r, n) ==
    IF r.br.index >= r.br.total THEN [r EXCEPT !.eof = TRUE]
    ELSE LET units == Slice(r.br.file, r.br.index, n)
         IN [GivenFromFile(r, r.br.index, units) EXCEPT !.eof = (units = <<>>)]

Read(br, n) ==
    LET r == FromBuffer(NothingYet(br), n)
    IN IF br.known /\ br.temp THEN FromFileOnly(NothingYet(br), n)
       ELSE IF Spans(r, n) THEN Torn(r, n)
       ELSE FromReader(FromFile(r, n), n)

(* io.ReadFull and io.CopyN: reads until n units or the end.               *)
ReadOn(r, n) ==
    IF r.eof \/ Len(r.out) = n THEN r ELSE Joined(r, Read(r.br, n - Len(r.out)))

ReadFull(br, n) ==
    LET upTo[k \in 0..n] == IF k = 0 THEN NothingYet(br) ELSE ReadOn(upTo[k - 1], n)
    IN upTo[n]

(* readToEnd: the rest of the stream, CopySize units at a time, past the   *)
(* index, and then all of it in the file if there is one.                  *)
Copied(br, units) ==
    IF units = <<>> THEN br
    ELSE WriteData([br EXCEPT !.got = @ + Len(units)], units)

CopyOn(br) == Copied(br, Slice(br.src, br.got, CopySize))

FlushRest(br) == IF br.temp /\ br.buf # <<>> THEN Flush(br) ELSE br

ReadToEnd(br) ==
    LET upTo[k \in 0..Len(br.src)] == IF k = 0 THEN br ELSE CopyOn(upTo[k - 1])
    IN EndKnown(FlushRest(upTo[Len(br.src)]))

(* readUntil: reads from the index on until the stream has been read up to *)
(* the target, or nothing more comes.                                      *)
Progress(r) == [br |-> r.br, more |-> r.out # <<>>]

UntilOn(s, target) ==
    IF ~s.more \/ s.br.bytesRead >= target THEN s
    ELSE Progress(ReadFull(s.br, target - s.br.bytesRead))

ReadUntil(br, target) ==
    LET tries == Len(br.src) + target + 1
        upTo[k \in 0..tries] ==
            IF k = 0 THEN [br |-> br, more |-> TRUE] ELSE UntilOn(upTo[k - 1], target)
    IN upTo[tries].br

(* Seek, once whence is resolved; the callers seek to no negative index.   *)
MoveTo(br, target) ==
    [br EXCEPT !.index = target, !.bytesRead = IF target > @ THEN target ELSE @]

SeekTo(br, target) ==
    MoveTo(IF target > br.bytesRead THEN ReadUntil(br, target) ELSE br, target)

FromEnd(br, offset) == SeekTo(br, br.total + offset)
SeekEnd(br, offset) == FromEnd(IF br.known THEN br ELSE ReadToEnd(br), offset)

(* ReadAt: the index is put back unless the read ended in an error.        *)
PutBack(r, index) == IF r.eof THEN r ELSE [r EXCEPT !.br = SeekTo(@, index)]
ReadAt(br, n, offset) == PutBack(Read(SeekTo(br, offset), n), br.index)

(* Size: to the end and back.                                              *)
Measured(end, index) == [SeekTo(end, index) EXCEPT !.total = end.index, !.known = TRUE]
Size(br) == IF br.known THEN br ELSE Measured(SeekEnd(br, 0), br.index)

(* What reading to the end returns, at most n units at a time.             *)
ReadMore(r, n) == IF r.eof THEN r ELSE Joined(r, Read(r.br, n))

Rest(br, n) ==
    LET upTo[k \in 0..Len(br.src) + 1] ==
            IF k = 0 THEN NothingYet(br) ELSE ReadMore(upTo[k - 1], n)
    IN upTo[Len(br.src) + 1].out
=============================================================================
