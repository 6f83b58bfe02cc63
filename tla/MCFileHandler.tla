--------------------------- MODULE MCFileHandler ---------------------------
(* Files of every handler, with entries that fail in every way the handler *)
(* tells apart, before and after entries that do not.                      *)
EXTENDS FileHandler

Good(n, end) == [open |-> "ok", chunks |-> n, end |-> end]
Bad(how) == [open |-> how, chunks |-> 0, end |-> "eof"]

MCFiles ==
    {[kind |-> "default", entries |-> <<e>>] :
        e \in {Good(5, "eof"), Good(1, "error"), Good(1, "panic"), Bad("skip")}}
    \cup {[kind |-> k, entries |-> <<Good(1, "eof"), Bad(how), Good(2, "eof")>>] :
        k \in {"archive", "ar", "rpm", "apk"},
        how \in {"fails", "panics", "crashes"}}
    \cup {[kind |-> k, entries |-> <<Good(1, "eof"), Bad("breaks"), Good(2, "eof")>>] :
        k \in {"archive", "ar", "rpm"}}
    \cup {[kind |-> k, entries |-> <<Bad("unloaded")>>] : k \in {"archive", "ar", "rpm", "apk"}}
    \cup {[kind |-> k, entries |-> <<Good(1, end), Good(1, "eof")>>] :
        k \in {"archive", "apk"}, end \in {"error", "panic"}}
    \cup {[kind |-> k, entries |-> <<>>] : k \in Unhandled}

(* The callers of a BufferedReadSeeker make any calls within the stream.   *)
(* HandleFile, the archive formats and the readers of zip and 7z files go  *)
(* back, and read at an offset, only while all that has been read is in    *)
(* one place: the buffer, or the file once they asked for the size.        *)
Offsets(br) == 0..Len(br.src)
InOnePlace(br) == ~br.temp \/ (br.known /\ br.buf = <<>>)

Reading(br, from, n, result) == [before |-> br, from |-> from, n |-> n, result |-> result]
Reads(br) ==
    {Reading(br, br.index, n, R!Read(br, n)) : n \in 1..4}
    \cup (IF br.known /\ InOnePlace(br)
          THEN {Reading(br, o, n, R!ReadAt(br, n, o)) : o \in Offsets(br), n \in 1..4}
          ELSE {})

AfterCall(br) ==
    {c.result.br : c \in Reads(br)} \cup {R!Size(br)}
        \cup {R!SeekTo(br, o) : o \in {p \in Offsets(br) : p < br.index => InOnePlace(br)}}

(* The readers some number of calls lead to. *)
AfterCalls(calls) ==
    LET reached[k \in 0..calls] ==
            IF k = 0 THEN {Fresh(n) : n \in 0..6}
            ELSE LET before == reached[k - 1] IN before \cup UNION {AfterCall(b) : b \in before}
    IN reached[calls]

(* A read returns what the stream holds at its index, at least a unit of   *)
(* what there is, and io.EOF only at the end.                              *)
Exact(c) ==
    LET len == Len(c.before.src)
        end == c.from + Len(c.result.out)
    IN  /\ end <= R!Least(c.from + c.n, len)
        /\ c.result.out = SubSeq(c.before.src, c.from + 1, end)
        /\ c.result.out = <<>> => c.result.eof
        /\ c.result.eof => end = len

(* For these callers the buffer and the file are not to be seen, and a     *)
(* size that is known is the stream's, however often they call: five calls *)
(* lead to every reader there is of these streams.  (A ReadAt past the end of a stream *)
(* that is still in memory makes the next size too large.)                 *)
ASSUME MeasuredReadsAreExact ==
    /\ UNION {AfterCall(br) : br \in AfterCalls(5)} \subseteq AfterCalls(5)
    /\ \A br \in AfterCalls(5) :
           /\ br.known => br.total = Len(br.src)
           /\ \A c \in Reads(br) : Exact(c)

(* For others they are: without the size, a seek back once there is a file *)
(* lets a read begin in the buffer and go on in the file, where it panics  *)
(* or returns what is not there; and what was read to the end, a part of   *)
(* it still in the buffer, is not there again.                             *)
Behind(n, first) == R!SeekTo(R!Read(R!Read(Fresh(n), first).br, 1).br, 0)

ASSUME UnmeasuredReadsAreNot ==
    /\ R!Panics(Behind(6, 2), 3)
    /\ ~Exact(Reading(Behind(6, 2), 0, 2, R!Read(Behind(6, 2), 2)))
    /\ LET again == R!SeekTo(R!ReadFull(R!Read(Fresh(3), 2).br, 2).br, 0)
       IN  ~Exact(Reading(again, 0, 4, R!ReadFull(again, 4)))
=============================================================================
