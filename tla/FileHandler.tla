---------------------------- MODULE FileHandler ----------------------------
(***************************************************************************)
(* pkg/handlers: HandleFile reads one file.  Three kinds of goroutines     *)
(* take part: the caller, which reports the chunks it receives; the        *)
(* handler, which walks the entries of the file; and one chunk reader for  *)
(* each entry it opens (pkg/sources/chunker.go).  Two bounded channels     *)
(* join them, and one context, ended by the caller's cancellation, by      *)
(* maxTimeout or by HandleFile's own return, is all that stops them.       *)
(*                                                                         *)
(* A file is its handler and its entries.  What an entry meets when it is  *)
(* opened and how its content ends are data of the file.  The content of   *)
(* an entry is the sequence of its chunks, 1, 2 and so on, which the       *)
(* archive and default handlers read through a BufferedReadSeeker.         *)
(***************************************************************************)
EXTENDS Integers, Sequences, SequencesExt

CONSTANTS
    Files,      \* the files a behaviour may handle
    MaxEntries, \* bound on the entries of a file
    MaxChunks,  \* bound on the chunks of an entry
    Threshold, CopySize, EOFWithData,  \* of BufferedReadSeeker
    Header,     \* what the detection of the file's type reads
    DataCap,    \* defaultBufferSize, the capacity of dataOrErrChan
    ChunkCap    \* channelSize, the capacity of chunkResultChan

(* "unreadable" is a file newFileReader refuses, "skipped" an archive the  *)
(* caller does not want, "forced" one that ForceSkipArchives leaves out.   *)
Kinds == {"default", "archive", "ar", "rpm", "apk"}
Unhandled == {"unreadable", "skipped", "forced"}

(* What opening an entry comes to: a chunk reader starts, the entry is     *)
(* left out, it fails, it panics, or the container itself fails or panics, *)
(* or could not be loaded at all.                                          *)
Openings == {"ok", "skip", "fails", "panics", "breaks", "crashes", "unloaded"}

(* The default handler opens nothing; apk has its list of entries at once. *)
Meets(kind) == CASE kind = "default" -> {"ok", "skip"}
                 [] kind = "apk" -> Openings \ {"breaks"}
                 [] OTHER -> Openings

Entry == [open : Openings, chunks : 0..MaxChunks, end : {"eof", "error", "panic"}]
File == [kind : Kinds \cup Unhandled, entries : Seq(Entry)]

ASSUME FilesAssumption ==
    /\ {MaxEntries, MaxChunks} \subseteq Nat
    /\ Files \subseteq File /\ \A f \in Files : Len(f.entries) <= MaxEntries
    /\ \A f \in Files : \A e \in DOMAIN f.entries :
           /\ f.entries[e].open \in Meets(f.kind)
           /\ f.entries[e].open = "unloaded" => e = 1
ASSUME CapAssumption == {DataCap, ChunkCap} \subseteq Nat \ {0}

ASSUME SeekerAssumption ==
    {Threshold, CopySize} \subseteq Nat \ {0} /\ EOFWithData \in BOOLEAN

(* A few kilobytes are read to tell the type, the threshold is 16 MB.      *)
ASSUME HeaderAssumption == Header \in Nat \ {0} /\ Header < Threshold

R == INSTANCE BufferedReadSeeker

VARIABLES
    file,        \* the file
    ctxDone,     \* processingCtx is done
    interrupted, \* it was done before HandleFile had its result
    res,         \* the result of HandleFile
    closed,      \* rdr.Close has returned the file's buffer to the pool
    inHand,      \* the chunk the caller is reporting, if any
    reported,    \* the chunks ChunkOk took
    hpc, ent,    \* where the handler stands, and its entry
    out, after,  \* what it is about to send, and where it goes then
    data,        \* dataOrErrChan
    rpc, pos,    \* where each entry's chunk reader stands, the chunk it read
    view,        \* what its chunk reader has yet to read of each entry
    chunks       \* chunkResultChan of each entry, 0 for an error

callerVars == <<res, closed, inHand, reported>>
handlerVars == <<hpc, ent, out, after>>
readerVars == <<rpc, pos, view>>
vars == <<file, ctxDone, interrupted, callerVars, handlerVars, data, readerVars, chunks>>

Ents == 1..MaxEntries
Positions == 1..MaxChunks
Warning == [type |-> "warn", of |-> <<0, 0>>]
Fatal == [type |-> "fatal", of |-> <<0, 0>>]
Datum(e, i) == [type |-> "data", of |-> <<e, i>>]
Messages == {Warning, Fatal} \cup {Datum(e, i) : e \in Ents, i \in Positions}

Init ==
    /\ file \in Files
    /\ ctxDone = FALSE /\ interrupted = FALSE
    /\ res = "none" /\ closed = FALSE /\ inHand = <<>> /\ reported = <<>>
    /\ hpc = "new" /\ ent = 1 /\ out = Warning /\ after = "close"
    /\ data = <<>>
    /\ rpc = [e \in Ents |-> "new"] /\ pos = [e \in Ents |-> 0]
    /\ view = [e \in Ents |-> <<>>]
    /\ chunks = [e \in Ents |-> <<>>]

-----------------------------------------------------------------------------
(* The handlers differ in what an entry's failure costs: nothing, a        *)
(* warning, the rest of the file, or the whole file.  "cut" is the content *)
(* of an entry given up because the context is done.                       *)
Ignored == {<<"archive", "panics">>, <<"apk", "fails">>, <<"apk", "cut">>}
               \cup (Kinds \X {"skip"})
Warned == {<<"ar", "fails">>, <<"ar", "cut">>, <<"rpm", "cut">>}
Abandoned == {"apk"} \X {"panics", "crashes"}
Ruined == ({"ar", "rpm"} \X {"panics", "crashes", "unloaded"})
              \cup {<<"archive", "crashes">>}

To(where, next) == hpc' = where /\ ent' = next

(* A send with no other case to its select: the context does not end it.   *)
SendPlainly(m, then) == To("plain", ent) /\ out' = m /\ after' = then

(* An error returned to measureLatencyAndHandleErrors: a context error is  *)
(* fatal, any other is not.  The write looks at the context first.         *)
Fail(fatal) ==
    /\ To(IF ctxDone THEN "close" ELSE "measure", ent)
    /\ out' = IF fatal THEN Fatal ELSE Warning
    /\ UNCHANGED after

(* Mutant: the warning of a bad entry ends the handler.                    *)
LeaveWarnedEnds(what) ==
    LET how == <<file.kind, what>> IN
    \/ how \in Ignored /\ To("next", ent + 1) /\ UNCHANGED <<out, after>>
    \/ how \in Warned /\ SendPlainly(Warning, "close")
    \/ how \in Abandoned /\ To("close", ent) /\ UNCHANGED <<out, after>>
    \/ how \in Ruined /\ SendPlainly(Fatal, "close")
    \/ how \notin Ignored \cup Warned \cup Abandoned \cup Ruined /\ Fail(what = "cut")

(* The handler leaves an entry that did not go well.                       *)
Leave(what) ==
    LET how == <<file.kind, what>> IN
    \/ how \in Ignored /\ To("next", ent + 1) /\ UNCHANGED <<out, after>>
    \/ how \in Warned /\ SendPlainly(Warning, "next")
    \/ how \in Abandoned /\ To("close", ent) /\ UNCHANGED <<out, after>>
    \/ how \in Ruined /\ SendPlainly(Fatal, "close")
    \/ how \notin Ignored \cup Warned \cup Abandoned \cup Ruined /\ Fail(what = "cut")

(* HandleFile selects the handler and starts it, unless there is nothing   *)
(* to handle; a handler told to skip archives closes its channel at once.  *)
Begin ==
    /\ hpc = "new" /\ res = "none"
    /\ IF file.kind \in {"unreadable", "skipped"}
       THEN /\ res' = IF file.kind = "skipped" THEN "nil" ELSE "unreadable"
            /\ UNCHANGED hpc
       ELSE /\ hpc' = IF file.kind = "forced" THEN "done" ELSE "next"
            /\ UNCHANGED res
    /\ UNCHANGED <<file, ctxDone, interrupted, closed, inHand, reported, ent,
                   out, after, data, readerVars, chunks>>

(* newFileReader: the header is read to detect the type, a zip is measured *)
(* and searched for an APK, a type the archiver may know is read again,    *)
(* and each time the reader is put back to the start.                      *)
Sniff(b) == R!SeekTo(R!ReadFull(b, Header).br, 0)
Search(b) == R!SeekTo(R!ReadAt(R!Size(b), Header, 1).br, 0)

Fresh(n) == R!NewBufferedReaderSeeker([i \in 1..n |-> i])
Sniffed(n, type) ==
    CASE type = "text" -> Sniff(Fresh(n))
      [] type = "other" -> Sniff(Sniff(Fresh(n)))
      [] type = "zip" -> Sniff(Search(Sniff(Fresh(n))))

(* What a chunk reader then reads of an entry of n chunks.                 *)
Types == {"text", "other", "zip"}
Readings ==
    {[chunks |-> n, type |-> type, view |-> R!Rest(Sniffed(n, type), 1)] :
        n \in 0..MaxChunks, type \in Types}

(* ar and rpm read their entries straight from the stream, and apk reads   *)
(* them from the start.  A zip with a read error is only followed when it  *)
(* is recognised without being measured.                                   *)
Views(entry) ==
    IF file.kind \notin {"default", "archive"} THEN {[i \in 1..entry.chunks |-> i]}
    ELSE {r.view : r \in {q \in Readings :
             q.chunks = entry.chunks /\ ~(q.type = "zip" /\ entry.end = "error")}}

(* ar and rpm load the file before they look at the context at all.        *)
LoadFails ==
    /\ file.kind \in {"ar", "rpm"}
    /\ ent <= Len(file.entries) /\ file.entries[ent].open = "unloaded"

(* The next entry: archive, ar and rpm look at the context first, apk and  *)
(* the default handler do not.                                             *)
NextEntry ==
    /\ hpc = "next"
    /\ IF ctxDone /\ file.kind \in {"archive", "ar", "rpm"} /\ ~LoadFails
       THEN Fail(TRUE) /\ UNCHANGED <<rpc, view>>
       ELSE IF ent > Len(file.entries)
       THEN To("close", ent) /\ UNCHANGED <<out, after, rpc, view>>
       ELSE IF file.entries[ent].open = "ok"
       THEN /\ To("content", ent)
            /\ rpc' = [rpc EXCEPT ![ent] = "read"]
            /\ \E v \in Views(file.entries[ent]) : view' = [view EXCEPT ![ent] = v]
            /\ UNCHANGED <<out, after>>
       ELSE Leave(file.entries[ent].open) /\ UNCHANGED <<rpc, view>>
    /\ UNCHANGED <<file, ctxDone, interrupted, callerVars, data, pos, chunks>>

(* handleNonArchiveContent takes the next result of the chunk reader.  The *)
(* write that follows looks at the context before anything else.           *)
TakeChunk ==
    /\ hpc = "content"
    /\ chunks[ent] # <<>>
    /\ chunks' = [chunks EXCEPT ![ent] = Tail(@)]
    /\ IF ctxDone
       THEN Leave("cut")
       ELSE /\ To("write", ent)
            /\ out' = LET i == Head(chunks[ent]) IN
                      IF i = 0 THEN Warning ELSE Datum(ent, i)
            /\ UNCHANGED after
    /\ UNCHANGED <<file, ctxDone, interrupted, callerVars, data, readerVars>>

(* Mutant: the handler takes an empty channel for a closed one.            *)
ContentDoneWhenEmpty ==
    /\ hpc = "content"
    /\ chunks[ent] = <<>>
    /\ To("next", ent + 1)
    /\ UNCHANGED <<file, ctxDone, interrupted, callerVars, out, after, data,
                   readerVars, chunks>>

(* The chunk reader has closed its channel: on to the next entry.          *)
ContentDone ==
    /\ hpc = "content"
    /\ chunks[ent] = <<>> /\ rpc[ent] = "off"
    /\ To("next", ent + 1)
    /\ UNCHANGED <<file, ctxDone, interrupted, callerVars, out, after, data,
                   readerVars, chunks>>

(* CancellableWrite of a chunk or of a chunk's error, once it waits.       *)
Write ==
    /\ hpc = "write"
    /\ \/ /\ Len(data) < DataCap
          /\ data' = Append(data, out)
          /\ To("content", ent)
          /\ UNCHANGED <<out, after>>
       \/ /\ ctxDone
          /\ Leave("cut")
          /\ UNCHANGED data
    /\ UNCHANGED <<file, ctxDone, interrupted, callerVars, readerVars, chunks>>

(* Mutant: the error is sent whatever the channel holds.                   *)
PlainSendUnbounded ==
    /\ hpc = "plain"
    /\ data' = Append(data, out)
    /\ To(after, IF after = "next" THEN ent + 1 ELSE ent)
    /\ UNCHANGED <<file, ctxDone, interrupted, callerVars, out, after,
                   readerVars, chunks>>

(* dataOrErrChan <- DataOrErr{...} outside of any select.                  *)
PlainSend ==
    /\ hpc = "plain"
    /\ Len(data) < DataCap
    /\ data' = Append(data, out)
    /\ To(after, IF after = "next" THEN ent + 1 ELSE ent)
    /\ UNCHANGED <<file, ctxDone, interrupted, callerVars, out, after,
                   readerVars, chunks>>

(* The CancellableWrite of measureLatencyAndHandleErrors, once it waits.   *)
Measure ==
    /\ hpc = "measure"
    /\ \/ Len(data) < DataCap /\ data' = Append(data, out)
       \/ ctxDone /\ UNCHANGED data
    /\ To("close", ent)
    /\ UNCHANGED <<file, ctxDone, interrupted, callerVars, out, after,
                   readerVars, chunks>>

(* defer close(dataOrErrChan).                                             *)
CloseData ==
    /\ hpc = "close"
    /\ To("done", ent)
    /\ UNCHANGED <<file, ctxDone, interrupted, callerVars, out, after, data,
                   readerVars, chunks>>

-----------------------------------------------------------------------------
(* readInChunks of entry e: the next chunk of the content, the end, an     *)
(* error, which is sent, or a panic, which is recovered and sent outside   *)
(* of any select.                                                          *)
ReadNext(e) ==
    /\ rpc[e] = "read"
    /\ LET end == file.entries[e].end IN
       IF view[e] # <<>>
       THEN /\ pos' = [pos EXCEPT ![e] = Head(view[e])]
            /\ view' = [view EXCEPT ![e] = Tail(@)]
            /\ rpc' = [rpc EXCEPT ![e] = "send"]
       ELSE /\ rpc' = [rpc EXCEPT ![e] = CASE end = "eof" -> "off"
                                          [] end = "error" -> "fail"
                                          [] end = "panic" -> "plain"]
            /\ UNCHANGED <<pos, view>>
    /\ UNCHANGED <<file, ctxDone, interrupted, callerVars, handlerVars, data, chunks>>

Send(e) ==
    /\ rpc[e] \in {"send", "fail", "plain"}
    /\ Len(chunks[e]) < ChunkCap
    /\ chunks' = [chunks EXCEPT ![e] = Append(@, IF rpc[e] = "send" THEN pos[e] ELSE 0)]
    /\ rpc' = [rpc EXCEPT ![e] = IF @ = "send" THEN "read" ELSE "off"]
    /\ UNCHANGED <<file, ctxDone, interrupted, callerVars, handlerVars, data, pos, view>>

(* Mutant: the chunk reader sends without looking at the context.          *)
SendChunkNoSelect(e) == Send(e)

(* The select of the chunk reader prefers neither side.                    *)
SendChunk(e) ==
    \/ Send(e)
    \/ /\ ctxDone /\ rpc[e] \in {"send", "fail"}
       /\ rpc' = [rpc EXCEPT ![e] = "off"]
       /\ UNCHANGED <<file, ctxDone, interrupted, callerVars, handlerVars, data, pos,
                      view, chunks>>

-----------------------------------------------------------------------------
Waiting == res = "none" /\ hpc # "new" /\ inHand = <<>>

(* handleChunksWithError receives: the end of the channel is success, a    *)
(* fatal error the result, any other error is logged, data is reported.    *)
Receive ==
    /\ Waiting
    /\ IF data = <<>>
       THEN hpc = "done" /\ res' = "nil" /\ UNCHANGED <<data, inHand>>
       ELSE /\ data' = Tail(data)
            /\ res' = IF Head(data) = Fatal THEN "fatal" ELSE res
            /\ inHand' = IF Head(data).type = "data" THEN Head(data).of ELSE <<>>
    /\ UNCHANGED <<file, ctxDone, interrupted, closed, reported, handlerVars,
                   readerVars, chunks>>

(* case <-ctx.Done(): chosen at random when the channel is ready too.      *)
GiveUp ==
    /\ Waiting
    /\ ctxDone
    /\ res' = "ctx"
    /\ UNCHANGED <<file, ctxDone, interrupted, closed, inHand, reported,
                   handlerVars, data, readerVars, chunks>>

ReportChunk ==
    /\ inHand # <<>>
    /\ reported' = Append(reported, inHand)
    /\ inHand' = <<>>
    /\ UNCHANGED <<file, ctxDone, interrupted, res, closed, handlerVars, data,
                   readerVars, chunks>>

(* ChunkOk returns an error, the context's or its own.                     *)
ReportFails ==
    /\ inHand # <<>>
    /\ inHand' = <<>>
    /\ res' = "refused"
    /\ UNCHANGED <<file, ctxDone, interrupted, closed, reported, handlerVars,
                   data, readerVars, chunks>>

(* HandleFile returns: the deferred cancel runs, then the deferred Close.  *)
Return ==
    /\ res # "none" /\ ~closed
    /\ IF ctxDone THEN closed' = TRUE /\ UNCHANGED ctxDone
       ELSE ctxDone' = TRUE /\ UNCHANGED closed
    /\ UNCHANGED <<file, interrupted, res, inHand, reported, handlerVars, data,
                   readerVars, chunks>>

(* The caller's context is cancelled, or maxTimeout has passed.            *)
Interrupt ==
    /\ ~ctxDone /\ res = "none" /\ hpc # "new"
    /\ ctxDone' = TRUE /\ interrupted' = TRUE
    /\ UNCHANGED <<file, callerVars, handlerVars, data, readerVars, chunks>>

HandlerStep == NextEntry \/ TakeChunk \/ ContentDone \/ Write \/ PlainSend
                   \/ Measure \/ CloseData
ReaderStep(e) == ReadNext(e) \/ SendChunk(e)
CallerStep == Begin \/ Receive \/ GiveUp \/ Return

Next == \/ HandlerStep
        \/ \E e \in Ents : ReaderStep(e)
        \/ CallerStep \/ ReportChunk \/ ReportFails
        \/ Interrupt

(* ChunkOk may wait for ever on a reader that does not come, but not once  *)
(* the context is done; the timer of maxTimeout always ends the context;   *)
(* a read of the file returns.                                             *)
Fairness ==
    /\ WF_vars(HandlerStep)
    /\ \A e \in Ents : WF_vars(ReaderStep(e))
    /\ WF_vars(CallerStep)
    /\ WF_vars(ctxDone /\ ReportFails)
    /\ WF_vars(Interrupt)

Spec == Init /\ [][Next]_vars /\ Fairness

-----------------------------------------------------------------------------
(* The type invariant; the channels hold no more than their capacity.      *)
TypeOK ==
    /\ file \in Files
    /\ {ctxDone, interrupted, closed} \subseteq BOOLEAN
    /\ res \in {"none", "nil", "fatal", "ctx", "refused", "unreadable"}
    /\ inHand \in {<<>>} \cup (Ents \X Positions)
    /\ reported \in Seq(Ents \X Positions)
    /\ hpc \in {"new", "next", "content", "write", "plain", "measure", "close", "done"}
    /\ ent \in 1..MaxEntries + 1 /\ out \in Messages /\ after \in {"next", "close"}
    /\ data \in Seq(Messages) /\ Len(data) <= DataCap
    /\ rpc \in [Ents -> {"new", "read", "send", "fail", "plain", "off"}]
    /\ pos \in [Ents -> 0..MaxChunks]
    /\ \A e \in Ents : chunks[e] \in Seq(0..MaxChunks) /\ Len(chunks[e]) <= ChunkCap

(* A sequential reading of the file gets past an entry unless the          *)
(* container ends there, or the handler gives up the rest of the file for  *)
(* the one entry, as it does for a file of an archive or an rpm that       *)
(* cannot be opened, though their comments say that processing continues.  *)
Deserted == ({"archive", "rpm"} \X {"fails"}) \cup ({"ar", "rpm", "apk"} \X {"panics"})
Passes(e) ==
    LET what == file.entries[e].open
    IN what \notin {"breaks", "crashes", "unloaded"} /\ <<file.kind, what>> \notin Deserted

(* The chunks of the entries it gets to, in order.                         *)
Content ==
    IF file.kind \in Unhandled THEN <<>>
    ELSE FlattenSeq([e \in DOMAIN file.entries |->
            IF file.entries[e].open = "ok" /\ \A d \in 1..e : Passes(d)
            THEN [i \in 1..file.entries[e].chunks |-> <<e, i>>] ELSE <<>>])

(* The file fails as a whole where a panic or the loading of an ar or an   *)
(* rpm ends it; only apk keeps a panic to itself, though its comment says  *)
(* that panics are returned as errors.                                     *)
Fails(e) ==
    LET what == file.entries[e].open
    IN \/ what \in {"panics", "crashes"} /\ ~Passes(e) /\ file.kind # "apk"
       \/ what = "unloaded" /\ file.kind \in {"ar", "rpm"}

Failed == file.kind \notin Unhandled /\
    \E e \in DOMAIN file.entries : Fails(e) /\ \A d \in 1..e - 1 : Passes(d)

(* What is reported of a file is a prefix of its content, in order and     *)
(* without a gap, however its goroutines interleave and whatever is        *)
(* cancelled; and when nothing interrupts HandleFile, its result comes     *)
(* after the last chunk, with all of the content reported: an error when   *)
(* the file failed as a whole, nil otherwise.                              *)
ContentIsReported ==
    /\ IsPrefix(reported, Content)
    /\ ~interrupted /\ res \in {"nil", "fatal"} =>
           reported = Content /\ (res = "fatal" <=> Failed)

(* Nobody reads a file that is no longer theirs: while the context stands, *)
(* the only chunk reader is that of the entry the handler is reading, so   *)
(* an archive's stream never has two readers; and when HandleFile returns  *)
(* nil without an interruption, no goroutine is left that could touch the  *)
(* buffer Close gave back to the pool.                                     *)
ReadersAreJoined ==
    /\ ~ctxDone => \A e \in Ents :
           rpc[e] \in {"read", "send", "fail", "plain"} => e = ent /\ hpc \in {"content", "write"}
    /\ closed /\ res = "nil" /\ ~interrupted =>
           hpc \in {"new", "done"} /\ \A e \in Ents : rpc[e] \in {"new", "off"}

(* HandleFile returns, even when nobody takes its chunks, and its          *)
(* goroutines end, except one that stays for ever at a send the context    *)
(* does not end.                                                           *)
ReturnsAndCleansUp ==
    /\ <>closed
    /\ <>[](hpc \in {"new", "done", "plain"})
    /\ \A e \in Ents : <>[](rpc[e] \in {"new", "off", "plain"})
=============================================================================
