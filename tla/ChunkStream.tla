---------------------------- MODULE ChunkStream ----------------------------
(***************************************************************************)
(* What the source manager promises to the engine: a stream of chunks that *)
(* is closed once, after which nothing is sent; every chunk is sent at     *)
(* most once; and the stream is closed in the end.  Engine's SourceSend    *)
(* and FinishSources are the two actions of this stream.                   *)
(***************************************************************************)
CONSTANT Chunks

VARIABLES sent,  \* chunks put on the output channel
          open   \* the output channel has not been closed

vars == <<sent, open>>

Init == sent = {} /\ open = TRUE

Send(c) ==
    /\ open
    /\ c \in Chunks \ sent
    /\ sent' = sent \cup {c}
    /\ UNCHANGED open

Close ==
    /\ open
    /\ open' = FALSE
    /\ UNCHANGED sent

Next == (\E c \in Chunks : Send(c)) \/ Close

Spec == Init /\ [][Next]_vars /\ WF_vars(Close)
=============================================================================
