---------------------------- MODULE DnsttStream -----------------------------
(***************************************************************************)
(* One local connection of the DNSTT client: the goroutine runContext      *)
(* starts for it (internal/dnsttclient/api.go) and handle (main.go), whose *)
(* two goroutines copy between the connection and a stream of the smux     *)
(* session.                                                                *)
(*                                                                         *)
(* External: smux drops what has not been read when a stream is closed on  *)
(* this side; after the server's end, or the death of the session, reads   *)
(* return what is there first.  The local program, which is the SSH client *)
(* of engine.Manager, closes its connection when it reads its end.         *)
(***************************************************************************)
EXTENDS Naturals

CONSTANT MaxWords   \* bound: messages in either direction

VARIABLES
    smux,        \* the session: "alive" or "dead"
    handler,     \* "accepted", "wait" for its goroutines, or "done"
    up, down,    \* "none", "copy", "close" (up has closed one end), "done"
    stream,      \* "none", "open" or "closed" on this side
    local,       \* our half of the connection: [read, write] open or not
    program,     \* the local program: "open", or "closed" both ways
    written,     \* words the program wrote and up has not read
    inbox,       \* words the server sent and down has not read
    words,       \* words sent by the program and by the server
    served,      \* words the program has received
    finished,    \* the server has closed its end
    refused      \* the stream has refused a word of the program after that end

streamVars == <<smux, handler, up, down, stream, local, program, written, inbox,
                words, served, finished, refused>>

StreamInit ==
    /\ smux \in {"alive", "dead"}
    /\ handler = "accepted" /\ up = "none" /\ down = "none"
    /\ stream = "none" /\ local = [read |-> TRUE, write |-> TRUE]
    /\ program = "open" /\ written = 0 /\ inbox = 0
    /\ words = [program |-> 0, server |-> 0] /\ served = 0
    /\ finished = FALSE /\ refused = FALSE

World == UNCHANGED <<smux, program, words, finished>>

\* defer stream.Close() and defer local.Close().
Return ==
    /\ handler' = "done"
    /\ stream' = IF stream = "open" THEN "closed" ELSE stream
    /\ local' = [read |-> FALSE, write |-> FALSE]
    /\ World /\ UNCHANGED <<up, down, written, inbox, served, refused>>

OpenStreamFails == handler = "accepted" /\ smux = "dead" /\ Return

OpenStream ==
    /\ handler = "accepted" /\ smux = "alive"
    /\ handler' = "wait" /\ stream' = "open" /\ up' = "copy" /\ down' = "copy"
    /\ World /\ UNCHANGED <<local, written, inbox, served, refused>>

\* io.Copy(stream, local).  After the server's end "Stream.Write may return io.EOF".
UpCopies ==
    /\ up = "copy" /\ written > 0
    /\ written' = written - 1
    /\ \/ stream = "open" /\ smux = "alive" /\ UNCHANGED <<up, refused>>
       \/ (stream # "open" \/ smux = "dead")
          /\ up' = "close" /\ UNCHANGED refused
       \/ stream = "open" /\ smux = "alive" /\ finished
          /\ up' = "close" /\ refused' = TRUE
    /\ World /\ UNCHANGED <<handler, down, stream, local, inbox, served>>

UpEnds ==
    /\ up = "copy" /\ written = 0 /\ program = "closed"
    /\ up' = "close"
    /\ World /\ UNCHANGED <<handler, down, stream, local, written, inbox, served, refused>>

UpCloses_LocalOnly ==
    /\ up = "close" /\ up' = "done"
    /\ local' = [local EXCEPT !.read = FALSE]
    /\ World /\ UNCHANGED <<handler, down, stream, written, inbox, served, refused>>

\* local.CloseRead(), then stream.Close()
UpCloses ==
    /\ up = "close"
    /\ \/ local.read /\ local' = [local EXCEPT !.read = FALSE]
          /\ UNCHANGED <<up, stream, inbox>>
       \/ ~local.read /\ up' = "done" /\ stream' = "closed" /\ inbox' = 0
          /\ UNCHANGED local
    /\ World /\ UNCHANGED <<handler, down, written, served, refused>>

\* io.Copy(local, stream); a write to a program that is gone fails.
DownCopies ==
    /\ down = "copy" /\ inbox > 0
    /\ inbox' = inbox - 1
    /\ IF program = "open" THEN served' = served + 1 /\ UNCHANGED down
                           ELSE down' = "close" /\ UNCHANGED served
    /\ World /\ UNCHANGED <<handler, up, stream, local, written, refused>>

StreamEnd_Eager == finished \/ stream = "closed" \/ smux = "dead"
StreamEnd == inbox = 0 /\ (finished \/ stream = "closed" \/ smux = "dead")

DownEnds ==
    /\ down = "copy" /\ StreamEnd
    /\ down' = "close"
    /\ World /\ UNCHANGED <<handler, up, stream, local, written, inbox, served, refused>>

\* local.CloseWrite()
DownCloses ==
    /\ down = "close"
    /\ down' = "done" /\ local' = [local EXCEPT !.write = FALSE]
    /\ World /\ UNCHANGED <<handler, up, stream, written, inbox, served, refused>>

HandlerDone == handler = "wait" /\ up = "done" /\ down = "done" /\ Return
-----------------------------------------------------------------------------
\* The local program, the server and the session.
Ours == UNCHANGED <<handler, up, down, stream, local, served, refused>>

ProgramWrites ==
    /\ program = "open" /\ handler # "done" /\ words.program < MaxWords
    /\ words' = [words EXCEPT !.program = @ + 1] /\ written' = written + 1
    /\ Ours /\ UNCHANGED <<smux, program, inbox, finished>>

ProgramCloses ==
    /\ program = "open" /\ program' = "closed"
    /\ Ours /\ UNCHANGED <<smux, written, inbox, words, finished>>

ServerSends ==
    /\ stream = "open" /\ smux = "alive" /\ ~finished /\ words.server < MaxWords
    /\ words' = [words EXCEPT !.server = @ + 1] /\ inbox' = inbox + 1
    /\ Ours /\ UNCHANGED <<smux, program, written, finished>>

ServerFinishes ==
    /\ stream = "open" /\ smux = "alive" /\ ~finished /\ finished' = TRUE
    /\ Ours /\ UNCHANGED <<smux, program, written, inbox, words>>

SessionDies ==
    /\ smux = "alive" /\ smux' = "dead"
    /\ Ours /\ UNCHANGED <<program, written, inbox, words, finished>>

Upward == UpCopies \/ UpEnds \/ UpCloses
Downward == DownCopies \/ DownEnds \/ DownCloses
Handling == OpenStream \/ OpenStreamFails \/ HandlerDone

StreamNext ==
    \/ Handling \/ Upward \/ Downward
    \/ ProgramWrites \/ ProgramCloses \/ ServerSends \/ ServerFinishes \/ SessionDies

StreamSpec == StreamInit /\ [][StreamNext]_streamVars
-----------------------------------------------------------------------------
(***************************************************************************)
(* The program reads the end of its connection only after the last word of *)
(* the server, unless it has hung up itself, the session has died or the   *)
(* stream has refused a word it wrote after the server's end: only then    *)
(* does up close the stream, and what the server has said with it, while   *)
(* down, which closes for writing when its copy has ended, still reads.    *)
(***************************************************************************)
ServerWordsServed ==
    ~local.write /\ program = "open" /\ smux = "alive" /\ ~refused => served = words.server

(***************************************************************************)
(* Whoever ends first, the program, the server or the session, and also    *)
(* when the connection was accepted after the session had died, the        *)
(* handler ends and leaves neither the connection nor the stream open.     *)
(***************************************************************************)
StreamReleased ==
    program = "closed" \/ finished \/ smux = "dead" ~>
        handler = "done" /\ stream # "open" /\ ~local.read /\ ~local.write
=============================================================================
