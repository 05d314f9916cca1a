------------------------------- MODULE TcpStream -------------------------------
(****************************************************************************)
(* One direction of the TCP connection between two ConnectionHandlers       *)
(* (src/src/connectionhandler.cpp): qsend, _send and handle_qsent_content   *)
(* at the sender, handle_qread_content and extract_pkg (src/src/utils.cpp)  *)
(* at the receiver.  All calls come from the io thread.                     *)
(*                                                                          *)
(* A byte is a pair <<package number, position>>; the terminator, which no  *)
(* package contains, is two bytes of package 0, so that a read may split    *)
(* it.  Lengths are in units of which a buffer holds MaxBuffer.             *)
(****************************************************************************)
EXTENDS Naturals, Sequences, FiniteSets, SequencesExt

CONSTANTS
    MaxBuffer,   \* MAX_BUFFER_SIZE
    Lengths,     \* lengths of the packages that are sent
    Lenient,     \* numbers of the packages whose data, damaged in the middle, still parse
    MaxPkgs      \* bound: packages sent

ASSUME MaxBufferAssumption == MaxBuffer \in Nat \ {0}
ASSUME LengthsAssumption == Lengths \subseteq Nat \ {0}
ASSUME MaxPkgsAssumption == MaxPkgs \in Nat

VARIABLES
    open,           \* the sender's end is not closed
    busy,           \* a write is outstanding
    pkg_queue,      \* packages that wait for it
    pending_data,   \* the part of the current package not yet written
    writing,        \* bytes of the outstanding async_write not yet on the wire
    wire,           \* bytes written and not read
    reader,         \* "reading", "closed" or "thrown"
    stream_buffer,  \* bytes read and not yet part of a whole package
    accepted,       \* history: packages given to qsend, in order
    handled         \* history: packages the receiver has handled, in order

senderVars == <<open, busy, pkg_queue, pending_data, writing, accepted>>
readerVars == <<reader, stream_buffer, handled>>
vars == <<senderVars, wire, readerVars>>

Terminator == <<<<0, 1>>, <<0, 2>>>>
Package(i, len) == [k \in 1 .. len |-> <<i, k>>]

Init ==
    /\ open = TRUE
    /\ busy = FALSE
    /\ pkg_queue = <<>>
    /\ pending_data = <<>>
    /\ writing = <<>>
    /\ wire = <<>>
    /\ reader = "reading"
    /\ stream_buffer = <<>>
    /\ accepted = <<>>
    /\ handled = <<>>

-----------------------------------------------------------------------------
(* Sender                                                                   *)

\* What _send leaves for later, and what it writes.  `now' is what its
\* parameter, a reference, denotes once pending_data has been assigned.
Rest(pkg) == SubSeq(pkg, MaxBuffer + 1, Len(pkg))

ChunkUnbounded(pkg, now) == IF Len(pkg) > MaxBuffer THEN now ELSE now \o Terminator
Chunk(pkg, now) ==
    IF Len(pkg) > MaxBuffer
    THEN SubSeq(now, 1, IF Len(now) < MaxBuffer THEN Len(now) ELSE MaxBuffer)
    ELSE now \o Terminator

\* _send with a package that is a string of its own.
WriteFirst(pkg) ==
    /\ pending_data' = Rest(pkg)
    /\ writing' = Chunk(pkg, pkg)

\* _send(this->pending_data): the parameter is the variable it assigns first.
WriteNext ==
    /\ pending_data' = Rest(pending_data)
    /\ writing' = Chunk(pending_data, pending_data')

\* qsend queues a package while a write is outstanding.
MustWaitNever == FALSE
MustWait == busy

Qsend(len) ==
    /\ open
    /\ Len(accepted) < MaxPkgs
    /\ LET pkg == Package(Len(accepted) + 1, len)
       IN  /\ accepted' = Append(accepted, pkg)
           /\ \/ /\ MustWait
                 /\ pkg_queue' = Append(pkg_queue, pkg)
                 /\ UNCHANGED <<busy, pending_data, writing>>
              \/ /\ ~MustWait
                 /\ busy' = TRUE
                 /\ WriteFirst(pkg)
                 /\ UNCHANGED pkg_queue
    /\ UNCHANGED <<open, wire, readerVars>>

\* The socket takes the bytes of the outstanding write.
Transfer ==
    /\ open
    /\ writing # <<>>
    /\ wire' = wire \o writing
    /\ writing' = <<>>
    /\ UNCHANGED <<open, busy, pkg_queue, pending_data, accepted, readerVars>>

\* What the completion handler does next, once everything was written.
AllSentForgetsQueue == pending_data = <<>>
AllSent == pending_data = <<>> /\ pkg_queue = <<>>

HandleQsentContent ==
    /\ open
    /\ busy
    /\ writing = <<>>
    /\ \/ /\ pending_data # <<>>
          /\ WriteNext
          /\ UNCHANGED <<busy, pkg_queue>>
       \/ /\ pending_data = <<>>
          /\ ~AllSent
          /\ WriteFirst(Head(pkg_queue))
          /\ pkg_queue' = Tail(pkg_queue)
          /\ UNCHANGED busy
       \/ /\ AllSent
          /\ busy' = FALSE
          /\ UNCHANGED <<pkg_queue, pending_data, writing>>
    /\ UNCHANGED <<open, wire, accepted, readerVars>>

\* An outstanding write, or the sender's own read, fails: close.  Any part of
\* the outstanding write may have left; the queue and the pending data stay.
SenderCloses ==
    /\ open
    /\ open' = FALSE
    /\ busy' = FALSE
    /\ \E n \in 0 .. Len(writing) : wire' = wire \o SubSeq(writing, 1, n)
    /\ writing' = <<>>
    /\ UNCHANGED <<pkg_queue, pending_data, accepted, readerVars>>

-----------------------------------------------------------------------------
(* Receiver                                                                 *)

\* extract_pkg: what comes before the first terminator is cut off the buffer,
\* with the terminator; an empty package if there is none.
ExtractPkgClears(buffer) ==
    LET ends == {p \in 1 .. Len(buffer) - 1 : SubSeq(buffer, p, p + 1) = Terminator}
    IN  IF ends = {}
        THEN [pkg |-> <<>>, rest |-> buffer]
        ELSE [pkg |-> SubSeq(buffer, 1, Min(ends) - 1), rest |-> <<>>]
ExtractPkg(buffer) ==
    LET ends == {p \in 1 .. Len(buffer) - 1 : SubSeq(buffer, p, p + 1) = Terminator}
    IN  IF ends = {}
        THEN [pkg |-> <<>>, rest |-> buffer]
        ELSE [pkg |-> SubSeq(buffer, 1, Min(ends) - 1),
              rest |-> SubSeq(buffer, Min(ends) + 2, Len(buffer))]

\* boost::json::parse accepts a whole package, the text of a JSON object, and no
\* other front of one, which lacks its closing brace.  A package that has lost
\* something else, from the middle of a long string say, may pass as well.
Parses(pkg) ==
    \/ pkg \in ToSet(accepted)
    \/ /\ pkg[1][1] \in Lenient
       /\ \A whole \in ToSet(accepted) : ~IsPrefix(pkg, whole)

\* A round of the loop of handle_qread_content: an empty package ends it, and one
\* that does not parse throws out of it and out of io_context::run.
ReadPackage(s) ==
    LET cut == ExtractPkg(s.buffer)
    IN  IF s.loop # "on" THEN s
        ELSE [buffer |-> cut.rest,
              handled |-> IF cut.pkg # <<>> /\ Parses(cut.pkg)
                          THEN Append(s.handled, cut.pkg) ELSE s.handled,
              loop |-> IF cut.pkg = <<>> THEN "done"
                       ELSE IF Parses(cut.pkg) THEN "on" ELSE "thrown"]

\* All its rounds: each but the last takes a terminator and something before it
\* off the buffer.
ReadPackages(buffer) ==
    LET last == Len(buffer) \div 3 + 1
        rounds[k \in 0 .. last] ==
            IF k = 0 THEN [buffer |-> buffer, handled |-> handled, loop |-> "on"]
            ELSE ReadPackage(rounds[k - 1])
    IN  rounds[last]

\* handle_qread_content: the read returned n bytes.
HandleQreadContent(n) ==
    /\ reader = "reading"
    /\ LET s == ReadPackages(stream_buffer \o SubSeq(wire, 1, n))
       IN  /\ handled' = s.handled
           /\ stream_buffer' = s.buffer
           /\ reader' = IF s.loop = "thrown" THEN "thrown" ELSE "reading"
    /\ wire' = SubSeq(wire, n + 1, Len(wire))
    /\ UNCHANGED senderVars

ReadSome ==
    \E n \in 1 .. MaxBuffer : n <= Len(wire) /\ HandleQreadContent(n)

\* The read fails: the peer has closed and everything was read, or at any time.
ReaderCloses ==
    /\ reader = "reading"
    /\ reader' = "closed"
    /\ UNCHANGED <<stream_buffer, handled, senderVars, wire>>

-----------------------------------------------------------------------------
Next ==
    \/ \E len \in Lengths : Qsend(len)
    \/ Transfer
    \/ HandleQsentContent
    \/ SenderCloses
    \/ ReadSome
    \/ ReaderCloses

Spec == Init /\ [][Next]_vars

\* The sockets move bytes and the io_contexts run the completions; nothing is
\* assumed of the application, and a connection may fail at any time.
FairSpec == Spec /\ WF_vars(Transfer) /\ WF_vars(HandleQsentContent) /\ WF_vars(ReadSome)

-----------------------------------------------------------------------------
(* Properties                                                               *)

\* The type invariant; no write is longer than MAX_BUFFER_SIZE and a terminator.
TypeOK ==
    LET byte == Seq(Nat \X Nat)
    IN  /\ open \in BOOLEAN /\ busy \in BOOLEAN
        /\ pending_data \in byte /\ writing \in byte
        /\ wire \in byte /\ stream_buffer \in byte
        /\ pkg_queue \in Seq(byte) /\ accepted \in Seq(byte) /\ handled \in Seq(byte)
        /\ reader \in {"reading", "closed", "thrown"}
        /\ Len(writing) <= MaxBuffer + Len(Terminator)

\* A package without its second chunk, which WriteNext never writes.
Spliced(pkg) == SubSeq(pkg, 1, MaxBuffer) \o SubSeq(pkg, 2 * MaxBuffer + 1, Len(pkg))

\* The receiver handles the packages given to qsend in order, once each and none
\* skipped, however the writes are queued and cut, and the reads cut the stream
\* (extract_pkg).  Each is whole, or one of more than two buffers that lacks its
\* second chunk and nothing else: never a front of a package, or bytes of two.
FramedInOrder ==
    /\ Len(handled) <= Len(accepted)
    /\ \A k \in DOMAIN handled :
           \/ handled[k] = accepted[k]
           \/ Len(accepted[k]) > 2 * MaxBuffer /\ handled[k] = Spliced(accepted[k])

\* A package that waits in pkg_queue has a write outstanding whose completion
\* will send it: nothing else empties the queue.
QueueHasWriter == open /\ (pkg_queue # <<>> \/ pending_data # <<>>) => busy

\* No bytes are lost or doubled between the two ends, while packages fit in one
\* write: what was handled, what the reader holds, what is on the wire, being
\* written and queued is what was accepted.
OneWriteEach == \A k \in DOMAIN accepted : Len(accepted[k]) <= MaxBuffer
Stream(pkgs) ==
    LET bytes[k \in 0 .. Len(pkgs)] ==
            IF k = 0 THEN <<>> ELSE bytes[k - 1] \o (pkgs[k] \o Terminator)
    IN  bytes[Len(pkgs)]
NothingLost ==
    open /\ reader = "reading" /\ OneWriteEach =>
        Stream(accepted) =
            Stream(handled) \o stream_buffer \o wire \o writing \o Stream(pkg_queue)

\* Every package given to qsend is handled, unless an end closes or a package
\* needed more than one write.
AcceptedIsHandled ==
    \A k \in 1 .. MaxPkgs :
        (Len(accepted) >= k) ~>
            (Len(handled) >= k \/ ~open \/ reader # "reading" \/ ~OneWriteEach)

-----------------------------------------------------------------------------
(* What a comment of the code says and the code does not do.                *)

\* A package longer than MAX_BUFFER_SIZE is sent like any other ("Sends raw data
\* via TCP socket", connectionhandler.h:136): the receiver never throws.
LongPackagesParse == reader # "thrown"
=============================================================================
