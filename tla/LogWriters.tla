----------------------------- MODULE LogWriters -----------------------------
(***************************************************************************)
(* The outputs of pkg/logger: loggers that share a MultiWriter, which hands  *)
(* an entry to one writer after the other.  Every writer has a lock of its   *)
(* own and the MultiWriter has none, so concurrent entries overtake each     *)
(* other between the writers, and Close goes through the writers under them. *)
(* When a write fails log reports the error to a nil io.Writer and panics;   *)
(* in a handler RecoveryMiddleware recovers, and the goroutine logs again.   *)
(* An entry is its caller and a number; calls below the logger's level do    *)
(* nothing and are left out.                                                *)
(***************************************************************************)
EXTENDS Integers, Sequences

CONSTANTS
    LogCallers,     \* goroutines that log
    Outputs,        \* number of writers of the MultiWriter
    Files,          \* those of them that are FileWriters
    Buffers,        \* those that are BufferWriters; the rest are StdoutWriters
    BufferSize,     \* the argument of NewBufferWriter
    DefaultBuffer,  \* the size of a buffer that is given none; 10000 in the code
    MaxLogCalls     \* bound: calls that each goroutine makes

ASSUME LogWritersAssumption ==
    /\ Outputs \in Nat \ {0}
    /\ Files \subseteq 1..Outputs /\ Buffers \subseteq 1..Outputs
    /\ Files \cap Buffers = {}
    /\ BufferSize \in Int /\ DefaultBuffer \in Nat \ {0}
    /\ MaxLogCalls \in Nat

VARIABLES
    lines,          \* the entries in each output
    closedFiles,    \* FileWriter.closed
    logging,        \* what each goroutine is doing
    closing,        \* the writers that MultiWriter.Close is through with
    failedAt        \* the writer that did not take an entry of a goroutine; 0: none

logVars == <<lines, closedFiles, logging, closing, failedAt>>

-----------------------------------------------------------------------------
Writers == 1..Outputs

Entries == 1..MaxLogCalls

Line == [by : LogCallers, n : Entries]

\* `count' is the number of the current or latest entry, `next' the writer that
\* gets it next.
LogCall == [pc : {"idle", "write"}, count : 0..MaxLogCalls, next : Writers]
NoLogCall == [pc |-> "idle", count |-> 0, next |-> 1]

\* NewBufferWriter.
BufferCapacity == IF BufferSize <= 0 THEN DefaultBuffer ELSE BufferSize

LogInit ==
    /\ lines = [i \in Writers |-> <<>>]
    /\ closedFiles = {}
    /\ logging = [c \in LogCallers |-> NoLogCall]
    /\ closing = 0
    /\ failedAt = [c \in LogCallers |-> [n \in Entries |-> 0]]

BeginLog(c) ==
    /\ logging[c].pc = "idle"
    /\ logging[c].count < MaxLogCalls
    /\ logging' = [logging EXCEPT ![c] = [pc |-> "write", count |-> @.count + 1, next |-> 1]]
    /\ UNCHANGED <<lines, closedFiles, closing, failedAt>>

-----------------------------------------------------------------------------
\* Mutant: a full buffer gives up its newest entry.
BufferedOverNewest(kept, line) ==
    Append(IF Len(kept) >= BufferCapacity THEN SubSeq(kept, 1, Len(kept) - 1) ELSE kept, line)

\* BufferWriter.Write.
Buffered(kept, line) ==
    Append(IF Len(kept) >= BufferCapacity THEN Tail(kept) ELSE kept, line)

\* A writer takes the entry, and after the last one the call returns.
WriteLine(c) ==
    LET i == logging[c].next
        line == [by |-> c, n |-> logging[c].count] IN
    /\ logging[c].pc = "write"
    /\ i \notin closedFiles
    /\ lines' = [lines EXCEPT ![i] = IF i \in Buffers THEN Buffered(@, line)
                                     ELSE Append(@, line)]
    /\ logging' = [logging EXCEPT ![c] = IF i = Outputs THEN [@ EXCEPT !.pc = "idle"]
                                         ELSE [@ EXCEPT !.next = i + 1]]
    /\ UNCHANGED <<closedFiles, closing, failedAt>>

\* The file is closed, or the system does not take the line: MultiWriter leaves
\* out the writers behind it, and log panics.  RecoveryMiddleware logs that next;
\* a panic that nothing recovers ends the process, and the behaviour.
WriteLineFails(c) ==
    /\ logging[c].pc = "write"
    /\ logging[c].next \notin Buffers
    /\ logging' = [logging EXCEPT ![c].pc = "idle"]
    /\ failedAt' = [failedAt EXCEPT ![c][logging[c].count] = logging[c].next]
    /\ UNCHANGED <<lines, closedFiles, closing>>

\* BufferWriter.Clear.
ClearBuffer(i) ==
    /\ i \in Buffers
    /\ lines' = [lines EXCEPT ![i] = <<>>]
    /\ UNCHANGED <<closedFiles, logging, closing, failedAt>>

\* One writer of MultiWriter.Close; only a FileWriter's Close does anything.
CloseWriter ==
    /\ closing < Outputs
    /\ closing' = closing + 1
    /\ closedFiles' = closedFiles \cup ({closing + 1} \cap Files)
    /\ UNCHANGED <<lines, logging, failedAt>>

-----------------------------------------------------------------------------
LogNext ==
    \/ \E c \in LogCallers :
          \/ BeginLog(c)
          \/ WriteLine(c)
          \/ WriteLineFails(c)
    \/ \E i \in Buffers : ClearBuffer(i)
    \/ CloseWriter

LogSpec == LogInit /\ [][LogNext]_logVars

-----------------------------------------------------------------------------
(* Properties.                                                             *)

LogTypeOK ==
    /\ lines \in [Writers -> Seq(Line)]
    /\ closedFiles \subseteq Files
    /\ logging \in [LogCallers -> LogCall]
    /\ closing \in 0..Outputs
    /\ failedAt \in [LogCallers -> [Entries -> 0..Outputs]]
    /\ \A i \in Buffers : Len(lines[i]) <= BufferCapacity

HasLine(i, c, n) == \E p \in DOMAIN lines[i] : lines[i][p] = [by |-> c, n |-> n]

\* The entries of c that are past writer i.
Given(c, i) ==
    IF logging[c].pc # "idle" /\ logging[c].next <= i THEN logging[c].count - 1
    ELSE logging[c].count

\* Neither i nor a writer before it failed to take the entry.
Reaches(c, n, i) == failedAt[c][n] = 0 \/ i < failedAt[c][n]

\* However the callers overtake each other, an output has the entries of one
\* caller in the order in which it logged them, and with an entry all that came
\* after it, but those that failed on their way: a full buffer gives up the
\* oldest (log_writer.go:136-148).
CallersStayInOrder ==
    \A i \in Writers : \A p \in DOMAIN lines[i] :
        LET c == lines[i][p].by IN
        /\ \A q \in DOMAIN lines[i] :
              p < q /\ lines[i][q].by = c => lines[i][p].n < lines[i][q].n
        /\ \A n \in lines[i][p].n..Given(c, i) : Reaches(c, n, i) => HasLine(i, c, n)

\* A call that is over has left its entry in the outputs before the one that
\* failed, and in none from there on: in all, if none did, also while they are
\* being closed.  A buffer may have given it up (log_writer.go:198-207).
EndedIsWritten ==
    \A c \in LogCallers : \A n \in 1..logging[c].count :
        logging[c].pc = "idle" \/ n < logging[c].count =>
            \A i \in Writers :
                /\ HasLine(i, c, n) => Reaches(c, n, i)
                /\ Reaches(c, n, i) /\ i \notin Buffers => HasLine(i, c, n)

\* What the outputs have is what was logged, in its order: also after a failure,
\* from which the caller goes on logging, an entry is missing exactly where it
\* failed and behind, and no later entry is mistaken for it or comes before it
\* (log_writer.go:136-148, 198-207, middleware.go:112-118).
OutputsFollowCalls == CallersStayInOrder /\ EndedIsWritten
=============================================================================
