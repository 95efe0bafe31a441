------------------------------ MODULE Eq3Uart ------------------------------
(***************************************************************************)
(* The serial line of the hub (eq3_main.c: uart_task() and the first half  *)
(* of the main loop).  The UART task collects what is typed in cmd_buf,    *)
(* and at the end of a line posts a copy to msgQueue, from which the main  *)
(* loop takes it and hands it to handle_request().                         *)
(*                                                                         *)
(* A character is the number of its place in what was typed, so that a     *)
(* line that was cut, joined to another or posted twice can be seen.       *)
(***************************************************************************)
EXTENDS Naturals, Sequences, SequencesExt

CONSTANTS BufLen,      \* sizeof(cmd_buf), 1024
          QueueLen,    \* the length given to xQueueCreate(), 10
          MaxRead,     \* the most one uart_read_bytes() returns, BUF_SIZE - 1
          MaxTyped     \* bound: characters typed in a behaviour

ASSUME UartAssumption ==
  /\ {BufLen, QueueLen, MaxRead} \subseteq Nat \ {0}
  /\ MaxTyped \in Nat

VARIABLES typed,       \* what was read from the UART so far, "char" or "eol" each
          next,        \* the first character of data[] that is not looked at yet
          cmd_buf,     \* the characters of the line collected so far (cmdidx of them)
          created,     \* msgQueue # NULL
          msgQueue,    \* messages: sequences of characters
          handled,     \* history: the messages given to handle_request(), in order
          excused      \* history: why a line may be missing or spoilt

vars == <<typed, next, cmd_buf, created, msgQueue, handled, excused>>

cmdidx == Len(cmd_buf)

TypeOK ==
  /\ typed \in Seq({"char", "eol"})
  /\ next \in 1 .. Len(typed) + 1
  /\ cmd_buf \in Seq(1 .. Len(typed)) /\ cmdidx \in 0 .. BufLen - 1
  /\ created \in BOOLEAN
  /\ msgQueue \in Seq(Seq(1 .. Len(typed))) /\ Len(msgQueue) <= QueueLen
  /\ handled \in Seq(Seq(1 .. Len(typed)))
  /\ excused \subseteq {"no_queue", "no_memory", "queue_full", "discarded"}

\* The UART task runs before msgQueue is created: it has the higher priority.
Init ==
  /\ typed = <<>> /\ next = 1 /\ cmd_buf = <<>>
  /\ created = FALSE /\ msgQueue = <<>>
  /\ handled = <<>> /\ excused = {}

----------------------------------------------------------------------------
\* Mutant: off by one: a read that fills cmd_buf is taken.
Fits_full(len) == cmdidx + len <= BufLen

\* if(cmdidx + len < 1024)
Fits(len) == cmdidx + len < BufLen

\* uart_read_bytes(): what was typed within 20 ms, perhaps nothing.  A read
\* that does not fit is thrown away whole, line ends included, and cmdidx
\* stays as it is.
ReadBytes ==
  /\ next > Len(typed)
  /\ \E data \in BoundedSeq({"char", "eol"}, MaxRead) :
       /\ Len(typed) + Len(data) <= MaxTyped
       /\ typed' = typed \o data
       /\ next' = IF Fits(Len(data)) THEN next ELSE next + Len(data)
       /\ excused' = IF Fits(Len(data)) THEN excused ELSE excused \union {"discarded"}
  /\ UNCHANGED <<cmd_buf, created, msgQueue, handled>>

\* cmd_buf[cmdidx++] = data[cpylen++]
CopyChar ==
  /\ next <= Len(typed) /\ typed[next] = "char"
  /\ cmd_buf' = Append(cmd_buf, next)
  /\ next' = next + 1
  /\ UNCHANGED <<typed, created, msgQueue, handled, excused>>

\* Mutant: xQueueSendToFront() for xQueueSend().
Posted_front(q) == <<cmd_buf>> \o q

\* newMsg with the line in it, at the end of the queue.
Posted(q) == Append(q, cmd_buf)

\* The line is not posted: there is no queue yet, no memory for the copy,
\* or (timeout 0, the answer is not looked at) no room.
WhyNotPosted ==
  {why \in {"no_queue", "no_memory", "queue_full"} :
     CASE why = "no_queue"   -> ~created
       [] why = "no_memory"  -> created
       [] why = "queue_full" -> created /\ Len(msgQueue) = QueueLen}

\* Mutant: cmdidx is only reset when the line was posted.
EndOfLine_kept ==
  /\ next <= Len(typed) /\ typed[next] = "eol"
  /\ next' = next + 1
  /\ IF cmdidx > 0 /\ created /\ Len(msgQueue) < QueueLen
     THEN msgQueue' = Posted(msgQueue) /\ cmd_buf' = <<>>
     ELSE UNCHANGED <<msgQueue, cmd_buf>>
  /\ UNCHANGED <<typed, created, handled, excused>>

\* '\n' or '\r': a line that is not empty is posted, and cmdidx = 0 whatever came of it.
EndOfLine ==
  /\ next <= Len(typed) /\ typed[next] = "eol"
  /\ next' = next + 1
  /\ cmd_buf' = <<>>
  /\ \/ /\ cmdidx > 0 => created /\ Len(msgQueue) < QueueLen
        /\ msgQueue' = IF cmdidx > 0 THEN Posted(msgQueue) ELSE msgQueue
        /\ UNCHANGED excused
     \/ /\ cmdidx > 0
        /\ \E why \in WhyNotPosted : excused' = excused \union {why}
        /\ UNCHANGED msgQueue
  /\ UNCHANGED <<typed, created, handled>>

----------------------------------------------------------------------------
\* msgQueue = xQueueCreate(10, ...), after the task was started.
CreateQueue ==
  /\ ~created
  /\ created' = TRUE
  /\ UNCHANGED <<typed, next, cmd_buf, msgQueue, handled, excused>>

\* Mutant: the last message waits for another one.
ReceiveMsg_lagging ==
  /\ created /\ Len(msgQueue) > 1
  /\ handled' = Append(handled, Head(msgQueue))
  /\ msgQueue' = Tail(msgQueue)
  /\ UNCHANGED <<typed, next, cmd_buf, created, excused>>

\* xQueueReceive() of the main loop, handle_request(msg), free(msg).
ReceiveMsg ==
  /\ created /\ msgQueue # <<>>
  /\ handled' = Append(handled, Head(msgQueue))
  /\ msgQueue' = Tail(msgQueue)
  /\ UNCHANGED <<typed, next, cmd_buf, created, excused>>

Next == ReadBytes \/ CopyChar \/ EndOfLine \/ CreateQueue \/ ReceiveMsg

Spec == Init /\ [][Next]_vars

\* The two tasks run on: nothing is assumed of what is typed.
FairSpec ==
  /\ Spec
  /\ WF_vars(CopyChar) /\ WF_vars(EndOfLine)
  /\ WF_vars(CreateQueue) /\ WF_vars(ReceiveMsg)

----------------------------------------------------------------------------
Messages == handled \o msgQueue

Rising(s) == \A i, j \in 1 .. Len(s) : i < j => s[i] < s[j]

Before(s, t) == \A i \in 1 .. Len(s), j \in 1 .. Len(t) : s[i] < t[j]

\* m is one typed line: neighbouring characters between two line ends.
IsLine(m) ==
  /\ \A i \in 1 .. Len(m) : m[i] = m[1] + i - 1 /\ typed[m[i]] = "char"
  /\ m[1] > 1 => typed[m[1] - 1] = "eol"
  /\ typed[m[Len(m)] + 1] = "eol"

\* Until a read is discarded (uart_task()'s only bound check) every message
\* is exactly one line as it was typed: however the reads cut the lines, and
\* whatever lines before it were dropped for want of a queue, memory or room,
\* no rest of another line is in it.
MessagesAreLines ==
  "discarded" \notin excused =>
    \A k \in 1 .. Len(Messages) : Messages[k] # <<>> /\ IsLine(Messages[k])

\* What handle_request() gets, what waits in msgQueue and what is collected
\* in cmd_buf are, one after the other, characters in the order they were
\* typed and each at most once: discarded reads and dropped lines leave gaps,
\* never a repetition or an exchange of two commands.
InTypedOrder ==
  LET parts == Append(Messages, cmd_buf)
  IN  \A a, b \in 1 .. Len(parts) :
        /\ Rising(parts[a])
        /\ a < b => Before(parts[a], parts[b])

\* A line that was ended reaches handle_request(), unless the code met one
\* of its reasons to lose lines.
EndedLineIsHandled ==
  \A k \in 1 .. MaxTyped :
    /\ k < Len(typed) /\ typed[k] = "char" /\ typed[k + 1] = "eol"
    ~> \/ excused # {}
       \/ \E j \in 1 .. Len(handled) : Last(handled[j]) = k

\* What the head of uart_task() says of it, "Task to handle local UART and
\* accept EQ-3 commands": it can always take another character.  Does not
\* hold: once cmdidx is BufLen - 1 every read is discarded, line ends too.
StillAccepts == next > Len(typed) => Fits(1)
=============================================================================
