------------------------------ MODULE CmdQueue ------------------------------
(***************************************************************************)
(* The command list of main/eq3_main.c as a sequence, head first, and what *)
(* the calls that change it make of it.  A command is a record with at     *)
(* least the fields bleda, cmd (with the parameters it uses), junk (the    *)
(* parameter bytes it leaves unset) and retries.                           *)
(***************************************************************************)
EXTENDS Naturals, Sequences

lastCommandForDevice(q, d) ==
    {i \in 1 .. Len(q) : /\ q[i].bleda = d
                         /\ \A j \in (i + 1) .. Len(q) : q[j].bleda # d}

\* Mutant: the new command becomes the head.
enqueue_at_head(q, new) == <<new>> \o q

enqueue_command(q, new) ==
    IF \E i \in lastCommandForDevice(q, new.bleda) :
           q[i].cmd = new.cmd /\ q[i].junk = new.junk
    THEN q
    ELSE Append(q, new)

\* Mutant: the head is only removed when the counter is below 0.
QueueAfterFailure_lenient(q) ==
    IF q = <<>> THEN q
    ELSE IF Head(q).retries = 0 THEN Tail(q)
    ELSE Append(Tail(q), [Head(q) EXCEPT !.retries = @ - 1])

\* Mutant: a retry is not counted.
QueueAfterFailure_uncounted(q) ==
    IF q = <<>> THEN q ELSE Append(Tail(q), Head(q))

\* The queue after the command at its head failed, with REQUEUE_RETRY.
QueueAfterFailure(q) ==
    IF q = <<>> THEN q
    ELSE IF Head(q).retries - 1 <= 0 THEN Tail(q)
    ELSE Append(Tail(q), [Head(q) EXCEPT !.retries = @ - 1])

QueueAfterSuccess(q) == IF q = <<>> THEN q ELSE Tail(q)
=============================================================================
