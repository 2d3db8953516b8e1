--------------------------- MODULE VerifyHeaders ---------------------------
(***************************************************************************)
(* backend.VerifyHeaders (build/env.sh): a goroutine verifies a batch of   *)
(* N headers in order and sends each result on a channel buffered to the   *)
(* batch length, in a select with the caller's abort channel.  The caller  *)
(* (the chain import, not under src/) reads results, may close abort at    *)
(* any time, and may stop reading altogether.  A result is identified by  *)
(* the index of its header; what verifyHeader computes is HeaderVerifier's *)
(* business.                                                               *)
(***************************************************************************)
EXTENDS Naturals, Sequences

CONSTANT N          \* len(headers)

VARIABLES
    pc,             \* the producer: "verify", "send" or "done"
    i,              \* index of the header being verified
    results,        \* the buffered results channel
    abortClosed,    \* close(abort) has happened
    received        \* what the caller has read, in order

vars == <<pc, i, results, abortClosed, received>>

\* The capacity of an undersized buffer, one short of the batch.
ResultsCapShort(n) == n - 1

\* make(chan error, len(headers))
ResultsCap(n) == n

Init ==
    /\ pc = "verify"
    /\ i = 1
    /\ results = <<>>
    /\ abortClosed = FALSE
    /\ received = <<>>

\* for i, header := range headers: err := sb.verifyHeader(...); the loop
\* ends after the last header.
Verify ==
    /\ pc = "verify"
    /\ pc' = IF i <= N THEN "send" ELSE "done"
    /\ UNCHANGED <<i, results, abortClosed, received>>

\* select case <-abort: return
SendAbort ==
    /\ pc = "send"
    /\ abortClosed
    /\ pc' = "done"
    /\ UNCHANGED <<i, results, abortClosed, received>>

\* select case results <- err
SendResult ==
    /\ pc = "send"
    /\ Len(results) < ResultsCap(N)
    /\ results' = Append(results, i)
    /\ i' = i + 1
    /\ pc' = "verify"
    /\ UNCHANGED <<abortClosed, received>>

Producer == Verify \/ SendAbort \/ SendResult

\* The caller reads the next result.
Receive ==
    /\ results # <<>>
    /\ received' = Append(received, Head(results))
    /\ results' = Tail(results)
    /\ UNCHANGED <<pc, i, abortClosed>>

\* The caller gives up: close(abort).
Abort ==
    /\ ~abortClosed
    /\ abortClosed' = TRUE
    /\ UNCHANGED <<pc, i, results, received>>

Next == Producer \/ Receive \/ Abort

\* The Go scheduler runs the producer goroutine whenever it can proceed;
\* the caller is under no obligation to read or to abort.
Spec == Init /\ [][Next]_vars /\ WF_vars(Producer)

=============================================================================
