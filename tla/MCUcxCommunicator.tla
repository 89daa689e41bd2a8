------------------------- MODULE MCUcxCommunicator -------------------------
(* UcxCommunicator for TLC.  *)
EXTENDS UcxCommunicator

CONSTANTS t1, t2, s1, v1, w1, w2

Use(thread_safe, threads, posts, calls, nesting) ==
    [thread_safe |-> thread_safe, threads |-> threads, posts |-> posts,
     cancels |-> calls, nesting |-> nesting, completed |-> FALSE]

Both(posts1, posts2) == [t \in {t1, t2} |-> IF t = t1 THEN posts1 ELSE posts2]

\* Two threads with a receive and a shared receive (which of the threads has
\* the receive makes no difference); one thread in single-threaded mode with a
\* send as well, more cancels and deeper nesting; two threads with a shared
\* receive each, whose callbacks meet at the recursion limit of the context.
BothModes == {Use(TRUE, {t1, t2}, Both({v1, w1}, {w1}), 1, 3),
              Use(FALSE, {t1}, [t \in {t1} |-> {s1, v1, w1}], 2, 4),
              Use(TRUE, {t1, t2}, Both({w1}, {w2}), 0, 3)}

\* Two shared receives and two cancels.
TwoShared == {Use(TRUE, {t1, t2}, Both({w1, w2}, {w1, w2}), 2, 3)}
============================================================================
