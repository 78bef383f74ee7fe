----------------------------- MODULE ObjectPipe -----------------------------
(***************************************************************************)
(* ObjectPipe of python/wiry/supersocket.py: a deque of objects, and an    *)
(* operating-system pipe that carries one byte for each so that select can *)
(* wait for them.  send appends the object and then writes the byte: two   *)
(* steps another thread can come between.  recv blocks in the read of a    *)
(* byte and then pops; the bytes being alike, a reader that has its byte   *)
(* but not yet its object is no different from one that reads it later, so *)
(* recv is one step.                                                       *)
(***************************************************************************)
EXTENDS Naturals, Sequences

Empty == [queue |-> <<>>, bytes |-> 0]

\* send, first half.
Appended(pipe, obj) == [pipe EXCEPT !.queue = Append(@, obj)]

\* send, second half.
Written(pipe) == [pipe EXCEPT !.bytes = @ + 1]

\* What select waits for; recv returns only then.
Readable(pipe) == pipe.bytes > 0

\* What recv returns, and leaves.
First(pipe) == Head(pipe.queue)

\* Mutant: the object is popped and its byte left in the pipe.
PoppedUnread(pipe) == [pipe EXCEPT !.queue = Tail(@)]
Popped(pipe) == [queue |-> Tail(pipe.queue), bytes |-> pipe.bytes - 1]

\* empty() looks at the deque, not at the pipe.
IsEmpty(pipe) == pipe.queue = <<>>
=============================================================================
