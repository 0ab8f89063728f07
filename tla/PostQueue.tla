------------------------------ MODULE PostQueue ------------------------------
(***************************************************************************)
(* What Http::Dispatcher::post promises its callers, on whatever thread    *)
(* and however early: one FIFO queue, into which each closure is put once  *)
(* and out of which the main thread takes each closure once.               *)
(***************************************************************************)
EXTENDS Sequences

CONSTANTS Threads, Closures, NoCall

VARIABLES
  call,   \* call[t]: the closure thread t is in the middle of posting
  queue   \* the closures posted and not yet run

vars == <<call, queue>>

Init ==
  /\ call  = [t \in Threads |-> NoCall]
  /\ queue = <<>>

\* Thread t calls post with a closure.
Begin(t) ==
  /\ call[t] = NoCall
  /\ \E c \in Closures : call' = [call EXCEPT ![t] = c]
  /\ UNCHANGED queue

\* The closure is queued and post returns.
Put(t) ==
  /\ call[t] # NoCall
  /\ queue' = Append(queue, call[t])
  /\ call' = [call EXCEPT ![t] = NoCall]

\* The main thread runs the oldest closure.
Take ==
  /\ queue # <<>>
  /\ queue' = Tail(queue)
  /\ UNCHANGED call

Next == (\E t \in Threads : Begin(t) \/ Put(t)) \/ Take

Spec == Init /\ [][Next]_vars
=============================================================================
