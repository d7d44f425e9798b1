------------------------------- MODULE WsServer -------------------------------
(***************************************************************************)
(* How the messages of a WebSocket server leave it: rockets/server.cpp,    *)
(* serviceThreadPool.cpp and ws/connection.cpp.                            *)
(*                                                                         *)
(* Every connection has a queue `out' that a thread of the application, or *)
(* a callback on a service thread, appends to, and that the service thread *)
(* which libwebsockets assigned the connection to empties when its socket  *)
(* is writable.  libwebsockets calls back only for sockets somebody asked  *)
(* to write to (lws_callback_on_writable), and must be asked from a        *)
(* service thread: a sender sets a flag per thread that the thread looks   *)
(* at between two calls of lws_service_tsi().  Messages are counted, their *)
(* contents do not matter.                                                 *)
(***************************************************************************)
EXTENDS Naturals

CONSTANTS
  Conns,      \* WebSocket connections
  Threads,    \* service threads
  Senders,    \* threads of the application that call broadcast*(), sendText()
  Owner,      \* the service thread libwebsockets runs a connection on
  MaxSends,   \* bound: messages
  None        \* nobody

ASSUME ServerAssumption ==
  /\ Owner \in [Conns -> Threads]
  /\ MaxSends \in Nat
  /\ Threads \cap Senders = {}
  /\ None \notin Threads \cup Senders

VARIABLES
  mutex,      \* wsConnectionsMutex: the sender that owns it; a service thread
              \* takes and releases it within a step
  open,       \* wsConnections
  out,        \* the number of messages in the queue of a connection
  wants,      \* libwebsockets has been asked for a writable callback
  flag,       \* broadcastRequested[tsi]
  todo,       \* the flags a sender has yet to set
  pc,         \* where a service thread is in its loop
  exit,       \* exitService
  sends,      \* messages so far
  pool        \* serviceThreadPool is there; otherwise the application polls the
              \* server, and is the one sender

vars == <<mutex, open, out, wants, flag, todo, pc, exit, sends, pool>>

\* std::atomic_bool[] leaves the flags without a value.
Init ==
  /\ mutex = None
  /\ open = {}
  /\ out = [c \in Conns |-> 0]
  /\ wants = [c \in Conns |-> FALSE]
  /\ flag \in [Threads -> BOOLEAN]
  /\ todo = [a \in Senders |-> {}]
  /\ pc = [t \in Threads |-> "service"]
  /\ exit = FALSE
  /\ sends = 0
  /\ pool \in BOOLEAN

\* enqueueText() or enqueueBinary() on the connections in C.
Enqueue(C) ==
  /\ sends < MaxSends
  /\ sends' = sends + 1
  /\ out' = [c \in Conns |-> IF c \in C THEN out[c] + 1 ELSE out[c]]

\* lws_callback_on_writable() for the connections in C.
RequestWrite(C) == wants' = [c \in Conns |-> c \in C \/ wants[c]]

-----------------------------------------------------------------------------
(***************************************************************************)
(* broadcastText(), broadcastBinary() and sendText() of the Server, to all *)
(* connections, all but some, or one: any C.                               *)
(***************************************************************************)

\* Variant: one flag is enough, for libwebsockets marks all connections.
FlagsOfFirst == {CHOOSE t \in Threads : TRUE}

\* ServiceThreadPool::requestBroadcast(): the flags that are set.
FlagsToSet == Threads

Broadcast(a, C) ==
  /\ pool
  /\ mutex = None
  /\ Enqueue(C)
  /\ mutex' = a
  /\ todo' = [todo EXCEPT ![a] = FlagsToSet]
  /\ UNCHANGED <<open, wants, flag, pc, exit, pool>>

SetFlag(a, t) ==
  /\ t \in todo[a]
  /\ flag' = [flag EXCEPT ![t] = TRUE]
  /\ todo' = [todo EXCEPT ![a] = @ \ {t}]
  /\ UNCHANGED <<mutex, open, out, wants, pc, exit, sends, pool>>

BroadcastReturns(a) ==
  /\ mutex = a
  /\ todo[a] = {}
  /\ mutex' = None
  /\ UNCHANGED <<open, out, wants, flag, todo, pc, exit, sends, pool>>

\* Without service threads the context is asked directly.
BroadcastPolled(C) ==
  /\ ~pool
  /\ Enqueue(C)
  /\ RequestWrite(open)
  /\ UNCHANGED <<mutex, open, flag, todo, pc, exit, pool>>

-----------------------------------------------------------------------------
(***************************************************************************)
(* Callbacks of libwebsockets, under the mutex, on the thread that owns    *)
(* the connection.                                                         *)
(***************************************************************************)
InCallback(t, c) == pc[t] = "service" /\ Owner[c] = t /\ mutex = None

\* openWsConnection(): the callback of the application may greet the client.
Open(t, c) ==
  /\ InCallback(t, c)
  /\ c \notin open
  /\ open' = open \cup {c}
  /\ \/ UNCHANGED <<out, wants, sends>>
     \/ Enqueue({c}) /\ RequestWrite({c})
  /\ UNCHANGED <<mutex, flag, todo, pc, exit, pool>>

\* handleReceive() with a reply to the sender, to all others or to all: any C.
Receive(t, c, C) ==
  /\ InCallback(t, c)
  /\ c \in open
  /\ Enqueue(C)
  /\ RequestWrite(C)
  /\ UNCHANGED <<mutex, open, flag, todo, pc, exit, pool>>

\* Variant: a choked socket is not asked for again.
AskAgainNever(left) == FALSE

\* writeMessages(): a callback is requested for what the socket did not take.
AskAgain(left) == left > 0

\* handleWrite(): the socket takes some messages or, when it is choked, none.
Write(t, c, taken) ==
  /\ InCallback(t, c)
  /\ c \in open
  /\ wants[c]
  /\ taken <= out[c]
  /\ out' = [out EXCEPT ![c] = @ - taken]
  /\ wants' = [wants EXCEPT ![c] = AskAgain(out[c] - taken)]
  /\ UNCHANGED <<mutex, open, flag, todo, pc, exit, sends, pool>>

\* closeWsConnection(); a reply of the close callback to the others: any C.
Close(t, c, C) ==
  /\ InCallback(t, c)
  /\ c \in open
  /\ open' = open \ {c}
  /\ \/ /\ out' = [out EXCEPT ![c] = 0]
        /\ wants' = [wants EXCEPT ![c] = FALSE]
        /\ UNCHANGED sends
     \/ /\ sends < MaxSends
        /\ sends' = sends + 1
        /\ out' = [d \in Conns |-> IF d = c THEN 0
                                   ELSE IF d \in C THEN out[d] + 1 ELSE out[d]]
        /\ wants' = [d \in Conns |-> d # c /\ (d \in C \/ wants[d])]
  /\ UNCHANGED <<mutex, flag, todo, pc, exit, pool>>

-----------------------------------------------------------------------------
(***************************************************************************)
(* The loop of a service thread.                                           *)
(***************************************************************************)
Goto(t, label) == pc' = [pc EXCEPT ![t] = label]

\* Variant: the loop does not look at exitService.
ServiceReturnsAlways(t) ==
  /\ pool
  /\ pc[t] = "service"
  /\ Goto(t, IF flag[t] THEN "mark" ELSE "service")
  /\ UNCHANGED <<mutex, open, out, wants, flag, todo, exit, sends, pool>>

\* lws_service_tsi() returns, after 50 ms at the latest.
ServiceReturns(t) ==
  /\ pool
  /\ pc[t] = "service"
  /\ Goto(t, IF exit THEN "done" ELSE IF flag[t] THEN "mark" ELSE "service")
  /\ UNCHANGED <<mutex, open, out, wants, flag, todo, exit, sends, pool>>

\* lws_service_tsi() returns an error, and the thread ends: nobody serves its
\* connections any more.
ServiceFails(t) ==
  /\ pool
  /\ pc[t] = "service"
  /\ Goto(t, "done")
  /\ UNCHANGED <<mutex, open, out, wants, flag, todo, exit, sends, pool>>

\* handleBroadcastRequest(): lws_callback_on_writable_all_protocol() asks for
\* the connections of all threads.
Mark(t) ==
  /\ pc[t] = "mark"
  /\ RequestWrite(open)
  /\ Goto(t, "clear")
  /\ UNCHANGED <<mutex, open, out, flag, todo, exit, sends, pool>>

ClearFlag(t) ==
  /\ pc[t] = "clear"
  /\ flag' = [flag EXCEPT ![t] = FALSE]
  /\ Goto(t, "service")
  /\ UNCHANGED <<mutex, open, out, wants, todo, exit, sends, pool>>

\* stop(), from the destructor: no sender is left.
Stop ==
  /\ pool
  /\ ~exit
  /\ mutex = None
  /\ exit' = TRUE
  /\ UNCHANGED <<mutex, open, out, wants, flag, todo, pc, sends, pool>>

Sending ==
  \/ \E a \in Senders : \/ \E C \in SUBSET open : ~exit /\ Broadcast(a, C)
                        \/ \E t \in Threads : SetFlag(a, t)
                        \/ BroadcastReturns(a)
  \/ \E C \in SUBSET open : BroadcastPolled(C)

Callback(t) ==
  \E c \in Conns : \/ Open(t, c)
                   \/ \E C \in SUBSET open : Receive(t, c, C) \/ Close(t, c, C)
                   \/ \E n \in 0 .. MaxSends : Write(t, c, n)

Loop(t) == ServiceReturns(t) \/ ServiceFails(t) \/ Mark(t) \/ ClearFlag(t)

Next == Sending \/ (\E t \in Threads : Callback(t) \/ Loop(t)) \/ Stop

Spec == Init /\ [][Next]_vars

\* A sender in the middle of broadcast*() goes on, a service thread runs its
\* loop, and a connection that is asked for gets its callback again and again
\* with room in the socket: the other side reads.
Fairness ==
  /\ \A a \in Senders : /\ WF_vars(\E t \in Threads : SetFlag(a, t))
                        /\ WF_vars(BroadcastReturns(a))
  /\ \A t \in Threads : WF_vars(ServiceReturns(t) \/ Mark(t) \/ ClearFlag(t))
  /\ \A c \in Conns :
       SF_vars(\E n \in 1 .. MaxSends : Write(Owner[c], c, n))

FairSpec == Spec /\ Fairness

-----------------------------------------------------------------------------
(***************************************************************************)
(* Properties.                                                             *)
(***************************************************************************)

\* Every variable has its type.
TypeOK ==
  /\ mutex \in Senders \cup {None}
  /\ open \subseteq Conns
  /\ out \in [Conns -> Nat]
  /\ wants \in [Conns -> BOOLEAN]
  /\ flag \in [Threads -> BOOLEAN]
  /\ todo \in [Senders -> SUBSET Threads]
  /\ pc \in [Threads -> {"service", "mark", "clear", "done"}]
  /\ exit \in BOOLEAN
  /\ sends \in Nat
  /\ pool \in BOOLEAN

\* serviceThreadPool.cpp:65: a flag that is set while its thread clears it is
\* lost, and so is a callback that was consumed before the flag was set; but
\* never both: for every queued message the owner of the connection has been
\* asked for a callback, or is going to ask.
NoLostWakeup ==
  \A c \in open : out[c] > 0 /\ pc[Owner[c]] # "done" =>
    \/ wants[c]
    \/ flag[Owner[c]] /\ pc[Owner[c]] # "clear"
    \/ \E a \in Senders : Owner[c] \in todo[a]

\* Every queued message is written to its connection, or the connection, its
\* service thread or the server goes away.
Delivered == \A c \in Conns : out[c] > 0 ~> (out[c] = 0 \/ exit \/ pc[Owner[c]] = "done")

\* stop() can join the service threads.
StopReturns == exit ~> \A t \in Threads : pc[t] = "done"
=============================================================================
