------------------------------ MODULE Requester ------------------------------
(***************************************************************************)
(* The client side of JSON-RPC in Rockets: rockets/jsonrpc/requester.cpp   *)
(* and clientRequest.h, used by jsonrpc::Client over a communicator.       *)
(*                                                                         *)
(* A Requester numbers its requests, keeps the callback of each of them    *)
(* until the response with its number arrives, and answers those that are  *)
(* left when it is destroyed.  Everything runs on one thread, but not one  *)
(* call at a time: a communicator may deliver the response from within     *)
(* _send() (HttpCommunicator does when the request cannot be made, and so  *)
(* do the communicators of the tests), and a callback may issue a request. *)
(* The stack of calls in progress is therefore part of the state.          *)
(* Callbacks of the application let no exception out.                      *)
(***************************************************************************)
EXTENDS Integers, Sequences

CONSTANTS
  Requests,   \* the calls of request() the application makes, once each
  MaxDepth,   \* bound: calls in progress at the same time
  MaxId,      \* the largest size_t
  None        \* no id

ASSUME RequesterAssumption ==
  /\ MaxDepth \in Nat
  /\ MaxId \in Nat
  /\ None \notin Int

VARIABLES
  lastId,     \* Impl::lastId, the id of the next request
  idOf,       \* the id in the message of a request, None if there is none
  pending,    \* Impl::pendingRequests: the requests whose callback waits under
              \* their id
  stack,      \* the calls in progress, the innermost first
  handle,     \* the id request() returned, which ClientRequest keeps
  cancelled,  \* the requests the application has cancelled by their handle
  cancelSent, \* the ids in the cancel notifications it sent by that
  calls,      \* how often the callback of a request has been called
  life,       \* "alive", "destroying", "destroyed", or "terminated" with the
              \* whole program
  at          \* the id the destructor has come to

vars == <<lastId, idOf, pending, stack, handle, cancelled, cancelSent, calls, life, at>>

\* A call in progress: request() inside of _send() or of the callback it calls
\* for invalid parameters, processResponse() or the destructor inside of a callback.
Frame == [call : {"send", "reject", "respond", "destroy"}, req : Requests]

Running(call, r) ==
  /\ life # "terminated"
  /\ stack # <<>> /\ Head(stack) = [call |-> call, req |-> r]

\* The application runs: from the event loop, or inside of a callback.
ApplicationRuns ==
  IF stack = <<>> THEN life = "alive"
                  ELSE life # "terminated" /\ Head(stack).call # "send"

Call(call, r) ==
  /\ Len(stack) < MaxDepth
  /\ stack' = <<[call |-> call, req |-> r]>> \o stack

Init ==
  /\ lastId = 0
  /\ idOf = [r \in Requests |-> None]
  /\ pending = {}
  /\ stack = <<>>
  /\ handle = [r \in Requests |-> None]
  /\ cancelled = {}
  /\ cancelSent = {}
  /\ calls = [r \in Requests |-> 0]
  /\ life = "alive"
  /\ at = -1

Made(r) == idOf[r] # None \/ handle[r] # None \/ \E i \in DOMAIN stack : stack[i].req = r

-----------------------------------------------------------------------------
(***************************************************************************)
(* request()                                                               *)
(***************************************************************************)

\* Variant: the callback is not kept.
RequestForgotten(r) ==
  /\ life = "alive" /\ ApplicationRuns /\ ~Made(r)
  /\ idOf' = [idOf EXCEPT ![r] = lastId]
  /\ lastId' = lastId + 1
  /\ Call("send", r)
  /\ UNCHANGED <<pending, handle, calls, life, at, cancelled, cancelSent>>

\* The parameters are valid: the callback is kept and _send() is entered.
Request(r) ==
  /\ life = "alive" /\ ApplicationRuns /\ ~Made(r)
  /\ idOf' = [idOf EXCEPT ![r] = lastId]
  /\ pending' = pending \cup {r}
  /\ lastId' = lastId + 1
  /\ Call("send", r)
  /\ UNCHANGED <<handle, calls, life, at, cancelled, cancelSent>>

\* The parameters cannot be parsed: the callback is called at once.
Reject(r) ==
  /\ ApplicationRuns /\ ~Made(r)
  /\ calls' = [calls EXCEPT ![r] = @ + 1]
  /\ Call("reject", r)
  /\ UNCHANGED <<lastId, idOf, pending, handle, life, at, cancelled, cancelSent>>

\* _impl->lastId - 1, a size_t.
LastMade == IF lastId = 0 THEN MaxId ELSE lastId - 1

\* request() returns, from _send() or from the callback of a rejected request.
RequestReturns(r) ==
  /\ Running("send", r) \/ Running("reject", r)
  /\ stack' = Tail(stack)
  /\ handle' = [handle EXCEPT ![r] = LastMade]
  /\ UNCHANGED <<lastId, idOf, pending, calls, life, at, cancelled, cancelSent>>

\* What the communicator delivers inside of _send() is a message whose "jsonrpc"
\* is no string, or the name of the method is not UTF-8: the type_error leaves
\* processResponse(), or dump(), and request().
SendThrows(r) ==
  /\ Running("send", r)
  /\ stack' = Tail(stack)
  /\ UNCHANGED <<lastId, idOf, pending, handle, calls, life, at, cancelled, cancelSent>>

-----------------------------------------------------------------------------
(***************************************************************************)
(* processResponse()                                                       *)
(***************************************************************************)

\* Variant: the entry is erased before the callback is called.
RespondErased(r) ==
  /\ life = "alive"
  /\ stack = <<>> \/ Running("send", r)
  /\ r \in pending
  /\ pending' = pending \ {r}
  /\ calls' = [calls EXCEPT ![r] = @ + 1]
  /\ Call("respond", r)
  /\ UNCHANGED <<lastId, idOf, handle, life, at, cancelled, cancelSent>>

\* A response with the id of r, from the event loop or from inside of the
\* _send() of r, finds the entry of r and calls its callback.  A response with
\* any other id, a repeated one for example, finds nothing and changes nothing,
\* and one that makes processResponse() throw changes nothing either.
Respond(r) ==
  /\ life = "alive"
  /\ stack = <<>> \/ Running("send", r)
  /\ r \in pending
  /\ calls' = [calls EXCEPT ![r] = @ + 1]
  /\ Call("respond", r)
  /\ UNCHANGED <<lastId, idOf, pending, handle, life, at, cancelled, cancelSent>>

\* Variant: the entry is kept.
CallbackReturnsOnly(r) ==
  /\ Running("respond", r)
  /\ stack' = Tail(stack)
  /\ UNCHANGED <<lastId, idOf, pending, handle, calls,
                 life, at, cancelled, cancelSent>>

\* The callback returns and its entry is erased.
CallbackReturns(r) ==
  /\ Running("respond", r)
  /\ stack' = Tail(stack)
  /\ pending' = pending \ {r}
  /\ UNCHANGED <<lastId, idOf, handle, calls, life, at, cancelled, cancelSent>>

-----------------------------------------------------------------------------
(***************************************************************************)
(* ~Requester(), called from the event loop, and cancel().                 *)
(***************************************************************************)
Destroy ==
  /\ life = "alive"
  /\ stack = <<>>
  /\ life' = "destroying"
  /\ UNCHANGED <<lastId, idOf, pending, stack, handle, cancelled, cancelSent, calls, at>>

\* The entries the destructor has yet to come to, in the order of their ids.
Left == {r \in pending : idOf[r] > at}

\* The destructor calls the callback of the next one.
DestructorCalls(r) ==
  /\ life = "destroying"
  /\ stack = <<>>
  /\ r \in Left /\ \A s \in Left : idOf[r] <= idOf[s]
  /\ at' = idOf[r]
  /\ calls' = [calls EXCEPT ![r] = @ + 1]
  /\ Call("destroy", r)
  /\ UNCHANGED <<lastId, idOf, pending, handle, cancelled, cancelSent, life>>

DestructorGoesOn(r) ==
  /\ Running("destroy", r)
  /\ stack' = Tail(stack)
  /\ UNCHANGED <<lastId, idOf, pending, handle, calls, life, at, cancelled, cancelSent>>

DestructorReturns ==
  /\ life = "destroying"
  /\ stack = <<>> /\ Left = {}
  /\ life' = "destroyed"
  /\ UNCHANGED <<lastId, idOf, pending, stack, handle, cancelled, cancelSent, calls, at>>

\* A request or a cancel from a callback of the destructor: _send() is of a class
\* that is destroyed already, and the call of a pure virtual ends the program.
PureVirtualSend ==
  /\ life = "destroying"
  /\ stack # <<>> /\ ApplicationRuns
  /\ life' = "terminated"
  /\ UNCHANGED <<lastId, idOf, pending, stack, handle, cancelled, cancelSent, calls, at>>

\* ClientRequest::cancel(): notify("cancel", ...) with the id of the handle.
Cancel(r) ==
  /\ life = "alive" /\ ApplicationRuns
  /\ handle[r] # None
  /\ cancelled' = cancelled \cup {r}
  /\ cancelSent' = cancelSent \cup {handle[r]}
  /\ UNCHANGED <<lastId, idOf, pending, stack, handle, calls, life, at>>

Next ==
  \/ \E r \in Requests :
       \/ Request(r) \/ Reject(r) \/ RequestReturns(r) \/ SendThrows(r)
       \/ Respond(r) \/ CallbackReturns(r) \/ Cancel(r)
       \/ DestructorCalls(r) \/ DestructorGoesOn(r)
  \/ Destroy \/ DestructorReturns \/ PureVirtualSend

Spec == Init /\ [][Next]_vars

-----------------------------------------------------------------------------
(***************************************************************************)
(* Properties.                                                             *)
(***************************************************************************)

\* Every variable has its type; an id is a size_t.
TypeOK ==
  /\ lastId \in Nat
  /\ idOf \in [Requests -> Nat \cup {None}]
  /\ pending \subseteq Requests
  /\ stack \in Seq(Frame)
  /\ handle \in [Requests -> Nat \cup {None}]
  /\ cancelled \subseteq Requests
  /\ cancelSent \subseteq Nat
  /\ calls \in [Requests -> Nat]
  /\ life \in {"alive", "destroying", "destroyed", "terminated"}
  /\ at \in Int

\* requester.cpp:151: however calls nest and however often a response arrives,
\* the callback of a request, which sets a promise, is called at most once.
CallbackOnce == \A r \in Requests : calls[r] <= 1

\* requester.cpp:100: a request that was sent is answered or can still be, and
\* when the destructor has returned none is left waiting.
NoneForgotten ==
  \A r \in Requests :
    idOf[r] # None /\ calls[r] = 0 => r \in pending /\ life # "destroyed"

\* requester.cpp:127: ids are never given out twice, also by nested requests,
\* so that a response finds the callback of its own request.
IdsUnique ==
  \A r, s \in Requests : idOf[r] = idOf[s] /\ idOf[r] # None => r = s

\* requester.cpp:152: the iterator that processResponse() erases after the
\* callback still points to its entry, and to no entry of an outer call; that of
\* the destructor still points to an entry, which has been called once.
IteratorValid ==
  \A i \in DOMAIN stack : stack[i].call \in {"respond", "destroy"} =>
    /\ stack[i].req \in pending
    /\ \A j \in DOMAIN stack :
         stack[j].call \in {"respond", "destroy"} /\ stack[j].req = stack[i].req => j = i

\* requester.h:61 "@return ID of the request", which ClientRequest::cancel()
\* sends: a cancel names the request it was issued for, and never another one.
CancelNamesItsRequest ==
  \A r \in Requests : idOf[r] \in cancelSent => r \in cancelled
=============================================================================
