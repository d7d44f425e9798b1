---------------------------- MODULE MessageHandler ----------------------------
(***************************************************************************)
(* rockets/ws/messageHandler.cpp: from the fragments in which              *)
(* libwebsockets delivers the messages of the connections to the messages  *)
(* the application is given.  One handler, with one buffer, serves all     *)
(* connections of a server; a ws::Client has one for its connection.       *)
(*                                                                         *)
(* A fragment is <<message, part, parts>>; how a message is cut into parts *)
(* is libwebsockets' choice.                                               *)
(***************************************************************************)
EXTENDS Naturals, Sequences

CONSTANTS
  Conns,        \* the connections the handler serves
  MaxParts,     \* bound: the fragments of a message
  MaxMessages,  \* bound: the messages that are sent
  MayBreak,     \* a connection may close in the middle of a message
  None          \* no message

VARIABLES
  open,         \* the connections that are open
  arriving,     \* the message that arrives at a connection: [msg, part, parts]
                \* of its last fragment, or None
  messages,     \* messages that have begun to arrive
  buffer,       \* _buffer
  given,        \* what the application was given last
  client        \* and on behalf of which connection

vars == <<open, arriving, messages, buffer, given, client>>

Part(m, i, n) == [msg |-> m, part |-> i, parts |-> n]

Init ==
  /\ open = {}
  /\ arriving = [c \in Conns |-> None]
  /\ messages = 0
  /\ buffer = <<>>
  /\ given = <<>>
  /\ client = None

\* Variant: the buffer is emptied only by moving it into a request.
EmptiedIfHandled(handled, content) == IF handled THEN <<>> ELSE content

\* After the last fragment the buffer is empty: moved into the Request for the
\* callback, or cleared when no callback handles messages of this format.
Emptied(handled, content) == <<>>

\* handleMessage() with fragment f of connection c.
HandleMessage(c, f, handled) ==
  IF f.part < f.parts
    THEN /\ arriving' = [arriving EXCEPT ![c] = f]
         /\ buffer' = Append(buffer, f)
         /\ UNCHANGED <<given, client>>
    ELSE /\ arriving' = [arriving EXCEPT ![c] = None]
         /\ buffer' = Emptied(handled, Append(buffer, f))
         /\ IF handled THEN /\ given' = Append(buffer, f)
                            /\ client' = c
                       ELSE UNCHANGED <<given, client>>

FirstFragment(c) ==
  /\ c \in open
  /\ arriving[c] = None
  /\ messages < MaxMessages
  /\ messages' = messages + 1
  /\ \E n \in 1 .. MaxParts, handled \in BOOLEAN :
       HandleMessage(c, Part(messages + 1, 1, n), handled)
  /\ UNCHANGED open

NextFragment(c) ==
  /\ arriving[c] # None
  /\ \E handled \in BOOLEAN :
       HandleMessage(c, [arriving[c] EXCEPT !.part = @ + 1], handled)
  /\ UNCHANGED <<open, messages>>

HandleOpenConnection(c) ==
  /\ c \notin open
  /\ open' = open \cup {c}
  /\ UNCHANGED <<arriving, messages, buffer, given, client>>

\* handleCloseConnection() leaves the buffer alone.
HandleCloseConnection(c) ==
  /\ c \in open
  /\ arriving[c] = None \/ MayBreak
  /\ open' = open \ {c}
  /\ arriving' = [arriving EXCEPT ![c] = None]
  /\ UNCHANGED <<messages, buffer, given, client>>

Next ==
  \E c \in Conns : \/ FirstFragment(c) \/ NextFragment(c)
                   \/ HandleOpenConnection(c) \/ HandleCloseConnection(c)

Spec == Init /\ [][Next]_vars

-----------------------------------------------------------------------------
(***************************************************************************)
(* Properties.                                                             *)
(***************************************************************************)
Fragment == [msg : 1 .. MaxMessages, part : 1 .. MaxParts, parts : 1 .. MaxParts]

\* Every variable has its type.
TypeOK ==
  /\ open \subseteq Conns
  /\ arriving \in [Conns -> Fragment \cup {None}]
  /\ messages \in 0 .. MaxMessages
  /\ buffer \in Seq(Fragment)
  /\ given \in Seq(Fragment)
  /\ client \in Conns \cup {None}

\* The fragments of one message, all of them, in order.
Whole(s) == \A i \in DOMAIN s : s[i] = Part(s[1].msg, i, Len(s))

\* messageHandler.cpp:41, tests/websockets.cpp:276: the application is given
\* messages as they were sent, however they were cut on the way.
WholeMessages == Whole(given)
=============================================================================
