------------------------------ MODULE HttpRouting ------------------------------
(***************************************************************************)
(* HttpServer with its endpoints: http/registry.cpp and what               *)
(* _generateResponse() of http/connectionHandler.cpp makes of it, while    *)
(* the application registers and removes endpoints between the callbacks   *)
(* of libwebsockets.                                                       *)
(*                                                                         *)
(* Endpoints and paths are sequences, of characters or of longer pieces    *)
(* that are never divided.                                                 *)
(***************************************************************************)
EXTENDS HttpServer, SequencesExt

CONSTANTS
  Characters,   \* what endpoints and paths are made of
  Methods,      \* the methods that endpoints are registered for
  Names,        \* the endpoints that may be registered
  Paths,        \* the paths of requests, without their leading slash
  Slash,        \* the character '/'
  Registry,     \* the path "registry"
  MaxEndpoints  \* bound: the endpoints that are registered at a time

\* The slashes at the beginning of a path are one to libwebsockets, which is
\* taken away; server.cpp:166 refuses to register "registry".
ASSUME RoutingAssumption ==
  /\ Names \cup Paths \subseteq Seq(Characters)
  /\ Slash \in Characters
  /\ Registry \notin Names
  /\ \A p \in Paths : p # <<>> => Head(p) # Slash
  /\ MaxEndpoints \in Nat

VARIABLES
  registry,  \* the endpoints registered for each method
  path,      \* the path of the request in an entry, before overwriteRequestPath()
  route      \* who answers it, and if it is an endpoint, which, and what it
             \* finds in the path of the request

routingVars == <<vars, registry, path, route>>

Root == <<Slash>>
Unrouted == [by |-> "none", endpoint |-> <<>>, rest |-> <<>>]

RoutingInit ==
  /\ Init
  /\ registry = [m \in Methods |-> {}]
  /\ path = [w \in Wsis |-> <<>>]
  /\ route = [w \in Wsis |-> Unrouted]

-----------------------------------------------------------------------------
(***************************************************************************)
(* The search.                                                             *)
(***************************************************************************)
\* _methods[size_t(method)], for one of the six methods it is an array for.
Registered(m) == IF m \in Methods THEN registry[m] ELSE {}

BeginsWith(p, e) == IF e = <<>> THEN p = <<>> ELSE IsPrefix(e, p)

\* Variant: the map is ordered by std::less.
FindShortest(m, p) ==
  LET Found == {e \in Registered(m) : BeginsWith(p, e)}
  IN  {e \in Found : \A f \in Found : Len(e) <= Len(f)}

\* _find(): of all prefixes of one path the longest is the first in the order
\* of std::greater.
Find(m, p) ==
  LET Found == {e \in Registered(m) : BeginsWith(p, e)}
  IN  {e \in Found : \A f \in Found : Len(f) <= Len(e)}

\* findEndpoint(): the one that was found, if any.
FindEndpoint(m, p) ==
  IF Find(m, p) # {} THEN Find(m, p) ELSE Registered(m) \cap {Root}

RemoveEndpointFromPath(e, p) ==
  IF e = Root THEN p ELSE SubSeq(p, Len(e) + 1, Len(p))

Serves(e, p) == RemoveEndpointFromPath(e, p) = <<>> \/ Last(e) = Slash

AllowedMethods(p) == {m \in Methods : p \in registry[m]}

By(who) == [Unrouted EXCEPT !.by = who]

\* _generateResponse() for method m and path p.
GenerateResponse(m, p, filtered) ==
  LET Serving == {e \in FindEndpoint(m, p) : Serves(e, p)} IN
  CASE filtered -> By("filter")
    [] ~filtered /\ m = "GET" /\ p = Registry -> By("registry")
    [] ~filtered /\ ~(m = "GET" /\ p = Registry) /\ Serving # {} ->
         LET e == CHOOSE x \in Serving : TRUE
         IN  [by |-> "endpoint", endpoint |-> e, rest |-> RemoveEndpointFromPath(e, p)]
    [] OTHER -> By(IF AllowedMethods(p) = {} THEN "not found" ELSE "not supported")

\* What a request is routed to: for Method::ALL the search reads behind the
\* array, where it finds nothing or, it may be, some endpoint.
Routings(m, p) ==
  {GenerateResponse(m, p, filtered) : filtered \in BOOLEAN}
    \cup (IF m = "ALL" THEN {By("endpoint")} ELSE {})

-----------------------------------------------------------------------------
(***************************************************************************)
(* Steps.                                                                  *)
(***************************************************************************)

\* In this step a request arrives at w; the response to one is generated.
Arrives(w) == connections[w] = None /\ connections'[w] # None
Generates(w) ==
  /\ connections'[w] # None
  /\ connections'[w].set
  /\ connections[w] = None \/ ~connections[w].set

\* The application is called if an endpoint was found.
Routes(w) ==
  IF Generates(w)
    THEN /\ \E to \in Routings(connections'[w].request.method, path'[w]) :
              route' = [route EXCEPT ![w] = to]
         /\ calls'[w] = IF route'[w].by = "endpoint" THEN 1 ELSE 0
    ELSE route' = IF Arrives(w) \/ connections'[w] = None
                    THEN [route EXCEPT ![w] = Unrouted] ELSE route

\* The path is the one of the request in connections, and gone with it.
KeepsPath(w) ==
  IF Arrives(w) THEN \E p \in Paths : path' = [path EXCEPT ![w] = p]
  ELSE path' = IF connections'[w] = None THEN [path EXCEPT ![w] = <<>>] ELSE path

\* A callback of libwebsockets for connection w, or a promise that is kept.
Callback(w) ==
  /\ Next
  /\ \A v \in Wsis \ {w} : connections'[v] = connections[v] /\ phase'[v] = phase[v]
  /\ KeepsPath(w)
  /\ Routes(w)
  /\ UNCHANGED registry

\* Server::handle(), Registry::add()
AddEndpoint(m, e) ==
  /\ Running
  /\ e \notin registry[m]
  /\ Cardinality(UNION {{<<n, f>> : f \in registry[n]} : n \in Methods}) < MaxEndpoints
  /\ registry' = [registry EXCEPT ![m] = @ \cup {e}]
  /\ UNCHANGED <<vars, path, route>>

\* Server::remove(), Registry::remove()
RemoveEndpoint(e) ==
  /\ Running
  /\ AllowedMethods(e) # {}
  /\ registry' = [m \in Methods |-> registry[m] \ {e}]
  /\ UNCHANGED <<vars, path, route>>

RoutingNext ==
  \/ \E w \in Wsis : Callback(w)
  \/ \E e \in Names : RemoveEndpoint(e) \/ \E m \in Methods : AddEndpoint(m, e)

RoutingSpec == RoutingInit /\ [][RoutingNext]_routingVars /\ Fairness

-----------------------------------------------------------------------------
(***************************************************************************)
(* Properties.                                                             *)
(***************************************************************************)

\* The response that is generated for w in this step comes from the right place.
WellRouted(w) ==
  LET m == connections'[w].request.method
      p == path'[w]
      to == route'[w]
  IN
  /\ to.by = "endpoint" =>
       /\ to.endpoint \in Registered(m)
       /\ to.endpoint \o to.rest = p \/ (to.endpoint = Root /\ to.rest = p)
       /\ \A e \in Registered(m) : IsPrefix(e, p) => Len(e) <= Len(to.endpoint)
  /\ to.by \in {"not found", "not supported"} =>
       /\ p \notin Registered(m)
       /\ to.by = "not supported" <=> (\E n \in Methods : p \in Registered(n))

\* registry.h:61, "iterate from the most specific path", connectionHandler.cpp
\* :129, tests/http.cpp:603-626: a request is passed to the most specific of the
\* endpoints that are registered for its method when its response is generated,
\* which finds the rest of the path in it; an endpoint of exactly its path is
\* never passed over; and a method is called unsupported exactly if the path is
\* registered, for other methods only.  An endpoint that was found but does not
\* serve the path, a file of the name of a directory, leaves the request
\* unanswered; Method::ALL may reach anything.
CalledAsRegistered ==
  [][\A w \in Wsis :
       Generates(w) /\ connections'[w].request.method # "ALL"
         => WellRouted(w)]_routingVars

\* registry.cpp:90, "'/' should be passed all unhandled requests": it is not
\* passed those for which an endpoint was found that does not serve them.
UnhandledToRoot ==
  [][\A w \in Wsis :
       Generates(w) /\ route'[w].by \in {"not found", "not supported"}
         => Root \notin Registered(connections'[w].request.method)]_routingVars
===============================================================================
