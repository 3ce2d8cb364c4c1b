------------------------------ MODULE Services ------------------------------
(***************************************************************************)
(* What the example applications (src/app/internal) have in common. Each   *)
(* service keeps a map of values in its memory (module LocalStore) and     *)
(* serves endpoints; a handler calls other services and waits for each     *)
(* answer (Invoke, performRequest).                                        *)
(*                                                                         *)
(* A client has at most one request under way. call[c] is the stack of     *)
(* handlers that serve it, the innermost first; each one has the endpoint, *)
(* the decoded request, the place in its function where it is, the locals  *)
(* a later step needs, and the response of the last call it made. A step   *)
(* of a handler touches the state of its service at most once, so requests *)
(* interleave between any two reads and writes.                            *)
(***************************************************************************)
EXTENDS LocalStore

CONSTANTS Clients      \* each makes one request at a time

VARIABLES up,          \* the endpoints that are served, pairs <<service, endpoint>>
          call,        \* call[c]: the handlers that serve c's request
          answer       \* answer[c]: what c's last request came to

svars == <<up, call, answer>>

Idle(c) == call[c] = <<>>
Handlers(c) == {call[c][i] : i \in DOMAIN call[c]}
Serving(c, endpoint) == call[c] # <<>> /\ Head(call[c]).ep = endpoint
At(c, place) == Head(call[c]).at = place
Req(c) == Head(call[c]).req
My(c) == Head(call[c]).my
Res(c) == Head(call[c]).res

Frame(endpoint, request) ==
  [ep |-> endpoint, req |-> request, at |-> "start", my |-> <<>>, res |-> <<>>]

(* A client sends a request to one of the endpoints it uses. *)
Asks(c, endpoint, request) ==
  /\ Idle(c)
  /\ answer[c].ep = "none"
  /\ call' = [call EXCEPT ![c] = <<Frame(endpoint, request)>>]
  /\ UNCHANGED <<up, answer>>

(* A service that does not listen refuses the connection. *)
AsksServed(c, endpoint, request) ==
  (\E served \in up : served[2] = endpoint) /\ Asks(c, endpoint, request)

(* The handler goes on at place, with the locals my. *)
Goto(c, place, my) ==
  /\ call' = [call EXCEPT ![c] =
                <<[Head(@) EXCEPT !.at = place, !.my = my]>> \o Tail(@)]
  /\ UNCHANGED <<up, answer>>

(* The request of c has ended. *)
Ended(c, ok, response) ==
  LET first == call[c][Len(call[c])] IN
  /\ call' = [call EXCEPT ![c] = <<>>]
  /\ answer' = [answer EXCEPT ![c] =
                  [ep |-> first.ep, req |-> first.req, ok |-> ok, res |-> response]]
  /\ UNCHANGED up

(* A panic of a handler: net/http recovers it and drops the connection, so *)
(* the caller's HTTPClient.Do fails and the caller panics as well.         *)
Panic(c) == Ended(c, FALSE, <<>>)

Return(c, response) ==
  IF Len(call[c]) = 1
  THEN Ended(c, TRUE, response)
  ELSE /\ call' = [call EXCEPT ![c] =
                     <<[@[2] EXCEPT !.res = response]>> \o Tail(Tail(@))]
       /\ UNCHANGED <<up, answer>>

(* performRequest panics on a refused connection and on any status but OK, *)
(* which is what a path without a handler gets.                            *)
performRequest(c, service, endpoint, request, place, my) ==
  IF <<service, endpoint>> \in up
  THEN /\ call' = [call EXCEPT ![c] =
                     <<Frame(endpoint, request), [Head(@) EXCEPT !.at = place, !.my = my]>>
                       \o Tail(@)]
       /\ UNCHANGED <<up, answer>>
  ELSE Panic(c)

(* The handler calls an endpoint of a service and goes on at place, with   *)
(* its locals, or with the locals my.                                      *)
Invoke(c, service, endpoint, request, place) ==
  performRequest(c, service, endpoint, request, place, My(c))
InvokeWith(c, service, endpoint, request, place, my) ==
  performRequest(c, service, endpoint, request, place, my)

(* A service that has registered its handlers listens. *)
Listening(service) == \E endpoint \in up : endpoint[1] = service
Listen(service, endpoints) ==
  /\ ~Listening(service)
  /\ up' = up \cup ({service} \X endpoints)
  /\ UNCHANGED <<call, answer>>

(* A service that stops takes the requests it is handling with it: its     *)
(* callers lose their connections and panic.                               *)
Stop(service, endpoints) ==
  LET lost == {c \in Clients : \E f \in Handlers(c) : f.ep \in endpoints}
      First(c) == call[c][Len(call[c])]
  IN /\ Listening(service)
     /\ up' = {endpoint \in up : endpoint[1] # service}
     /\ call' = [c \in Clients |-> IF c \in lost THEN <<>> ELSE call[c]]
     /\ answer' = [c \in Clients |->
                     IF c \in lost
                     THEN [ep |-> First(c).ep, req |-> First(c).req, ok |-> FALSE, res |-> <<>>]
                     ELSE answer[c]]

-----------------------------------------------------------------------------
(* Reads of several keys, one per step, into the locals; done is what      *)
(* happens after the last one.                                             *)
GetBulkState(c, state, keys) ==
  LET n == Len(My(c)) + 1 IN
  /\ n <= Len(keys)
  /\ IF Has(state, keys[n])
     THEN Goto(c, Head(call[c]).at, Append(My(c), GetState(state, keys[n])))
     ELSE Panic(c)

GetBulkStateDefault(c, state, keys, default) ==
  LET n == Len(My(c)) + 1 IN
  /\ n <= Len(keys)
  /\ Goto(c, Head(call[c]).at,
          Append(My(c), IF Has(state, keys[n]) THEN GetState(state, keys[n])
                                               ELSE default))

AllRead(c, keys) == Len(My(c)) = Len(keys)

InitServices(Endpoints, late) ==
  /\ up = UNION {{s} \X Endpoints[s] : s \in DOMAIN Endpoints \ late}
  /\ call = [c \in Clients |-> <<>>]
  /\ answer = [c \in Clients |-> [ep |-> "none", req |-> <<>>, ok |-> FALSE, res |-> <<>>]]
=============================================================================
