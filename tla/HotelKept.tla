------------------------------ MODULE HotelKept ------------------------------
(***************************************************************************)
(* The hotel services keep what they confirm: types, reservations that fit *)
(* their hotel, lists that lose nothing without a race, and hotels that    *)
(* are known everywhere once they are stored.                              *)
(***************************************************************************)
EXTENDS Hotel, DataLemmas

-----------------------------------------------------------------------------
(* The frames of the handlers. *)

Eps == DOMAIN RequestOf

\* The places of each handler, the endpoint that is called on the way to a
\* place, and the responses of all endpoints.
PlacesOf ==
  [ro_search_hotels |-> {"start", "gotNearby", "gotAvailable", "gotProfiles"},
   store_hotel |-> {"start", "storedLocation", "storedRate", "addedAvailability", "storedProfile"},
   reservation |-> {"start", "loggedIn", "reserved"},
   ro_nearby |-> {"start", "gotRates"}, store_hotel_location |-> {"start", "loaded"},
   ro_get_rates |-> {"start"}, store_rate |-> {"start"},
   ro_get_profiles |-> {"start"}, store_profile |-> {"start"},
   ro_check_availability |-> {"start", "checking"}, make_reservation |-> {"start", "checked"},
   add_hotel_availability |-> {"start"}, register_user |-> {"start"}, login |-> {"start"}]

Callee ==
  [gotNearby |-> "ro_nearby", gotAvailable |-> "ro_check_availability",
   gotProfiles |-> "ro_get_profiles", storedLocation |-> "store_hotel_location",
   storedRate |-> "store_rate", addedAvailability |-> "add_hotel_availability",
   storedProfile |-> "store_profile", loggedIn |-> "login",
   reserved |-> "make_reservation", gotRates |-> "ro_get_rates"]

ReplyOf ==
  [ro_search_hotels |-> SearchHotelsResponse, store_hotel |-> StoreHotelResponse,
   reservation |-> FrontendReservationResponse, ro_nearby |-> NearbyResponse,
   store_hotel_location |-> StoreHotelLocationResponse, ro_get_rates |-> GetRatesResponse,
   store_rate |-> StoreRateResponse, ro_get_profiles |-> GetProfilesResponse,
   store_profile |-> StoreProfileResponse, ro_check_availability |-> CheckAvailabilityResponse,
   make_reservation |-> MakeReservationResponse,
   add_hotel_availability |-> AddHotelAvailabilityResponse,
   register_user |-> RegisterUserResponse, login |-> LoginResponse]

\* What the reservation and the search service store: bounded lists, and no
\* reservation beyond the capacity.
GoodAvailability ==
  {hotel \in HotelAvailability : Len(hotel.reservations) <= MaxKept /\ Fits(hotel)}
GoodLocation == {list \in Seq(Hotels) : Len(list) <= MaxKept}

LocalsAt(ep, place) ==
  IF place = "checking" THEN Seq(Hotels) \X (Nat \ {0})
  ELSE IF place = "checked" THEN GoodAvailability
  ELSE IF place = "loaded" THEN GoodLocation
  ELSE IF ep = "ro_get_rates" THEN Seq(Rate)
  ELSE IF ep = "ro_get_profiles" THEN Seq(FoundProfile)
  ELSE {<<>>}

Places == UNION {PlacesOf[e] : e \in Eps}
Requests == UNION {RequestOf[e] : e \in Eps}
Locals == UNION {LocalsAt(e, p) : e \in Eps, p \in Places}
Results == {<<>>} \cup UNION {ReplyOf[e] : e \in Eps}

\* A reservation that was admitted fits the copy that is going to be written.
Admitted(f) == f.at = "checked" => checkAvailability(f.my, f.req.from, f.req.to, f.req.rooms)

Frames ==
  {f \in [ep : Eps, req : Requests, at : Places, my : Locals, res : Results] :
     /\ f.req \in RequestOf[f.ep] /\ f.at \in PlacesOf[f.ep] /\ f.my \in LocalsAt(f.ep, f.at)
     /\ Admitted(f)}

\* The innermost handler has the response it goes on with; each other one waits
\* for the one above, which serves what it called; and a hotel that is being
\* stored is the same in all services.
SameHotel(f, g) ==
  /\ f.ep \in {"store_hotel_location", "add_hotel_availability"} => f.req.hotel = g.req.hotel
  /\ f.ep = "store_rate" => f.req.rate.hotel = g.req.hotel
  /\ f.ep = "store_profile" => f.req.profile.hotel = g.req.hotel

Heads == {f \in Frames : f.at \in DOMAIN Callee => f.res \in ReplyOf[Callee[f.at]]}
Links == {l \in Frames \X Frames : /\ l[2].at \in DOMAIN Callee /\ l[1].ep = Callee[l[2].at]
                                   /\ SameHotel(l[1], l[2])}
Bottoms == {f \in Frames : f.ep \in DOMAIN ResponseOf}
Calls == Stacks(Frames, Heads, Links, Bottoms)

Answers == [ep : Eps \cup {"none"}, req : Requests \cup {<<>>}, ok : BOOLEAN, res : Results]

CallsOK ==
  /\ call \in [Clients -> Calls]
  /\ answer \in [Clients -> Answers]
  /\ \A c \in Clients : answer[c].ep # "none" => call[c] = <<>>
  /\ \A c \in Clients :
       answer[c].ok => answer[c].ep \in DOMAIN ResponseOf /\ answer[c].res \in ResponseOf[answer[c].ep]

StatesOK ==
  /\ StateOf(locations, Locations, GoodLocation)
  /\ StateOf(rates, Hotels, Rate)
  /\ StateOf(availability, Hotels, GoodAvailability)
  /\ StateOf(profiles, Hotels, HotelProfile)
  /\ StateOf(users, Users, User)

-----------------------------------------------------------------------------
(* Facts about the names. *)

LEMMA Names ==
  /\ Eps = {"ro_search_hotels", "store_hotel", "reservation", "ro_nearby", "store_hotel_location",
            "ro_get_rates", "store_rate", "ro_get_profiles", "store_profile",
            "ro_check_availability", "make_reservation", "add_hotel_availability",
            "register_user", "login"}
  /\ DOMAIN ResponseOf = {"ro_search_hotels", "store_hotel", "reservation", "register_user"}
  /\ DOMAIN Callee = {"gotNearby", "gotAvailable", "gotProfiles", "storedLocation", "storedRate",
                      "addedAvailability", "storedProfile", "loggedIn", "reserved", "gotRates"}
  /\ DOMAIN ResponseAt = DOMAIN Callee
BY DEF Eps, RequestOf, ResponseOf, Callee, ResponseAt

LEMMA Starts == \A e \in Eps : "start" \in PlacesOf[e]
BY Names DEF PlacesOf

LEMMA Callees == \A p \in DOMAIN Callee : Callee[p] \in Eps /\ Callee[p] \notin DOMAIN ResponseOf
BY Names DEF Callee

LEMMA Replies ==
  /\ \A e \in DOMAIN ResponseOf : e \in Eps /\ ResponseOf[e] = ReplyOf[e]
  /\ \A p \in DOMAIN Callee : ResponseAt[p] = ReplyOf[Callee[p]]
<1>1. \A e \in DOMAIN ResponseOf : e \in Eps /\ ResponseOf[e] = ReplyOf[e]
  BY Names DEF ResponseOf, ReplyOf
<1>2. \A p \in DOMAIN Callee : ResponseAt[p] = ReplyOf[Callee[p]]
  <2> SUFFICES ASSUME NEW p \in DOMAIN Callee PROVE ResponseAt[p] = ReplyOf[Callee[p]] OBVIOUS
  <2>1. CASE p \in {"gotNearby", "gotAvailable", "gotProfiles"}
    BY <2>1 DEF ResponseAt, ReplyOf, Callee
  <2>2. CASE p \in {"storedLocation", "storedRate", "addedAvailability", "storedProfile"}
    BY <2>2 DEF ResponseAt, ReplyOf, Callee
  <2>3. CASE p \in {"loggedIn", "reserved", "gotRates"}
    BY <2>3 DEF ResponseAt, ReplyOf, Callee
  <2> QED BY <2>1, <2>2, <2>3, Names
<1> QED BY <1>1, <1>2

-----------------------------------------------------------------------------
(* Frames. *)

LEMMA FrameParts ==
  ASSUME NEW f \in Frames
  PROVE  /\ f.ep \in Eps /\ f.req \in RequestOf[f.ep] /\ f.at \in PlacesOf[f.ep]
         /\ f.my \in LocalsAt(f.ep, f.at) /\ Admitted(f) /\ f.res \in Results
         /\ f.req \in Requests /\ f.at \in Places /\ f.my \in Locals
         /\ f = [ep |-> f.ep, req |-> f.req, at |-> f.at, my |-> f.my, res |-> f.res]
BY DEF Frames

LEMMA FrameStarts ==
  ASSUME NEW e \in Eps, NEW q \in RequestOf[e]
  PROVE  /\ Frame(e, q) \in Frames /\ Frame(e, q) \in Heads
         /\ Frame(e, q).ep = e /\ Frame(e, q).req = q /\ Frame(e, q).at = "start"
<1>1. "start" \in PlacesOf[e] /\ "start" \notin DOMAIN Callee BY Starts, Names
<1>2. <<>> \in LocalsAt(e, "start") BY DEF LocalsAt
<1>3. q \in Requests /\ "start" \in Places /\ <<>> \in Results BY <1>1 DEF Requests, Places, Results
<1>4. <<>> \in Locals BY <1>2, <1>3 DEF Locals
<1>5. Frame(e, q) \in Frames BY <1>1, <1>2, <1>3, <1>4 DEF Frame, Frames, Admitted
<1> QED BY <1>1, <1>5 DEF Frame, Heads

\* The frame after Goto, and after a response.
Gone(f, place, my) == [f EXCEPT !.at = place, !.my = my]
Answered(f, r) == [f EXCEPT !.res = r]

LEMMA FrameGoes ==
  ASSUME NEW f \in Frames, NEW place \in PlacesOf[f.ep], NEW my \in LocalsAt(f.ep, place),
         place = "checked" => checkAvailability(my, f.req.from, f.req.to, f.req.rooms)
  PROVE  /\ Gone(f, place, my) \in Frames
         /\ Gone(f, place, my).ep = f.ep /\ Gone(f, place, my).req = f.req
         /\ Gone(f, place, my).at = place /\ Gone(f, place, my).my = my
         /\ place \notin DOMAIN Callee => Gone(f, place, my) \in Heads
<1> DEFINE g == Gone(f, place, my)
<1>1. /\ f.ep \in Eps /\ f.req \in RequestOf[f.ep] /\ f.req \in Requests /\ f.res \in Results
      /\ f = [ep |-> f.ep, req |-> f.req, at |-> f.at, my |-> f.my, res |-> f.res]
  BY FrameParts
<1>2. g = [ep |-> f.ep, req |-> f.req, at |-> place, my |-> my, res |-> f.res]
  <2> DEFINE h == [f EXCEPT !.at = place]
  <2>1. h = [ep |-> f.ep, req |-> f.req, at |-> place, my |-> f.my, res |-> f.res] BY <1>1
  <2>2. g = [h EXCEPT !.my = my] BY DEF Gone
  <2> HIDE DEF h, g
  <2> QED BY <2>1, <2>2
<1>3. place \in Places BY <1>1 DEF Places
<1>4. my \in Locals BY <1>1, <1>3 DEF Locals
<1>5. Admitted(g) BY <1>2 DEF Admitted
<1>6. g \in Frames BY <1>1, <1>2, <1>3, <1>4, <1>5 DEF Frames
<1> QED BY <1>2, <1>6 DEF Heads

LEMMA FrameAnswered ==
  ASSUME NEW f \in Frames, NEW r \in Results
  PROVE  /\ Answered(f, r) \in Frames
         /\ Answered(f, r).ep = f.ep /\ Answered(f, r).req = f.req
         /\ Answered(f, r).at = f.at /\ Answered(f, r).my = f.my
         /\ (f.at \in DOMAIN Callee => r \in ReplyOf[Callee[f.at]]) => Answered(f, r) \in Heads
<1> DEFINE g == Answered(f, r)
<1>1. /\ f.ep \in Eps /\ f.req \in RequestOf[f.ep] /\ f.at \in PlacesOf[f.ep]
      /\ f.my \in LocalsAt(f.ep, f.at) /\ Admitted(f) /\ f.req \in Requests /\ f.at \in Places
      /\ f.my \in Locals
      /\ f = [ep |-> f.ep, req |-> f.req, at |-> f.at, my |-> f.my, res |-> f.res]
  BY FrameParts
<1>2. g = [ep |-> f.ep, req |-> f.req, at |-> f.at, my |-> f.my, res |-> r]
  BY <1>1 DEF Answered
<1>3. Admitted(g) BY <1>1, <1>2 DEF Admitted
<1>4. g \in Frames BY <1>1, <1>2, <1>3 DEF Frames
<1> QED BY <1>2, <1>4 DEF Heads

\* A frame with the endpoint, request and place of another has its links.
LEMMA SameLinks ==
  ASSUME NEW f \in Frames, NEW g \in Frames, g.ep = f.ep, g.req = f.req
  PROVE  /\ f \in Bottoms => g \in Bottoms
         /\ \A x \in Frames : <<f, x>> \in Links => <<g, x>> \in Links
BY DEF Bottoms, Links, SameHotel

-----------------------------------------------------------------------------
(* What a handler can do to the stack of its client. *)

Step(c) ==
  LET f == Head(call[c]) IN
  \/ \E place \in PlacesOf[f.ep] \ DOMAIN Callee : \E my \in LocalsAt(f.ep, place) :
       /\ place = "checked" => checkAvailability(my, f.req.from, f.req.to, f.req.rooms)
       /\ Goto(c, place, my)
  \/ \E service \in DOMAIN Endpoints, place \in PlacesOf[f.ep] \cap DOMAIN Callee :
       \E q \in RequestOf[Callee[place]] :
         /\ Callee[place] \in Endpoints[service] /\ f.my = <<>>
         /\ SameHotel(Frame(Callee[place], q), f)
         /\ Invoke(c, service, Callee[place], q, place)
  \/ \E r \in ReplyOf[f.ep] : Return(c, r)
  \/ Panic(c)

LEMMA StackOf ==
  ASSUME CallsOK, NEW c \in Clients, call[c] # <<>>
  PROVE  /\ call[c] \in Calls /\ call[c] \in Seq(Frames) /\ Head(call[c]) = call[c][1]
         /\ Len(call[c]) \in Nat /\ Len(call[c]) >= 1
         /\ \A i \in 1 .. Len(call[c]) : call[c][i] \in Frames
         /\ call[c][1] \in Frames /\ call[c][1] \in Heads
         /\ call[c][Len(call[c])] \in Bottoms
         /\ \A i \in 1 .. Len(call[c]) - 1 : <<call[c][i], call[c][i + 1]>> \in Links
         /\ answer[c].ep = "none"
<1>1. call[c] \in Calls BY DEF CallsOK
<1>2. /\ call[c] \in Seq(Frames) /\ call[c][1] \in Heads /\ call[c][Len(call[c])] \in Bottoms
      /\ \A i \in 1 .. Len(call[c]) - 1 : <<call[c][i], call[c][i + 1]>> \in Links
  BY <1>1 DEF Calls, Stacks
<1>3. /\ Len(call[c]) \in Nat /\ Len(call[c]) >= 1 /\ Head(call[c]) = call[c][1]
      /\ \A i \in 1 .. Len(call[c]) : call[c][i] \in Frames
  BY <1>2, StackParts
<1> QED BY <1>1, <1>2, <1>3 DEF CallsOK

\* The request of a client ends.
LEMMA EndedOK ==
  ASSUME CallsOK, NEW c \in Clients, call[c] # <<>>, NEW ok \in BOOLEAN, NEW r \in Results,
         ok => Len(call[c]) = 1 /\ r \in ReplyOf[Head(call[c]).ep], Ended(c, ok, r)
  PROVE  CallsOK'
<1> DEFINE first == call[c][Len(call[c])]
           a == [ep |-> first.ep, req |-> first.req, ok |-> ok, res |-> r]
<1>1. /\ call' = [call EXCEPT ![c] = <<>>] /\ answer' = [answer EXCEPT ![c] = a]
  BY DEF Ended
<1>2. first \in Frames /\ first.ep \in DOMAIN ResponseOf BY StackOf DEF Bottoms
<1>3. a \in Answers BY <1>2, FrameParts DEF Answers
<1>4. ok => r \in ResponseOf[first.ep] BY <1>2, StackOf, Replies
<1>5. <<>> \in Calls BY EmptySeq DEF Calls, Stacks
<1>6. call \in [Clients -> Calls] /\ answer \in [Clients -> Answers] BY DEF CallsOK
<1> HIDE DEF a
<1>7. /\ call' \in [Clients -> Calls] /\ answer' \in [Clients -> Answers]
      /\ call'[c] = <<>> /\ answer'[c] = a
      /\ \A d \in Clients : d # c => call'[d] = call[d] /\ answer'[d] = answer[d]
  BY <1>1, <1>3, <1>5, <1>6
<1>8. a.ok = ok /\ a.ep = first.ep /\ a.res = r BY DEF a
<1> QED BY <1>2, <1>4, <1>7, <1>8 DEF CallsOK

\* The stack of a client becomes another one.
LEMMA BecameOK ==
  ASSUME CallsOK, NEW c \in Clients, call[c] # <<>>, NEW s \in Calls,
         call' = [call EXCEPT ![c] = s], UNCHANGED answer
  PROVE  CallsOK'
<1>1. answer[c].ep = "none" BY StackOf
<1>2. call \in [Clients -> Calls] BY DEF CallsOK
<1>3. call' \in [Clients -> Calls] /\ \A d \in Clients : d # c => call'[d] = call[d]
  BY <1>2
<1> QED BY <1>1, <1>3 DEF CallsOK

\* The three ways a stack goes on.
LEMMA GoesOn ==
  ASSUME CallsOK, NEW c \in Clients, call[c] # <<>>,
         NEW place \in PlacesOf[Head(call[c]).ep] \ DOMAIN Callee,
         NEW my \in LocalsAt(Head(call[c]).ep, place),
         place = "checked" => checkAvailability(my, Head(call[c]).req.from, Head(call[c]).req.to,
                                                Head(call[c]).req.rooms),
         Goto(c, place, my)
  PROVE  /\ CallsOK' /\ Len(call'[c]) = Len(call[c]) /\ UNCHANGED answer
         /\ call'[c][1] \in Frames /\ call'[c][1].at = place /\ call'[c][1].my = my
         /\ call'[c][1].ep = Head(call[c]).ep /\ call'[c][1].req = Head(call[c]).req
         /\ \A i \in 2 .. Len(call[c]) : call'[c][i] = call[c][i]
         /\ \A d \in Clients : d # c => call'[d] = call[d]
<1> DEFINE f == Head(call[c])
           g == Gone(f, place, my)
<1>1. /\ f \in Frames /\ f = call[c][1] /\ call[c] \in Calls /\ call[c] \in Seq(Frames) BY StackOf
<1>2. g \in Frames /\ g.ep = f.ep /\ g.req = f.req /\ g.at = place /\ g.my = my /\ g \in Heads
  <2> HIDE DEF f
  <2>1. place = "checked" => checkAvailability(my, f.req.from, f.req.to, f.req.rooms) BY DEF f
  <2>2. place \in PlacesOf[f.ep] /\ place \notin DOMAIN Callee /\ my \in LocalsAt(f.ep, place) BY DEF f
  <2> QED BY <1>1, <2>1, <2>2, FrameGoes
<1>3. call' = [call EXCEPT ![c] = <<g>> \o Tail(@)] /\ UNCHANGED answer BY DEF Goto, Gone
<1> HIDE DEF g
<1> DEFINE s == <<g>> \o Tail(call[c])
<1>4. s \in Calls
  <2>1. g.ep = call[c][1].ep /\ g.req = call[c][1].req /\ call[c][1] \in Frames BY <1>1, <1>2
  <2>2. /\ call[c][1] \in Bottoms => g \in Bottoms
        /\ \A x \in Frames : <<call[c][1], x>> \in Links => <<g, x>> \in Links
    BY <1>2, <2>1, SameLinks
  <2> QED BY <1>1, <1>2, <2>2, StackReplaced DEF Calls
<1>5. Len(s) = Len(call[c]) /\ s[1] = g /\ \A i \in 2 .. Len(call[c]) : s[i] = call[c][i]
  BY <1>1, <1>2, TopReplaced
<1> HIDE DEF s
<1>6. call' = [call EXCEPT ![c] = s] BY <1>3 DEF s
<1>7. CallsOK' BY <1>3, <1>4, <1>6, BecameOK
<1>8. call \in [Clients -> Calls] BY DEF CallsOK
<1>9. call'[c] = s /\ \A d \in Clients : d # c => call'[d] = call[d] BY <1>6, <1>8
<1> QED BY <1>2, <1>3, <1>5, <1>7, <1>9

LEMMA EndsOrCalls ==
  ASSUME CallsOK, NEW c \in Clients, call[c] # <<>>, NEW service,
         NEW place \in PlacesOf[Head(call[c]).ep] \cap DOMAIN Callee,
         NEW q \in RequestOf[Callee[place]], Head(call[c]).my = <<>>,
         SameHotel(Frame(Callee[place], q), Head(call[c])),
         Invoke(c, service, Callee[place], q, place)
  PROVE  \/ Panic(c)
         \/ /\ CallsOK' /\ Len(call'[c]) = Len(call[c]) + 1 /\ UNCHANGED answer
            /\ <<service, Callee[place]>> \in up
            /\ call'[c][1] = Frame(Callee[place], q)
            /\ call'[c][2].at = place
            /\ call'[c][2].ep = Head(call[c]).ep /\ call'[c][2].req = Head(call[c]).req
            /\ \A i \in 3 .. Len(call[c]) + 1 : call'[c][i] = call[c][i - 1]
            /\ \A d \in Clients : d # c => call'[d] = call[d]
<1> DEFINE f == Head(call[c])
           g == Gone(f, place, <<>>)
           h == Frame(Callee[place], q)
<1>1. /\ f \in Frames /\ f = call[c][1] /\ call[c] \in Calls /\ call[c] \in Seq(Frames) BY StackOf
<1>2. g \in Frames /\ g.ep = f.ep /\ g.req = f.req /\ g.at = place
  <2>1. place # "checked" /\ place # "checking" /\ place # "loaded"
        /\ f.ep # "ro_get_rates" /\ f.ep # "ro_get_profiles"
    BY Names DEF PlacesOf
  <2>2. <<>> \in LocalsAt(f.ep, place) /\ place \in PlacesOf[f.ep] BY <2>1 DEF LocalsAt
  <2> HIDE DEF f
  <2> QED BY <1>1, <2>1, <2>2, FrameGoes
<1>3. h \in Frames /\ h \in Heads /\ h.ep = Callee[place] BY Callees, FrameStarts
<1>4. CASE <<service, Callee[place]>> \notin up BY <1>4 DEF Invoke, performRequest
<1>5. CASE <<service, Callee[place]>> \in up
  <2>1. call' = [call EXCEPT ![c] = <<h, g>> \o Tail(@)] /\ UNCHANGED answer
    BY <1>5 DEF Invoke, performRequest, My, Gone
  <2>2. <<h, g>> \in Links
    <3>1. SameHotel(h, f) OBVIOUS
    <3>2. SameHotel(h, g) BY <1>2, <3>1 DEF SameHotel
    <3>3. place \in DOMAIN Callee OBVIOUS
    <3> HIDE DEF h, g
    <3> QED BY <1>2, <1>3, <3>2, <3>3 DEF Links
  <2> HIDE DEF g, h
  <2> DEFINE s == <<h, g>> \o Tail(call[c])
  <2>4. s \in Calls
    <3>1. g.ep = call[c][1].ep /\ g.req = call[c][1].req /\ call[c][1] \in Frames BY <1>1, <1>2
    <3>2. /\ call[c][1] \in Bottoms => g \in Bottoms
          /\ \A x \in Frames : <<call[c][1], x>> \in Links => <<g, x>> \in Links
      BY <1>2, <3>1, SameLinks
    <3> QED BY <1>1, <1>2, <1>3, <2>2, <3>2, StackCalls DEF Calls
  <2>5. /\ Len(s) = Len(call[c]) + 1 /\ s[1] = h /\ s[2] = g
        /\ \A i \in 3 .. Len(call[c]) + 1 : s[i] = call[c][i - 1]
    BY <1>1, <1>2, <1>3, TopCalls
  <2> HIDE DEF s
  <2>6. call' = [call EXCEPT ![c] = s] BY <2>1 DEF s
  <2>7. CallsOK' BY <2>1, <2>4, <2>6, BecameOK
  <2>8. call \in [Clients -> Calls] BY DEF CallsOK
  <2>9. call'[c] = s /\ \A d \in Clients : d # c => call'[d] = call[d] BY <2>6, <2>8
  <2> QED BY <1>2, <1>5, <2>1, <2>5, <2>7, <2>9 DEF h
<1> QED BY <1>4, <1>5

LEMMA EndsOrReturns ==
  ASSUME CallsOK, NEW c \in Clients, call[c] # <<>>, NEW r \in ReplyOf[Head(call[c]).ep],
         Return(c, r)
  PROVE  \/ Len(call[c]) = 1 /\ Ended(c, TRUE, r)
         \/ /\ Len(call[c]) > 1
            /\ CallsOK' /\ Len(call'[c]) = Len(call[c]) - 1 /\ UNCHANGED answer
            /\ call'[c][1] \in Frames
            /\ call'[c][1].at = call[c][2].at /\ call'[c][1].my = call[c][2].my
            /\ call'[c][1].ep = call[c][2].ep /\ call'[c][1].req = call[c][2].req
            /\ \A i \in 2 .. Len(call[c]) - 1 : call'[c][i] = call[c][i + 1]
            /\ \A d \in Clients : d # c => call'[d] = call[d]
<1> DEFINE f == call[c][2]
           g == Answered(f, r)
<1>1. CASE Len(call[c]) = 1 BY <1>1 DEF Return
<1>2. CASE Len(call[c]) # 1
  <2>1. /\ Len(call[c]) > 1 /\ call[c] \in Calls /\ call[c] \in Seq(Frames)
        /\ f \in Frames /\ call[c][1] \in Frames /\ Head(call[c]) = call[c][1]
        /\ <<call[c][1], f>> \in Links
    <3>1. Len(call[c]) \in Nat /\ Len(call[c]) >= 1 BY StackOf
    <3>2. /\ Len(call[c]) > 1 /\ 2 \in 1 .. Len(call[c]) /\ 1 \in 1 .. Len(call[c])
          /\ 1 \in 1 .. Len(call[c]) - 1 /\ 1 + 1 = 2
      <4>1. \A n \in Nat : n >= 1 /\ n # 1 => /\ n > 1 /\ 2 \in 1 .. n /\ 1 \in 1 .. n
                                            /\ 1 \in 1 .. n - 1 /\ 1 + 1 = 2
        OBVIOUS
      <4> QED BY <1>2, <3>1, <4>1
    <3>3. \A i \in 1 .. Len(call[c]) - 1 : <<call[c][i], call[c][i + 1]>> \in Links BY StackOf
    <3>4. <<call[c][1], call[c][1 + 1]>> \in Links BY <3>2, <3>3
    <3> QED BY <3>2, <3>4, StackOf
  <2>2. f.at \in DOMAIN Callee /\ Callee[f.at] = call[c][1].ep BY <2>1 DEF Links
  <2>3. r \in ReplyOf[Callee[f.at]] /\ r \in Results
    BY <2>1, <2>2, Callees DEF Results
  <2>4. g \in Frames /\ g.ep = f.ep /\ g.req = f.req /\ g.at = f.at /\ g.my = f.my /\ g \in Heads
    <3> HIDE DEF f
    <3> QED BY <2>1, <2>3, FrameAnswered
  <2>5. call' = [call EXCEPT ![c] = <<g>> \o Tail(Tail(@))] /\ UNCHANGED answer
    BY <1>2 DEF Return, Answered
  <2> HIDE DEF g
  <2> DEFINE s == <<g>> \o Tail(Tail(call[c]))
  <2>6. s \in Calls
    <3>1. /\ f \in Bottoms => g \in Bottoms
          /\ \A x \in Frames : <<f, x>> \in Links => <<g, x>> \in Links
      BY <2>1, <2>4, SameLinks
    <3> QED BY <2>1, <2>4, <3>1, StackReturns DEF Calls
  <2>7. /\ Len(s) = Len(call[c]) - 1 /\ s[1] = g
        /\ \A i \in 2 .. Len(call[c]) - 1 : s[i] = call[c][i + 1]
    BY <2>1, <2>4, TopReturns
  <2> HIDE DEF s
  <2>8. call' = [call EXCEPT ![c] = s] BY <2>5 DEF s
  <2>9. CallsOK' BY <2>1, <2>5, <2>6, <2>8, BecameOK
  <2>10. call \in [Clients -> Calls] BY DEF CallsOK
  <2>11. call'[c] = s /\ \A d \in Clients : d # c => call'[d] = call[d] BY <2>8, <2>10
  <2> QED BY <2>1, <2>4, <2>5, <2>7, <2>9, <2>11
<1> QED BY <1>1, <1>2

LEMMA StepOK == ASSUME CallsOK, NEW c \in Clients, call[c] # <<>>, Step(c) PROVE CallsOK'
<1> DEFINE f == Head(call[c])
<1>1. CASE Panic(c)
  <2>1. <<>> \in Results BY DEF Results
  <2> QED BY <1>1, <2>1, EndedOK DEF Panic
<1>2. ASSUME NEW r \in ReplyOf[f.ep], Return(c, r) PROVE CallsOK'
  <2>1. f.ep \in Eps BY StackOf, FrameParts
  <2>2. r \in Results BY <2>1 DEF Results
  <2> QED BY <1>2, <2>2, EndsOrReturns, EndedOK
<1>3. ASSUME NEW place \in PlacesOf[f.ep] \ DOMAIN Callee, NEW my \in LocalsAt(f.ep, place),
             place = "checked" => checkAvailability(my, f.req.from, f.req.to, f.req.rooms),
             Goto(c, place, my)
      PROVE  CallsOK'
  BY <1>3, GoesOn
<1>4. ASSUME NEW service \in DOMAIN Endpoints, NEW place \in PlacesOf[f.ep] \cap DOMAIN Callee,
             NEW q \in RequestOf[Callee[place]], f.my = <<>>,
             SameHotel(Frame(Callee[place], q), f), Invoke(c, service, Callee[place], q, place)
      PROVE  CallsOK'
  BY <1>1, <1>4, EndsOrCalls
<1> QED BY <1>1, <1>2, <1>3, <1>4 DEF Step

-----------------------------------------------------------------------------
(* Each handler takes such steps, and keeps the values of its service well *)
(* formed.                                                                 *)

LEMMA Serves ==
  ASSUME CallsOK, NEW c \in Clients, NEW e, Serving(c, e)
  PROVE  /\ call[c] # <<>> /\ e \in Eps /\ Head(call[c]).ep = e
         /\ Req(c) \in RequestOf[e] /\ Head(call[c]).req = Req(c)
         /\ Head(call[c]).at \in PlacesOf[e] /\ Head(call[c]).my = My(c)
         /\ \A p : At(c, p) => My(c) \in LocalsAt(e, p)
         /\ \A p \in DOMAIN Callee : At(c, p) => Res(c) \in ReplyOf[Callee[p]]
<1>1. call[c] # <<>> /\ Head(call[c]).ep = e BY DEF Serving
<1>2. Head(call[c]) \in Frames /\ Head(call[c]) \in Heads BY <1>1, StackOf
<1> QED BY <1>1, <1>2, FrameParts DEF Req, My, At, Res, Heads

\* A handler that waits for a response has no locals.
LEMMA NoLocals ==
  ASSUME CallsOK, NEW c \in Clients, NEW e, Serving(c, e), e # "ro_get_rates", e # "ro_get_profiles",
         ~ At(c, "checking"), ~ At(c, "checked"), ~ At(c, "loaded")
  PROVE  Head(call[c]).my = <<>>
<1>1. Head(call[c]).my \in LocalsAt(e, Head(call[c]).at) BY Serves DEF At, My
<1> QED BY <1>1 DEF LocalsAt, At

LEMMA CallStep ==
  ASSUME CallsOK, NEW c \in Clients, NEW e, Serving(c, e), NEW place \in DOMAIN Callee,
         place \in PlacesOf[e], NEW service \in DOMAIN Endpoints, NEW callee, Callee[place] = callee,
         callee \in Endpoints[service], NEW q \in RequestOf[callee], Head(call[c]).my = <<>>,
         SameHotel(Frame(callee, q), Head(call[c])), Invoke(c, service, callee, q, place)
  PROVE  Step(c)
<1>1. Head(call[c]).ep = e BY Serves
<1> QED BY <1>1 DEF Step

LEMMA ReturnStep ==
  ASSUME CallsOK, NEW c \in Clients, NEW e, Serving(c, e), NEW r \in ReplyOf[e], Return(c, r)
  PROVE  Step(c)
<1>1. Head(call[c]).ep = e BY Serves
<1> QED BY <1>1 DEF Step

LEMMA GotoStep ==
  ASSUME CallsOK, NEW c \in Clients, NEW e, Serving(c, e), NEW place \in PlacesOf[e],
         place \notin DOMAIN Callee, NEW my \in LocalsAt(e, place),
         place = "checked" => checkAvailability(my, Req(c).from, Req(c).to, Req(c).rooms),
         Goto(c, place, my)
  PROVE  Step(c)
<1>1. Head(call[c]).ep = e /\ Head(call[c]).req = Req(c) BY Serves
<1> QED BY <1>1 DEF Step

\* The hotels of a list of rates.
LEMMA HotelsOfRates ==
  ASSUME NEW rs \in Seq(Rate)
  PROVE  [i \in DOMAIN rs |-> rs[i].hotel] \in Seq(Hotels)
<1>1. Len(rs) \in Nat /\ DOMAIN rs = 1 .. Len(rs) /\ \A i \in 1 .. Len(rs) : rs[i] \in Rate
  BY LenProperties, ElementOfSeq
<1>2. \A i \in 1 .. Len(rs) : rs[i].hotel \in Hotels BY <1>1 DEF Rate
<1> QED BY <1>1, <1>2, IsASeq

LEMMA SearchHotelsStep ==
  ASSUME CallsOK, NEW c \in Clients, searchHotels(c)
  PROVE  Step(c) /\ UNCHANGED state
<1>1. /\ Serving(c, "ro_search_hotels") /\ SearchHotels(c, Req(c).from, Req(c).to, Req(c).location)
      /\ UNCHANGED state
  BY DEF searchHotels, SearchHotels
<1>2. /\ Req(c) \in SearchHotelsRequest
      /\ PlacesOf["ro_search_hotels"] = {"start", "gotNearby", "gotAvailable", "gotProfiles"}
  BY <1>1, Serves DEF RequestOf, PlacesOf
<1>3. Head(call[c]).my = <<>>
  BY <1>1, <1>2, Serves, NoLocals DEF At
<1>4. CASE At(c, "start")
  <2> DEFINE q == [from |-> Req(c).from, to |-> Req(c).to, location |-> Req(c).location]
  <2>1. Invoke(c, "search", "ro_nearby", q, "gotNearby") BY <1>1, <1>4 DEF SearchHotels, At
  <2>2. q \in RequestOf["ro_nearby"] BY <1>2 DEF RequestOf, NearbyRequest, SearchHotelsRequest
  <2>3. Callee["gotNearby"] = "ro_nearby" /\ "ro_nearby" \in Endpoints["search"]
        /\ "search" \in DOMAIN Endpoints
    BY DEF Callee, Endpoints
  <2>4. SameHotel(Frame("ro_nearby", q), Head(call[c])) BY DEF SameHotel, Frame
  <2> HIDE DEF q
  <2> QED BY <1>1, <1>2, <1>3, <2>1, <2>2, <2>3, <2>4, Names, CallStep
<1>5. CASE At(c, "gotNearby")
  <2> DEFINE hs == [i \in DOMAIN Res(c).rates |-> Res(c).rates[i].hotel]
             q == [customer |-> NoOne, from |-> Req(c).from, to |-> Req(c).to, rooms |-> 1,
                   hotels |-> hs]
  <2>1. Invoke(c, "reservation", "ro_check_availability", q, "gotAvailable")
    BY <1>1, <1>5 DEF SearchHotels, At
  <2>2. hs \in Seq(Hotels)
    <3>1. Res(c) \in NearbyResponse BY <1>1, <1>5, Serves, Names DEF Callee, ReplyOf
    <3>2. Res(c).rates \in Seq(Rate) BY <3>1 DEF NearbyResponse
    <3> QED BY <3>2, HotelsOfRates
  <2>3. q \in RequestOf["ro_check_availability"]
    <3> HIDE DEF hs
    <3> QED BY <1>2, <2>2 DEF RequestOf, CheckAvailabilityRequest, SearchHotelsRequest
  <2>4. Callee["gotAvailable"] = "ro_check_availability" /\ "reservation" \in DOMAIN Endpoints
        /\ "ro_check_availability" \in Endpoints["reservation"]
    BY DEF Callee, Endpoints
  <2>5. SameHotel(Frame("ro_check_availability", q), Head(call[c])) BY DEF SameHotel, Frame
  <2> HIDE DEF q
  <2> QED BY <1>1, <1>2, <1>3, <2>1, <2>3, <2>4, <2>5, Names, CallStep
<1>6. CASE At(c, "gotAvailable")
  <2> DEFINE q == [hotels |-> Res(c).hotels]
  <2>1. Invoke(c, "profile", "ro_get_profiles", q, "gotProfiles")
    BY <1>1, <1>6 DEF SearchHotels, At
  <2>2. Res(c) \in CheckAvailabilityResponse BY <1>1, <1>6, Serves, Names DEF Callee, ReplyOf
  <2>3. q \in RequestOf["ro_get_profiles"]
    BY <2>2 DEF RequestOf, CheckAvailabilityResponse, GetProfilesRequest
  <2>4. Callee["gotProfiles"] = "ro_get_profiles" /\ "ro_get_profiles" \in Endpoints["profile"]
        /\ "profile" \in DOMAIN Endpoints
    BY DEF Callee, Endpoints
  <2>5. SameHotel(Frame("ro_get_profiles", q), Head(call[c])) BY DEF SameHotel, Frame
  <2> HIDE DEF q
  <2> QED BY <1>1, <1>2, <1>3, <2>1, <2>3, <2>4, <2>5, Names, CallStep
<1>7. CASE At(c, "gotProfiles")
  <2>1. Return(c, [profiles |-> Res(c).profiles]) BY <1>1, <1>7 DEF SearchHotels, At
  <2>2. Res(c) \in GetProfilesResponse BY <1>1, <1>7, Serves, Names DEF Callee, ReplyOf
  <2>3. [profiles |-> Res(c).profiles] \in ReplyOf["ro_search_hotels"]
    BY <2>2 DEF ReplyOf, GetProfilesResponse, SearchHotelsResponse
  <2> QED BY <1>1, <2>1, <2>3, ReturnStep
<1>8. At(c, "start") \/ At(c, "gotNearby") \/ At(c, "gotAvailable") \/ At(c, "gotProfiles")
  BY <1>1 DEF SearchHotels
<1> QED BY <1>1, <1>4, <1>5, <1>6, <1>7, <1>8

LEMMA StoreHotelStep ==
  ASSUME CallsOK, NEW c \in Clients, storeHotel(c)
  PROVE  Step(c) /\ UNCHANGED state
<1>1. /\ Serving(c, "store_hotel") /\ UNCHANGED state
      /\ StoreHotel(c, Req(c).hotel, Req(c).location, Req(c).capacity)
  BY DEF storeHotel, StoreHotel
<1>2. /\ Req(c) \in StoreHotelRequest
      /\ PlacesOf["store_hotel"] =
           {"start", "storedLocation", "storedRate", "addedAvailability", "storedProfile"}
  BY <1>1, Serves DEF RequestOf, PlacesOf
<1>3. Head(call[c]).my = <<>>
  BY <1>1, <1>2, Serves, NoLocals DEF At
<1>4. CASE At(c, "start")
  <2> DEFINE q == [hotel |-> Req(c).hotel, location |-> Req(c).location]
  <2>1. Invoke(c, "search", "store_hotel_location", q, "storedLocation") BY <1>1, <1>4 DEF StoreHotel, At
  <2>2. q \in RequestOf["store_hotel_location"]
    BY <1>2 DEF RequestOf, StoreHotelLocationRequest, StoreHotelRequest
  <2>3. /\ Callee["storedLocation"] = "store_hotel_location" /\ "search" \in DOMAIN Endpoints
        /\ "store_hotel_location" \in Endpoints["search"]
    BY DEF Callee, Endpoints
  <2>4. SameHotel(Frame("store_hotel_location", q), Head(call[c])) BY <1>1, Serves DEF SameHotel, Frame
  <2> HIDE DEF q
  <2> QED BY <1>1, <1>2, <1>3, <2>1, <2>2, <2>3, <2>4, Names, CallStep
<1>5. CASE At(c, "storedLocation")
  <2> DEFINE q == [rate |-> [hotel |-> Req(c).hotel]]
  <2>1. Invoke(c, "rate", "store_rate", q, "storedRate") BY <1>1, <1>5 DEF StoreHotel, At
  <2>2. q \in RequestOf["store_rate"]
    BY <1>2 DEF RequestOf, StoreRateRequest, StoreHotelRequest, Rate
  <2>3. /\ Callee["storedRate"] = "store_rate" /\ "rate" \in DOMAIN Endpoints
        /\ "store_rate" \in Endpoints["rate"]
    BY DEF Callee, Endpoints
  <2>4. SameHotel(Frame("store_rate", q), Head(call[c])) BY <1>1, Serves DEF SameHotel, Frame
  <2> HIDE DEF q
  <2> QED BY <1>1, <1>2, <1>3, <2>1, <2>2, <2>3, <2>4, Names, CallStep
<1>6. CASE At(c, "storedRate")
  <2> DEFINE q == [hotel |-> Req(c).hotel, capacity |-> Req(c).capacity]
  <2>1. Invoke(c, "reservation", "add_hotel_availability", q, "addedAvailability") BY <1>1, <1>6 DEF StoreHotel, At
  <2>2. q \in RequestOf["add_hotel_availability"]
    BY <1>2 DEF RequestOf, AddHotelAvailabilityRequest, StoreHotelRequest
  <2>3. /\ Callee["addedAvailability"] = "add_hotel_availability" /\ "reservation" \in DOMAIN Endpoints
        /\ "add_hotel_availability" \in Endpoints["reservation"]
    BY DEF Callee, Endpoints
  <2>4. SameHotel(Frame("add_hotel_availability", q), Head(call[c])) BY <1>1, Serves DEF SameHotel, Frame
  <2> HIDE DEF q
  <2> QED BY <1>1, <1>2, <1>3, <2>1, <2>2, <2>3, <2>4, Names, CallStep
<1>7. CASE At(c, "addedAvailability")
  <2> DEFINE q == [profile |-> [hotel |-> Req(c).hotel]]
  <2>1. Invoke(c, "profile", "store_profile", q, "storedProfile") BY <1>1, <1>7 DEF StoreHotel, At
  <2>2. q \in RequestOf["store_profile"]
    BY <1>2 DEF RequestOf, StoreProfileRequest, StoreHotelRequest, HotelProfile
  <2>3. /\ Callee["storedProfile"] = "store_profile" /\ "profile" \in DOMAIN Endpoints
        /\ "store_profile" \in Endpoints["profile"]
    BY DEF Callee, Endpoints
  <2>4. SameHotel(Frame("store_profile", q), Head(call[c])) BY <1>1, Serves DEF SameHotel, Frame
  <2> HIDE DEF q
  <2> QED BY <1>1, <1>2, <1>3, <2>1, <2>2, <2>3, <2>4, Names, CallStep
<1>8. CASE At(c, "storedProfile")
  <2>1. Return(c, [hotel |-> Req(c).hotel]) BY <1>1, <1>8 DEF StoreHotel, At
  <2>2. [hotel |-> Req(c).hotel] \in ReplyOf["store_hotel"]
    BY <1>2 DEF ReplyOf, StoreHotelRequest, StoreHotelResponse
  <2> QED BY <1>1, <2>1, <2>2, ReturnStep
<1>9. \/ At(c, "start") \/ At(c, "storedLocation") \/ At(c, "storedRate")
      \/ At(c, "addedAvailability") \/ At(c, "storedProfile")
  BY <1>1 DEF StoreHotel
<1> QED BY <1>1, <1>4, <1>5, <1>6, <1>7, <1>8, <1>9

LEMMA ReservationStep ==
  ASSUME CallsOK, NEW c \in Clients, reservation(c)
  PROVE  Step(c) /\ UNCHANGED state
<1>1. /\ Serving(c, "reservation") /\ UNCHANGED state
      /\ FrontendReservation(c, Req(c).hotel, Req(c).from, Req(c).to, Req(c).rooms,
                             Req(c).username, Req(c).password)
  BY DEF reservation, FrontendReservation
<1>2. /\ Req(c) \in FrontendReservationRequest
      /\ PlacesOf["reservation"] = {"start", "loggedIn", "reserved"}
  BY <1>1, Serves DEF RequestOf, PlacesOf
<1>3. Head(call[c]).my = <<>>
  BY <1>1, <1>2, Serves, NoLocals DEF At
<1>4. CASE At(c, "start")
  <2> DEFINE q == [username |-> Req(c).username, password |-> Req(c).password]
  <2>1. Invoke(c, "user", "login", q, "loggedIn") BY <1>1, <1>4 DEF FrontendReservation, At
  <2>2. q \in RequestOf["login"]
    BY <1>2 DEF RequestOf, LoginRequest, FrontendReservationRequest
  <2>3. /\ Callee["loggedIn"] = "login" /\ "user" \in DOMAIN Endpoints
        /\ "login" \in Endpoints["user"]
    BY DEF Callee, Endpoints
  <2>4. SameHotel(Frame("login", q), Head(call[c])) BY <1>1, Serves DEF SameHotel, Frame
  <2> HIDE DEF q
  <2> QED BY <1>1, <1>2, <1>3, <2>1, <2>2, <2>3, <2>4, Names, CallStep
<1>5. CASE At(c, "loggedIn") /\ Res(c).token # "OK"
  <2>1. Return(c, [success |-> FALSE]) BY <1>1, <1>5 DEF FrontendReservation, At
  <2>2. [success |-> FALSE] \in ReplyOf["reservation"] BY DEF ReplyOf, FrontendReservationResponse
  <2> QED BY <1>1, <2>1, <2>2, ReturnStep
<1>6. CASE At(c, "loggedIn") /\ Res(c).token = "OK"
  <2> DEFINE q == [customer |-> Req(c).username, hotel |-> Req(c).hotel, from |-> Req(c).from,
                   to |-> Req(c).to, rooms |-> Req(c).rooms]
  <2>1. Invoke(c, "reservation", "make_reservation", q, "reserved") BY <1>1, <1>6 DEF FrontendReservation, At
  <2>2. q \in RequestOf["make_reservation"]
    BY <1>2 DEF RequestOf, MakeReservationRequest, FrontendReservationRequest
  <2>3. /\ Callee["reserved"] = "make_reservation" /\ "reservation" \in DOMAIN Endpoints
        /\ "make_reservation" \in Endpoints["reservation"]
    BY DEF Callee, Endpoints
  <2>4. SameHotel(Frame("make_reservation", q), Head(call[c])) BY <1>1, Serves DEF SameHotel, Frame
  <2> HIDE DEF q
  <2> QED BY <1>1, <1>2, <1>3, <2>1, <2>2, <2>3, <2>4, Names, CallStep
<1>7. CASE At(c, "reserved")
  <2>1. Return(c, [success |-> Res(c).success]) BY <1>1, <1>7 DEF FrontendReservation, At
  <2>2. Res(c) \in MakeReservationResponse BY <1>1, <1>7, Serves, Names DEF Callee, ReplyOf
  <2>3. [success |-> Res(c).success] \in ReplyOf["reservation"]
    BY <2>2 DEF ReplyOf, FrontendReservationResponse, MakeReservationResponse
  <2> QED BY <1>1, <2>1, <2>3, ReturnStep
<1>8. At(c, "start") \/ At(c, "loggedIn") \/ At(c, "reserved")
  BY <1>1 DEF FrontendReservation
<1> QED BY <1>1, <1>4, <1>5, <1>6, <1>7, <1>8

LEMMA NearbyStep ==
  ASSUME CallsOK, StatesOK, NEW c \in Clients, nearby(c)
  PROVE  Step(c) /\ UNCHANGED state
<1>1. /\ Serving(c, "ro_nearby") /\ UNCHANGED state
      /\ Nearby(c, Req(c).from, Req(c).to, Req(c).location)
  BY DEF nearby, Nearby
<1>2. Req(c) \in NearbyRequest /\ PlacesOf["ro_nearby"] = {"start", "gotRates"}
  BY <1>1, Serves DEF RequestOf, PlacesOf
<1>3. Head(call[c]).my = <<>>
  BY <1>1, <1>2, Serves, NoLocals DEF At
<1>4. getHotelIdsForLocation(Req(c).location) \in Seq(Hotels)
  BY DEF getHotelIdsForLocation, Has, GetState, StatesOK, StateOf, GoodLocation
<1>5. CASE At(c, "start")
  <2> DEFINE q == [hotels |-> getHotelIdsForLocation(Req(c).location)]
  <2>1. Invoke(c, "rate", "ro_get_rates", q, "gotRates") BY <1>1, <1>5 DEF Nearby, At
  <2>2. q \in RequestOf["ro_get_rates"]
    BY <1>2, <1>4 DEF RequestOf, GetRatesRequest
  <2>3. /\ Callee["gotRates"] = "ro_get_rates" /\ "rate" \in DOMAIN Endpoints
        /\ "ro_get_rates" \in Endpoints["rate"]
    BY DEF Callee, Endpoints
  <2>4. SameHotel(Frame("ro_get_rates", q), Head(call[c])) BY <1>1, Serves DEF SameHotel, Frame
  <2> HIDE DEF q
  <2> QED BY <1>1, <1>2, <1>3, <2>1, <2>2, <2>3, <2>4, Names, CallStep
<1>6. CASE At(c, "gotRates")
  <2>1. Return(c, [rates |-> Res(c).rates]) BY <1>1, <1>6 DEF Nearby, At
  <2>2. Res(c) \in GetRatesResponse BY <1>1, <1>6, Serves, Names DEF Callee, ReplyOf
  <2>3. [rates |-> Res(c).rates] \in ReplyOf["ro_nearby"]
    BY <2>2 DEF ReplyOf, GetRatesResponse, NearbyResponse
  <2> QED BY <1>1, <2>1, <2>3, ReturnStep
<1> QED BY <1>1, <1>5, <1>6 DEF Nearby

-----------------------------------------------------------------------------
(* What the handlers store is well formed. *)

\* A set of numbers that is found in another one after a shift.
LEMMA ShiftedCardinality ==
  ASSUME NEW A \in SUBSET Int, NEW B, IsFiniteSet(B), NEW d \in Int, \A j \in A : j + d \in B
  PROVE  /\ Cardinality(A) <= Cardinality(B)
         /\ Cardinality(A) \in Nat /\ Cardinality(B) \in Nat
<1> DEFINE f == [j \in A |-> j + d]
<1>1. f \in [A -> B] OBVIOUS
<1>2. \A i, j \in A : f[i] = f[j] => i = j
  <2> SUFFICES ASSUME NEW i \in A, NEW j \in A, i + d = j + d PROVE i = j OBVIOUS
  <2>1. i \in Int /\ j \in Int OBVIOUS
  <2> QED BY <2>1
<1> HIDE DEF f
<1>3. f \in Injection(A, B) BY <1>1, <1>2 DEF Injection, IsInjective
<1>4. IsFiniteSet(A) /\ Cardinality(A) <= Cardinality(B) BY <1>3, FS_Injection
<1> QED BY <1>4, FS_CardinalityType

LEMMA DatesOK == Dates \subseteq Nat
BY HotelAssumption DEF Dates

LEMMA LocationAppend ==
  ASSUME NEW list \in GoodLocation, NEW hotel \in Hotels
  PROVE  Append(DropOldest(list, MaxKept), hotel) \in GoodLocation
<1>1. list \in Seq(Hotels) /\ Len(list) <= MaxKept /\ MaxKept \in Nat \ {0}
  BY HotelAssumption DEF GoodLocation
<1> HIDE DEF DropOldest
<1>2. /\ Append(DropOldest(list, MaxKept), hotel) \in Seq(Hotels)
      /\ Len(Append(DropOldest(list, MaxKept), hotel)) <= MaxKept
  BY <1>1, KeptList
<1> QED BY <1>2 DEF GoodLocation

LEMMA NoReservations ==
  ASSUME NEW capacity \in Nat
  PROVE  [capacity |-> capacity, reservations |-> <<>>] \in GoodAvailability
<1> DEFINE a == [capacity |-> capacity, reservations |-> <<>>]
<1>1. <<>> \in Seq(Reservation) /\ Len(<<>>) = 0 /\ DOMAIN <<>> = {} BY EmptySeq, LenProperties
<1>2. a \in HotelAvailability BY <1>1 DEF HotelAvailability
<1>3. Fits(a) BY <1>1 DEF Fits
<1>4. 0 <= MaxKept BY HotelAssumption
<1> QED BY <1>1, <1>2, <1>3, <1>4 DEF GoodAvailability

\* A reservation that the copy admits can be appended to it.
LEMMA ReservationAppend ==
  ASSUME NEW hotel \in GoodAvailability, NEW r \in Reservation,
         checkAvailability(hotel, r.from, r.to, r.rooms)
  PROVE  [hotel EXCEPT !.reservations = Append(DropOldest(@, MaxKept), r)] \in GoodAvailability
<1> DEFINE list == hotel.reservations
           n == Append(DropOldest(list, MaxKept), r)
           new == [hotel EXCEPT !.reservations = Append(DropOldest(@, MaxKept), r)]
<1>1. /\ list \in Seq(Reservation) /\ Len(list) <= MaxKept /\ MaxKept \in Nat \ {0}
      /\ hotel.capacity \in Nat /\ hotel \in HotelAvailability /\ Fits(hotel)
  BY HotelAssumption DEF GoodAvailability, HotelAvailability
<1>2. PICK d \in {0, 1} :
        /\ n \in Seq(Reservation) /\ Len(n) = Len(list) - d + 1 /\ Len(list) - d + 1 <= MaxKept
        /\ Len(list) - d \in Nat
        /\ \A i \in 1 .. Len(list) - d : n[i] = list[i + d]
        /\ n[Len(list) - d + 1] = r
  <2> HIDE DEF list
  <2> QED BY <1>1, KeptList
<1>10. d \in Int OBVIOUS
<1> HIDE DEF n
<1>3. new = [capacity |-> hotel.capacity, reservations |-> n]
  BY <1>1 DEF HotelAvailability, n
<1>4. /\ Len(list) \in Nat /\ DOMAIN list = 1 .. Len(list) /\ DOMAIN n = 1 .. Len(n)
      /\ \A i \in 1 .. Len(list) : list[i] \in Reservation
  BY <1>1, <1>2, LenProperties, ElementOfSeq
<1>5. \A s \in Reservation : s.from \in Nat /\ s.to \in Nat /\ s.rooms \in Nat
  BY DatesOK DEF Reservation
<1>6. r.rooms \in Nat BY <1>5
<1>7. ASSUME NEW i \in 1 .. Len(n)
      PROVE  Cardinality({j \in 1 .. i - 1 : Shares(n[j], n[i])}) + n[i].rooms <= hotel.capacity
  <2> DEFINE A == {j \in 1 .. i - 1 : Shares(n[j], n[i])}
  <2>1. A \in SUBSET Int OBVIOUS
  <2>2. \A j \in A : /\ j \in 1 .. Len(list) - d /\ j + d \in 1 .. Len(list) /\ j + d \in 1 .. (i + d) - 1
                     /\ n[j] = list[j + d]
    BY <1>2, <1>4
  <2>3. CASE i = Len(list) - d + 1
    <3> DEFINE B == theseDays(hotel, r.from, r.to)
    <3>1. n[i] = r BY <1>2, <2>3
    <3>2. B = {k \in 1 .. Len(list) : datesIntersect(r.from, r.to, list[k].from, list[k].to)}
      BY <1>4 DEF theseDays
    <3>3. \A k \in 1 .. Len(list) :
            Shares(list[k], r) => datesIntersect(r.from, r.to, list[k].from, list[k].to)
      BY <1>4, <1>5, DatesOK DEF Shares, datesIntersect
    <3>4. \A j \in A : j + d \in B BY <2>2, <3>1, <3>2, <3>3
    <3>5. IsFiniteSet(B)
      <4>1. B \in SUBSET (1 .. Len(list)) BY <3>2
      <4>2. IsFiniteSet(1 .. Len(list)) BY <1>4, FS_Interval
      <4> QED BY <4>1, <4>2, FS_Subset
    <3>6. Cardinality(B) + r.rooms <= hotel.capacity BY DEF checkAvailability
    <3> HIDE DEF A, B
    <3>7. Cardinality(A) <= Cardinality(B) /\ Cardinality(A) \in Nat /\ Cardinality(B) \in Nat
      BY <1>10, <2>1, <3>4, <3>5, ShiftedCardinality
    <3>8. Cardinality(A) + r.rooms <= hotel.capacity BY <1>1, <1>6, <3>6, <3>7
    <3> QED BY <3>1, <3>8 DEF A
  <2>4. CASE i # Len(list) - d + 1
    <3> DEFINE B == {j \in 1 .. (i + d) - 1 : Shares(list[j], list[i + d])}
    <3>1. i \in 1 .. Len(list) - d /\ i + d \in 1 .. Len(list) /\ i + d \in Nat BY <1>2, <1>4, <2>4
    <3>2. n[i] = list[i + d] BY <1>2, <3>1
    <3>3. \A j \in A : j + d \in B BY <2>2, <3>2
    <3>4. IsFiniteSet(B)
      <4>1. B \in SUBSET (1 .. (i + d) - 1) OBVIOUS
      <4>2. IsFiniteSet(1 .. (i + d) - 1) BY <3>1, FS_Interval
      <4> QED BY <4>1, <4>2, FS_Subset
    <3>5. Cardinality(B) + list[i + d].rooms <= hotel.capacity BY <1>1, <1>4, <3>1 DEF Fits
    <3>6. list[i + d].rooms \in Nat BY <1>4, <1>5, <3>1
    <3> HIDE DEF A, B
    <3>7. Cardinality(A) <= Cardinality(B) /\ Cardinality(A) \in Nat /\ Cardinality(B) \in Nat
      BY <1>10, <2>1, <3>3, <3>4, ShiftedCardinality
    <3>8. Cardinality(A) + list[i + d].rooms <= hotel.capacity BY <1>1, <3>5, <3>6, <3>7
    <3> QED BY <3>2, <3>8 DEF A
  <2> QED BY <2>3, <2>4
<1>8. Fits(new) BY <1>3, <1>4, <1>7 DEF Fits
<1>9. new \in HotelAvailability /\ Len(new.reservations) <= MaxKept
  BY <1>1, <1>2, <1>3 DEF HotelAvailability
<1> QED BY <1>8, <1>9 DEF GoodAvailability

-----------------------------------------------------------------------------
(* The handlers of the services. *)

LEMMA StatesStay == ASSUME StatesOK, UNCHANGED state PROVE StatesOK'
BY DEF StatesOK, state

LEMMA StoreHotelLocationStep ==
  ASSUME CallsOK, StatesOK, NEW c \in Clients, storeHotelLocation(c)
  PROVE  Step(c) /\ StatesOK'
<1>1. /\ Serving(c, "store_hotel_location")
      /\ StoreHotelLocation(c, Req(c).hotel, Req(c).location)
      /\ UNCHANGED <<rates, availability, profiles, users>>
  BY DEF storeHotelLocation, StoreHotelLocation
<1>2. /\ Req(c) \in StoreHotelLocationRequest /\ PlacesOf["store_hotel_location"] = {"start", "loaded"}
      /\ Req(c).hotel \in Hotels /\ Req(c).location \in Locations
  <2>1. /\ Req(c) \in StoreHotelLocationRequest
        /\ PlacesOf["store_hotel_location"] = {"start", "loaded"}
    BY <1>1, Serves DEF RequestOf, PlacesOf
  <2> QED BY <2>1 DEF StoreHotelLocationRequest
<1>3. CASE At(c, "start")
  <2> DEFINE list == getHotelIdsForLocation(Req(c).location)
  <2>1. Goto(c, "loaded", list) /\ UNCHANGED state
    BY <1>1, <1>3 DEF StoreHotelLocation, At, state
  <2>2. <<>> \in GoodLocation
    <3>1. <<>> \in Seq(Hotels) /\ Len(<<>>) = 0 BY EmptySeq
    <3>2. 0 <= MaxKept BY HotelAssumption
    <3> QED BY <3>1, <3>2 DEF GoodLocation
  <2>3. list \in GoodLocation BY <2>2 DEF getHotelIdsForLocation, Has, GetState, StatesOK, StateOf
  <2>4. LocalsAt("store_hotel_location", "loaded") = GoodLocation BY DEF LocalsAt
  <2> HIDE DEF list
  <2> QED BY <1>1, <1>2, <2>1, <2>3, <2>4, Names, GotoStep, StatesStay
<1>4. CASE At(c, "loaded")
  <2> DEFINE n == Append(DropOldest(My(c), MaxKept), Req(c).hotel)
  <2>1. /\ locations' = SetState(locations, Req(c).location, n)
        /\ Return(c, [hotel |-> Req(c).hotel])
    BY <1>1, <1>4 DEF StoreHotelLocation, At
  <2>2. My(c) \in GoodLocation BY <1>1, <1>4, Serves DEF LocalsAt
  <2>3. n \in GoodLocation BY <1>2, <2>2, LocationAppend
  <2>4. [hotel |-> Req(c).hotel] \in ReplyOf["store_hotel_location"]
    BY <1>2 DEF ReplyOf, StoreHotelLocationResponse
  <2>5. StateOf(locations', Locations, GoodLocation)
    <3> HIDE DEF n
    <3>1. StateOf(locations, Locations, GoodLocation) BY DEF StatesOK
    <3> QED BY <1>2, <2>1, <2>3, <3>1, StoredType
  <2>6. StatesOK' BY <1>1, <2>5 DEF StatesOK
  <2> QED BY <1>1, <2>1, <2>4, <2>6, ReturnStep
<1> QED BY <1>1, <1>3, <1>4 DEF StoreHotelLocation

LEMMA StoreRateStep ==
  ASSUME CallsOK, StatesOK, NEW c \in Clients, storeRate(c)
  PROVE  Step(c) /\ StatesOK'
<1>1. /\ Serving(c, "store_rate") /\ rates' = SetState(rates, Req(c).rate.hotel, Req(c).rate)
      /\ Return(c, [hotel |-> Req(c).rate.hotel])
      /\ UNCHANGED <<locations, availability, profiles, users, log, raced>>
  BY DEF storeRate, StoreRate
<1>2. Req(c).rate \in Rate /\ Req(c).rate.hotel \in Hotels
  <2>1. Req(c) \in StoreRateRequest BY <1>1, Serves DEF RequestOf
  <2> QED BY <2>1 DEF StoreRateRequest, Rate
<1>3. [hotel |-> Req(c).rate.hotel] \in ReplyOf["store_rate"]
  BY <1>2 DEF ReplyOf, StoreRateResponse
<1>4. StateOf(rates', Hotels, Rate)
  <2>1. StateOf(rates, Hotels, Rate) BY DEF StatesOK
  <2> QED BY <1>1, <1>2, <2>1, StoredType
<1>5. StatesOK' BY <1>1, <1>4 DEF StatesOK
<1> QED BY <1>1, <1>3, <1>5, ReturnStep

LEMMA GetRatesStep ==
  ASSUME CallsOK, StatesOK, NEW c \in Clients, getRates(c)
  PROVE  Step(c) /\ UNCHANGED state
<1>1. /\ Serving(c, "ro_get_rates") /\ UNCHANGED state
      /\ GetBulkState(c, rates, Req(c).hotels) \/ Return(c, [rates |-> My(c)])
  BY DEF getRates, GetRates
<1>2. /\ Req(c).hotels \in Seq(Hotels) /\ PlacesOf["ro_get_rates"] = {"start"}
      /\ Head(call[c]).at = "start"
  <2>1. Req(c) \in GetRatesRequest BY <1>1, Serves DEF RequestOf
  <2>2. PlacesOf["ro_get_rates"] = {"start"} BY DEF PlacesOf
  <2> QED BY <1>1, <2>1, <2>2, Serves DEF GetRatesRequest
<1>3. LocalsAt("ro_get_rates", "start") = Seq(Rate) BY DEF LocalsAt
<1>4. My(c) \in Seq(Rate) BY <1>1, <1>2, <1>3, Serves DEF At
<1>5. ASSUME Return(c, [rates |-> My(c)]) PROVE Step(c)
  <2>1. [rates |-> My(c)] \in ReplyOf["ro_get_rates"] BY <1>4 DEF ReplyOf, GetRatesResponse
  <2> QED BY <1>1, <1>5, <2>1, ReturnStep
<1>6. ASSUME GetBulkState(c, rates, Req(c).hotels) PROVE Step(c)
  <2> DEFINE n == Len(My(c)) + 1
  <2>1. CASE Has(rates, Req(c).hotels[n])
    <3> DEFINE more == Append(My(c), GetState(rates, Req(c).hotels[n]))
    <3>1. Goto(c, "start", more) BY <1>2, <1>6, <2>1 DEF GetBulkState
    <3>2. GetState(rates, Req(c).hotels[n]) \in Rate
      BY <2>1 DEF Has, GetState, StatesOK, StateOf
    <3>3. more \in Seq(Rate) BY <1>4, <3>2, AppendProperties
    <3> HIDE DEF more
    <3> QED BY <1>1, <1>2, <1>3, <3>1, <3>3, Names, GotoStep
  <2>2. CASE ~ Has(rates, Req(c).hotels[n])
    <3>1. Panic(c) BY <1>6, <2>2 DEF GetBulkState
    <3> QED BY <3>1 DEF Step
  <2> QED BY <2>1, <2>2
<1> QED BY <1>1, <1>5, <1>6

LEMMA StoreProfileStep ==
  ASSUME CallsOK, StatesOK, NEW c \in Clients, storeProfile(c)
  PROVE  Step(c) /\ StatesOK'
<1>1. /\ Serving(c, "store_profile")
      /\ profiles' = SetState(profiles, Req(c).profile.hotel, Req(c).profile)
      /\ Return(c, [hotel |-> Req(c).profile.hotel])
      /\ UNCHANGED <<locations, rates, availability, users, log, raced>>
  BY DEF storeProfile, StoreProfile
<1>2. Req(c).profile \in HotelProfile /\ Req(c).profile.hotel \in Hotels
  <2>1. Req(c) \in StoreProfileRequest BY <1>1, Serves DEF RequestOf
  <2> QED BY <2>1 DEF StoreProfileRequest, HotelProfile
<1>3. [hotel |-> Req(c).profile.hotel] \in ReplyOf["store_profile"]
  BY <1>2 DEF ReplyOf, StoreProfileResponse
<1>4. StateOf(profiles', Hotels, HotelProfile)
  <2>1. StateOf(profiles, Hotels, HotelProfile) BY DEF StatesOK
  <2> QED BY <1>1, <1>2, <2>1, StoredType
<1>5. StatesOK' BY <1>1, <1>4 DEF StatesOK
<1> QED BY <1>1, <1>3, <1>5, ReturnStep

LEMMA GetProfilesStep ==
  ASSUME CallsOK, StatesOK, NEW c \in Clients, getProfiles(c)
  PROVE  Step(c) /\ UNCHANGED state
<1>1. /\ Serving(c, "ro_get_profiles") /\ UNCHANGED state
      /\ \/ GetBulkStateDefault(c, profiles, Req(c).hotels, NoProfile)
         \/ Return(c, [profiles |-> My(c)])
  BY DEF getProfiles, GetProfiles
<1>2. /\ Req(c).hotels \in Seq(Hotels) /\ PlacesOf["ro_get_profiles"] = {"start"}
      /\ Head(call[c]).at = "start" /\ NoProfile \in FoundProfile
  <2>1. Req(c) \in GetProfilesRequest BY <1>1, Serves DEF RequestOf
  <2>2. PlacesOf["ro_get_profiles"] = {"start"} BY DEF PlacesOf
  <2> QED BY <1>1, <2>1, <2>2, Serves DEF GetProfilesRequest, FoundProfile
<1>3. LocalsAt("ro_get_profiles", "start") = Seq(FoundProfile) BY DEF LocalsAt
<1>4. My(c) \in Seq(FoundProfile) BY <1>1, <1>2, <1>3, Serves DEF At
<1>5. ASSUME Return(c, [profiles |-> My(c)]) PROVE Step(c)
  <2>1. [profiles |-> My(c)] \in ReplyOf["ro_get_profiles"]
    BY <1>4 DEF ReplyOf, GetProfilesResponse
  <2> QED BY <1>1, <1>5, <2>1, ReturnStep
<1>6. ASSUME GetBulkStateDefault(c, profiles, Req(c).hotels, NoProfile) PROVE Step(c)
  <2> DEFINE n == Len(My(c)) + 1
             p == IF Has(profiles, Req(c).hotels[n]) THEN GetState(profiles, Req(c).hotels[n])
                                                    ELSE NoProfile
             more == Append(My(c), p)
  <2>1. Goto(c, "start", more) BY <1>2, <1>6 DEF GetBulkStateDefault
  <2>2. p \in FoundProfile BY <1>2 DEF Has, GetState, StatesOK, StateOf, FoundProfile
  <2> HIDE DEF p
  <2>3. more \in Seq(FoundProfile) BY <1>4, <2>2, AppendProperties
  <2> HIDE DEF more
  <2> QED BY <1>1, <1>2, <1>3, <2>1, <2>3, Names, GotoStep
<1> QED BY <1>1, <1>5, <1>6

LEMMA CheckAvailabilityStep ==
  ASSUME CallsOK, StatesOK, NEW c \in Clients, checkAvailabilityHandler(c)
  PROVE  Step(c) /\ UNCHANGED state
<1> DEFINE hotels == Req(c).hotels
           found == IF At(c, "start") THEN <<>> ELSE My(c)[1]
           n == IF At(c, "start") THEN 1 ELSE My(c)[2]
           more == IF checkAvailability(GetState(availability, hotels[n]), Req(c).from, Req(c).to,
                                        Req(c).rooms)
                   THEN Append(found, hotels[n]) ELSE found
<1>1. /\ Serving(c, "ro_check_availability") /\ UNCHANGED state
      /\ \/ Return(c, [hotels |-> found])
         \/ Panic(c)
         \/ n <= Len(hotels) /\ Goto(c, "checking", <<more, n + 1>>)
  BY DEF checkAvailabilityHandler, CheckAvailability
<1>2. /\ Req(c).hotels \in Seq(Hotels)
      /\ PlacesOf["ro_check_availability"] = {"start", "checking"}
      /\ Head(call[c]).at \in {"start", "checking"}
  <2>1. Req(c) \in CheckAvailabilityRequest BY <1>1, Serves DEF RequestOf
  <2>2. PlacesOf["ro_check_availability"] = {"start", "checking"} BY DEF PlacesOf
  <2> QED BY <1>1, <2>1, <2>2, Serves DEF CheckAvailabilityRequest
<1>3. LocalsAt("ro_check_availability", "checking") = Seq(Hotels) \X (Nat \ {0}) BY DEF LocalsAt
<1>4. found \in Seq(Hotels) /\ n \in Nat \ {0}
  <2>1. CASE At(c, "start") BY <2>1
  <2>2. CASE ~ At(c, "start")
    <3>1. At(c, "checking") BY <1>2, <2>2 DEF At
    <3>2. My(c) \in Seq(Hotels) \X (Nat \ {0}) BY <1>1, <1>3, <3>1, Serves
    <3> QED BY <2>2, <3>2
  <2> QED BY <2>1, <2>2
<1> HIDE DEF found, n
<1>5. ASSUME Return(c, [hotels |-> found]) PROVE Step(c)
  <2>1. [hotels |-> found] \in ReplyOf["ro_check_availability"]
    BY <1>4 DEF ReplyOf, CheckAvailabilityResponse
  <2> QED BY <1>1, <1>5, <2>1, ReturnStep
<1>6. ASSUME n <= Len(hotels), Goto(c, "checking", <<more, n + 1>>) PROVE Step(c)
  <2>1. hotels[n] \in Hotels
    <3>1. Len(hotels) \in Nat /\ \A i \in 1 .. Len(hotels) : hotels[i] \in Hotels
      BY <1>2, LenProperties, ElementOfSeq
    <3>2. n \in 1 .. Len(hotels) BY <1>4, <1>6, <3>1
    <3> QED BY <3>1, <3>2
  <2>2. more \in Seq(Hotels) BY <1>4, <2>1, AppendProperties
  <2> HIDE DEF more
  <2>3. <<more, n + 1>> \in LocalsAt("ro_check_availability", "checking") BY <1>3, <1>4, <2>2
  <2> QED BY <1>1, <1>2, <1>6, <2>3, Names, GotoStep
<1>7. ASSUME Panic(c) PROVE Step(c) BY <1>7 DEF Step
<1> QED BY <1>1, <1>5, <1>6, <1>7

LEMMA MakeReservationStep ==
  ASSUME CallsOK, StatesOK, NEW c \in Clients, makeReservation(c)
  PROVE  Step(c) /\ StatesOK'
<1>1. /\ Serving(c, "make_reservation") /\ UNCHANGED <<locations, rates, profiles, users>>
      /\ MakeReservation(c, Req(c).customer, Req(c).hotel, Req(c).from, Req(c).to, Req(c).rooms)
  BY DEF makeReservation, MakeReservation
<1>2. /\ Req(c) \in MakeReservationRequest /\ PlacesOf["make_reservation"] = {"start", "checked"}
      /\ Req(c).hotel \in Hotels
  <2>1. Req(c) \in MakeReservationRequest BY <1>1, Serves DEF RequestOf
  <2>2. PlacesOf["make_reservation"] = {"start", "checked"} BY DEF PlacesOf
  <2> QED BY <2>1, <2>2 DEF MakeReservationRequest
<1>3. LocalsAt("make_reservation", "checked") = GoodAvailability BY DEF LocalsAt
<1>4. CASE At(c, "start") /\ ~ Has(availability, Req(c).hotel)
  <2>1. Panic(c) /\ UNCHANGED state BY <1>1, <1>4 DEF MakeReservation, At, state
  <2> QED BY <2>1, StatesStay DEF Step
<1>5. CASE At(c, "start") /\ Has(availability, Req(c).hotel)
  <2> DEFINE copy == GetState(availability, Req(c).hotel)
             admits == checkAvailability(copy, Req(c).from, Req(c).to, Req(c).rooms)
  <2>1. /\ IF admits THEN Goto(c, "checked", copy) ELSE Return(c, [success |-> FALSE])
        /\ UNCHANGED state
    BY <1>1, <1>5 DEF MakeReservation, At, state
  <2>2. copy \in GoodAvailability BY <1>5 DEF Has, GetState, StatesOK, StateOf
  <2>3. [success |-> FALSE] \in ReplyOf["make_reservation"] BY DEF ReplyOf, MakeReservationResponse
  <2>4. CASE admits
    <3>1. Goto(c, "checked", copy) BY <2>1, <2>4
    <3>2. checkAvailability(copy, Req(c).from, Req(c).to, Req(c).rooms) BY <2>4
    <3> HIDE DEF copy
    <3> QED BY <1>1, <1>2, <1>3, <2>1, <2>2, <3>1, <3>2, Names, GotoStep, StatesStay
  <2>5. CASE ~ admits BY <1>1, <2>1, <2>3, <2>5, ReturnStep, StatesStay
  <2> QED BY <2>4, <2>5
<1>6. CASE At(c, "checked")
  <2> DEFINE new == [customer |-> Req(c).customer, from |-> Req(c).from, to |-> Req(c).to,
                     rooms |-> Req(c).rooms]
             w == [My(c) EXCEPT !.reservations = Append(DropOldest(@, MaxKept), new)]
  <2>1. /\ availability' = SetState(availability, Req(c).hotel, w)
        /\ Return(c, [success |-> TRUE])
    BY <1>1, <1>6 DEF MakeReservation, At
  <2>2. My(c) \in GoodAvailability BY <1>1, <1>3, <1>6, Serves
  <2>3. new \in Reservation BY <1>2, HotelAssumption DEF Reservation, MakeReservationRequest
  <2>4. checkAvailability(My(c), Req(c).from, Req(c).to, Req(c).rooms)
    <3>1. Admitted(Head(call[c])) BY <1>1, Serves, StackOf, FrameParts
    <3> QED BY <1>6, <3>1 DEF Admitted, At, My, Req
  <2>5. new.from = Req(c).from /\ new.to = Req(c).to /\ new.rooms = Req(c).rooms OBVIOUS
  <2> HIDE DEF new
  <2>6. w \in GoodAvailability BY <2>2, <2>3, <2>4, <2>5, ReservationAppend
  <2> HIDE DEF w
  <2>7. [success |-> TRUE] \in ReplyOf["make_reservation"] BY DEF ReplyOf, MakeReservationResponse
  <2>8. StateOf(availability, Hotels, GoodAvailability) BY DEF StatesOK
  <2>9. StateOf(availability', Hotels, GoodAvailability) BY <1>2, <2>1, <2>6, <2>8, StoredType
  <2>10. StatesOK' BY <1>1, <2>9 DEF StatesOK
  <2> QED BY <1>1, <2>1, <2>7, <2>10, ReturnStep
<1> QED BY <1>1, <1>4, <1>5, <1>6 DEF MakeReservation

LEMMA AddHotelAvailabilityStep ==
  ASSUME CallsOK, StatesOK, NEW c \in Clients, addHotelAvailability(c)
  PROVE  Step(c) /\ StatesOK'
<1> DEFINE a == [capacity |-> Req(c).capacity, reservations |-> <<>>]
<1>1. /\ Serving(c, "add_hotel_availability")
      /\ availability' = SetState(availability, Req(c).hotel, a)
      /\ Return(c, [hotel |-> Req(c).hotel])
      /\ UNCHANGED <<locations, rates, profiles, users>>
  BY DEF addHotelAvailability, AddHotelAvailability
<1>2. Req(c).hotel \in Hotels /\ Req(c).capacity \in Nat
  <2>1. Req(c) \in AddHotelAvailabilityRequest BY <1>1, Serves DEF RequestOf
  <2> QED BY <2>1, HotelAssumption DEF AddHotelAvailabilityRequest
<1>3. a \in GoodAvailability BY <1>2, NoReservations
<1> HIDE DEF a
<1>4. [hotel |-> Req(c).hotel] \in ReplyOf["add_hotel_availability"]
  BY <1>2 DEF ReplyOf, AddHotelAvailabilityResponse
<1>5. StateOf(availability, Hotels, GoodAvailability) BY DEF StatesOK
<1>6. StateOf(availability', Hotels, GoodAvailability) BY <1>1, <1>2, <1>3, <1>5, StoredType
<1>7. StatesOK' BY <1>1, <1>6 DEF StatesOK
<1> QED BY <1>1, <1>4, <1>7, ReturnStep

LEMMA RegisterUserStep ==
  ASSUME CallsOK, StatesOK, NEW c \in Clients, registerUser(c)
  PROVE  Step(c) /\ StatesOK'
<1> DEFINE u == [username |-> Req(c).username, password |-> hash(Req(c).password, c), salt |-> c]
<1>1. /\ Serving(c, "register_user") /\ users' = SetState(users, Req(c).username, u)
      /\ Return(c, [ok |-> TRUE])
      /\ UNCHANGED <<locations, rates, availability, profiles, log, raced>>
  BY DEF registerUser, RegisterUser
<1>2. Req(c).username \in Users /\ Req(c).password \in Passwords
  <2>1. Req(c) \in RegisterUserRequest BY <1>1, Serves DEF RequestOf
  <2> QED BY <2>1 DEF RegisterUserRequest
<1>3. u \in User BY <1>2 DEF User, hash, Salts
<1> HIDE DEF u
<1>4. [ok |-> TRUE] \in ReplyOf["register_user"] BY DEF ReplyOf, RegisterUserResponse
<1>5. StateOf(users, Users, User) BY DEF StatesOK
<1>6. StateOf(users', Users, User) BY <1>1, <1>2, <1>3, <1>5, StoredType
<1>7. StatesOK' BY <1>1, <1>6 DEF StatesOK
<1> QED BY <1>1, <1>4, <1>7, ReturnStep

LEMMA LoginStep ==
  ASSUME CallsOK, StatesOK, NEW c \in Clients, login(c)
  PROVE  Step(c) /\ UNCHANGED state
<1>1. /\ Serving(c, "login") /\ UNCHANGED state
      /\ Panic(c) \/ \E t \in {"OK", "NOT-OK"} : Return(c, [token |-> t])
  BY DEF login, Login
<1>2. \A t \in {"OK", "NOT-OK"} : [token |-> t] \in ReplyOf["login"] BY DEF ReplyOf, LoginResponse
<1>3. ASSUME Panic(c) PROVE Step(c) BY <1>3 DEF Step
<1>4. ASSUME NEW t \in {"OK", "NOT-OK"}, Return(c, [token |-> t]) PROVE Step(c)
  BY <1>1, <1>2, <1>4, ReturnStep
<1> QED BY <1>1, <1>3, <1>4

-----------------------------------------------------------------------------
(* Clients, and services that begin to listen. *)

LEMMA AsksStep ==
  ASSUME CallsOK, NEW c \in Clients, NEW e \in DOMAIN ResponseOf, NEW q \in RequestOf[e],
         Asks(c, e, q)
  PROVE  /\ CallsOK' /\ UNCHANGED <<up, answer>> /\ answer[c].ep = "none" /\ call[c] = <<>>
         /\ call'[c] = <<Frame(e, q)>> /\ \A d \in Clients : d # c => call'[d] = call[d]
<1> DEFINE f == Frame(e, q)
<1>1. /\ call[c] = <<>> /\ answer[c].ep = "none" /\ UNCHANGED <<up, answer>>
      /\ call' = [call EXCEPT ![c] = <<f>>]
  BY DEF Asks, Idle
<1>2. f \in Frames /\ f \in Heads /\ f.ep = e
  <2>1. e \in Eps BY Replies
  <2> QED BY <2>1, FrameStarts
<1>3. f \in Bottoms BY <1>2 DEF Bottoms
<1> HIDE DEF f
<1>4. <<f>> \in Calls
  <2>1. <<f>> \in Seq(Frames) /\ Len(<<f>>) = 1 /\ <<f>>[1] = f BY <1>2
  <2> QED BY <1>2, <1>3, <2>1 DEF Calls, Stacks
<1>5. call \in [Clients -> Calls] BY DEF CallsOK
<1>6. /\ call' \in [Clients -> Calls] /\ call'[c] = <<f>>
      /\ \A d \in Clients : d # c => call'[d] = call[d]
  BY <1>1, <1>4, <1>5
<1>7. CallsOK' BY <1>1, <1>6 DEF CallsOK
<1> QED BY <1>1, <1>6, <1>7 DEF f

\* A request of a client, to one of the endpoints it uses.
Asked(c) == \E e \in DOMAIN ResponseOf : \E q \in RequestOf[e] :
              Asks(c, e, q) /\ (e = "register_user" => Listening("user"))

LEMMA ClientAsks ==
  ASSUME NEW c \in Clients, Client(c)
  PROVE  Asked(c) /\ UNCHANGED state
<1>1. UNCHANGED state BY DEF Client
<1>2. \A s \in Stays : s[1] \in Dates /\ s[2] \in Dates
  <2> SUFFICES ASSUME NEW s \in Stays PROVE s[1] \in Dates /\ s[2] \in Dates OBVIOUS
  <2>1. s[1] \in {s[1], s[2]} /\ s[2] \in {s[1], s[2]} OBVIOUS
  <2> QED BY <2>1 DEF Dates
<1>3. ASSUME NEW l \in Locations, NEW s \in Stays,
             Asks(c, "ro_search_hotels", [from |-> s[1], to |-> s[2], location |-> l])
      PROVE  Asked(c)
  <2> DEFINE q == [from |-> s[1], to |-> s[2], location |-> l]
  <2>1. q \in RequestOf["ro_search_hotels"] BY <1>2 DEF RequestOf, SearchHotelsRequest
  <2> HIDE DEF q
  <2>2. Asks(c, "ro_search_hotels", q) BY <1>3 DEF q
  <2> QED BY <2>1, <2>2, Names DEF Asked
<1>4. ASSUME NEW q \in StoreHotelRequest, Asks(c, "store_hotel", q) PROVE Asked(c)
  <2>1. q \in RequestOf["store_hotel"] BY DEF RequestOf
  <2> QED BY <1>4, <2>1, Names DEF Asked
<1>5. ASSUME NEW h \in Hotels, NEW s \in Stays, NEW n \in Rooms, NEW u \in Users, NEW p \in Passwords,
             Asks(c, "reservation", [hotel |-> h, from |-> s[1], to |-> s[2], rooms |-> n,
                                     username |-> u, password |-> p])
      PROVE  Asked(c)
  <2> DEFINE q == [hotel |-> h, from |-> s[1], to |-> s[2], rooms |-> n,
                   username |-> u, password |-> p]
  <2>1. q \in FrontendReservationRequest BY <1>2 DEF FrontendReservationRequest
  <2>2. q \in RequestOf["reservation"] BY <2>1 DEF RequestOf
  <2>3. Asks(c, "reservation", q) BY <1>5
  <2> HIDE DEF q
  <2> QED BY <2>2, <2>3, Names DEF Asked
<1>6. ASSUME Listening("user"), NEW q \in RegisterUserRequest, Asks(c, "register_user", q)
      PROVE  Asked(c)
  <2>1. q \in RequestOf["register_user"] BY DEF RequestOf
  <2> QED BY <1>6, <2>1, Names DEF Asked
<1> QED BY <1>1, <1>3, <1>4, <1>5, <1>6 DEF Client

\* The values the services begin with.
LEMMA InitialValues ==
  /\ StateOf(<<>>, Locations, GoodLocation) /\ StateOf(<<>>, Hotels, Rate)
  /\ StateOf(<<>>, Hotels, GoodAvailability) /\ StateOf(<<>>, Hotels, HotelProfile)
  /\ StateOf(<<>>, Users, User)
  /\ StateOf(InitLocations, Locations, GoodLocation) /\ StateOf(InitRates, Hotels, Rate)
  /\ StateOf(InitHotelAvailability, Hotels, GoodAvailability)
  /\ StateOf(InitProfiles, Hotels, HotelProfile) /\ StateOf(InitUsers, Users, User)
  /\ CatalogHotels \subseteq Hotels
<1>1. CatalogHotels \subseteq Hotels
  <2> SUFFICES ASSUME NEW l \in DOMAIN Catalog, NEW i \in DOMAIN Catalog[l]
               PROVE  Catalog[l][i] \in Hotels
    BY DEF CatalogHotels
  <2>1. Catalog[l] \in Seq(Hotels) BY HotelAssumption
  <2> QED BY <2>1, ElementOfSeq, LenProperties
<1>2. \A K, V : StateOf(<<>>, K, V) BY DEF StateOf
<1>3. StateOf(InitLocations, Locations, GoodLocation)
  <2> SUFFICES ASSUME NEW l \in DOMAIN Catalog
               PROVE  l \in Locations /\ Newest(Seeded(l), MaxKept) \in GoodLocation
    BY DEF StateOf, InitLocations
  <2>1. Seeded(l) \in Seq(Hotels) /\ l \in Locations /\ MaxKept \in Nat
    BY HotelAssumption DEF Seeded
  <2>2. Len(Seeded(l)) \in Nat BY <2>1, LenProperties
  <2> DEFINE n == Newest(Seeded(l), MaxKept)
  <2>3. /\ n \in Seq(Hotels)
        /\ Len(n) = IF Len(Seeded(l)) > MaxKept THEN MaxKept ELSE Len(Seeded(l))
    BY <2>1, NewestParts
  <2> HIDE DEF n
  <2>4. Len(n) <= MaxKept BY <2>1, <2>2, <2>3
  <2>5. n \in GoodLocation BY <2>3, <2>4 DEF GoodLocation
  <2> QED BY <2>1, <2>5 DEF n
<1>4. StateOf(InitRates, Hotels, Rate) BY <1>1 DEF StateOf, InitRates, Rate
<1>5. StateOf(InitHotelAvailability, Hotels, GoodAvailability)
  <2>1. [capacity |-> SeedCapacity, reservations |-> <<>>] \in GoodAvailability
    BY HotelAssumption, NoReservations
  <2> QED BY <1>1, <2>1 DEF StateOf, InitHotelAvailability
<1>6. StateOf(InitProfiles, Hotels, HotelProfile) BY <1>1 DEF StateOf, InitProfiles, HotelProfile
<1>7. StateOf(InitUsers, Users, User)
  BY HotelAssumption DEF StateOf, InitUsers, User, Salts, hash
<1> QED BY <1>1, <1>2, <1>3, <1>4, <1>5, <1>6, <1>7

LEMMA MainStep ==
  ASSUME CallsOK, StatesOK, main
  PROVE  CallsOK' /\ StatesOK' /\ UNCHANGED <<call, answer, log, raced>>
<1>1. UNCHANGED <<call, answer, log, raced>>
  BY DEF main, reservationMain, searchMain, rateMain, profileMain, userMain, Listen
<1>2. CallsOK' BY <1>1 DEF CallsOK
<1>3. CASE reservationMain
  <2>1. availability' = InitHotelAvailability /\ UNCHANGED <<locations, rates, profiles, users>>
    BY <1>3 DEF reservationMain
  <2> QED BY <1>1, <1>2, <2>1, InitialValues DEF StatesOK
<1>4. CASE searchMain
  <2>1. locations' = InitLocations /\ UNCHANGED <<availability, rates, profiles, users>>
    BY <1>4 DEF searchMain
  <2> QED BY <1>1, <1>2, <2>1, InitialValues DEF StatesOK
<1>5. CASE rateMain
  <2>1. rates' = InitRates /\ UNCHANGED <<availability, locations, profiles, users>>
    BY <1>5 DEF rateMain
  <2> QED BY <1>1, <1>2, <2>1, InitialValues DEF StatesOK
<1>6. CASE profileMain
  <2>1. profiles' = InitProfiles /\ UNCHANGED <<availability, locations, rates, users>>
    BY <1>6 DEF profileMain
  <2> QED BY <1>1, <1>2, <2>1, InitialValues DEF StatesOK
<1>7. CASE userMain
  <2>1. users' = InitUsers /\ UNCHANGED <<availability, locations, rates, profiles>>
    BY <1>7 DEF userMain
  <2> QED BY <1>1, <1>2, <2>1, InitialValues DEF StatesOK
<1> QED BY <1>3, <1>4, <1>5, <1>6, <1>7 DEF main

LEMMA HandleStep ==
  ASSUME CallsOK, StatesOK, NEW c \in Clients, Handle(c)
  PROVE  Step(c) /\ StatesOK' /\ call[c] # <<>>
<1>1. Step(c) /\ StatesOK'
  BY SearchHotelsStep, StoreHotelStep, ReservationStep, NearbyStep, StoreHotelLocationStep,
     StoreRateStep, GetRatesStep, StoreProfileStep, GetProfilesStep, CheckAvailabilityStep,
     MakeReservationStep, AddHotelAvailabilityStep, RegisterUserStep, LoginStep, StatesStay
  DEF Handle
<1>2. call[c] # <<>>
  BY DEF Handle, searchHotels, storeHotel, reservation, nearby, storeHotelLocation, storeRate,
         getRates, checkAvailabilityHandler, makeReservation, addHotelAvailability, storeProfile,
         getProfiles, registerUser, login, Serving
<1> QED BY <1>1, <1>2

LEMMA InitOK == Init => CallsOK /\ StatesOK
<1> SUFFICES ASSUME Init PROVE CallsOK /\ StatesOK OBVIOUS
<1>1. StatesOK BY InitialValues DEF Init, StatesOK
<1> DEFINE a == [ep |-> "none", req |-> <<>>, ok |-> FALSE, res |-> <<>>]
<1>2. call = [c \in Clients |-> <<>>] /\ answer = [c \in Clients |-> a]
  BY DEF Init, InitServices
<1>3. <<>> \in Calls BY EmptySeq DEF Calls, Stacks
<1>4. a \in Answers BY DEF Answers, Results
<1>5. a.ok = FALSE OBVIOUS
<1> HIDE DEF a
<1>6. CallsOK BY <1>2, <1>3, <1>4, <1>5 DEF CallsOK
<1> QED BY <1>1, <1>6

LEMMA NextOK == CallsOK /\ StatesOK /\ [Next]_vars => CallsOK' /\ StatesOK'
<1> SUFFICES ASSUME CallsOK, StatesOK, [Next]_vars PROVE CallsOK' /\ StatesOK' OBVIOUS
<1>1. CASE main BY <1>1, MainStep
<1>2. ASSUME NEW c \in Clients, Client(c) PROVE CallsOK' /\ StatesOK'
  <2>1. Asked(c) /\ UNCHANGED state BY <1>2, ClientAsks
  <2>2. PICK e \in DOMAIN ResponseOf : \E q \in RequestOf[e] : Asks(c, e, q) BY <2>1 DEF Asked
  <2>3. CallsOK' BY <2>2, AsksStep
  <2> QED BY <2>1, <2>3, StatesStay
<1>3. ASSUME NEW c \in Clients, Handle(c) PROVE CallsOK' /\ StatesOK'
  BY <1>3, HandleStep, StepOK
<1>4. CASE UNCHANGED vars
  <2>1. UNCHANGED <<call, answer, up>> /\ UNCHANGED state BY <1>4 DEF vars, svars
  <2> QED BY <2>1, StatesStay DEF CallsOK
<1> QED BY <1>1, <1>2, <1>3, <1>4 DEF Next

LEMMA AlwaysOK == Spec => [](CallsOK /\ StatesOK)
<1>1. Init => CallsOK /\ StatesOK BY InitOK
<1>2. (CallsOK /\ StatesOK) /\ [Next]_vars => (CallsOK /\ StatesOK)' BY NextOK
<1> QED BY <1>1, <1>2, PTL DEF Spec

(* Every request and response has the fields its endpoint declares, every   *)
(* service holds well-formed values, no list exceeds its bound (the handlers*)
(* of src/app/internal/hotel, whatever their interleaving).                 *)
THEOREM Typed == Spec => []TypeOK
<1>1. CallsOK /\ StatesOK => TypeOK
  <2> SUFFICES ASSUME CallsOK, StatesOK PROVE TypeOK OBVIOUS
  <2>1. /\ StateOf(locations, Locations, Seq(Hotels)) /\ StateOf(rates, Hotels, Rate)
        /\ StateOf(availability, Hotels, HotelAvailability)
        /\ StateOf(profiles, Hotels, HotelProfile) /\ StateOf(users, Users, User)
        /\ \A l \in DOMAIN locations : Len(locations[l]) <= MaxKept
        /\ \A h \in DOMAIN availability : Len(availability[h].reservations) <= MaxKept
    BY DEF StatesOK, StateOf, GoodLocation, GoodAvailability
  <2>2. ASSUME NEW c \in Clients
        PROVE  /\ \A f \in Handlers(c) : f.req \in RequestOf[f.ep]
               /\ ~Idle(c) /\ Head(call[c]).at \in DOMAIN ResponseAt
                    => Res(c) \in ResponseAt[Head(call[c]).at]
               /\ answer[c].ok => answer[c].res \in ResponseOf[answer[c].ep]
    <3>1. answer[c].ok => answer[c].res \in ResponseOf[answer[c].ep] BY DEF CallsOK
    <3>2. call[c] \in Seq(Frames) BY DEF CallsOK, Calls, Stacks
    <3>3. \A f \in Handlers(c) : f.req \in RequestOf[f.ep]
      BY <3>2, LenProperties, ElementOfSeq, FrameParts DEF Handlers
    <3>4. ASSUME ~Idle(c), Head(call[c]).at \in DOMAIN ResponseAt
          PROVE  Res(c) \in ResponseAt[Head(call[c]).at]
      <4>1. call[c] # <<>> BY <3>4 DEF Idle
      <4>2. Head(call[c]) \in Heads BY <4>1, StackOf
      <4> QED BY <3>4, <4>2, Names, Replies DEF Heads, Res
    <3> QED BY <3>1, <3>3, <3>4
  <2> QED BY <2>1, <2>2 DEF TypeOK
<1> QED BY <1>1, AlwaysOK, PTL

(* No stored reservation was admitted beyond the capacity of its hotel,     *)
(* whatever overlaps: MakeReservation writes the copy it checked.           *)
THEOREM Fitting == Spec => []ReservationsFit
<1>1. CallsOK /\ StatesOK => ReservationsFit
  BY DEF StatesOK, StateOf, GoodAvailability, ReservationsFit
<1> QED BY <1>1, AlwaysOK, PTL

-----------------------------------------------------------------------------
(* Lists lose nothing without a race. *)

\* A service that serves a request listens.
Served ==
  \A c \in Clients : \A i \in 1 .. Len(call[c]) : \A s \in DOMAIN Endpoints :
    call[c][i].ep \in Endpoints[s] => Listening(s)

LogOK ==
  /\ DOMAIN log = Hotels \cup Locations
  /\ \A h \in Hotels : log[h] \in Seq(Reservation)
  /\ \A l \in Locations : log[l] \in Seq(Hotels)

\* The innermost handler of c has a copy of a list.
Holds(c, place) == call[c] # <<>> /\ At(c, place)

\* A list that was not raced is what was appended to it, and so are the copies
\* that are going to be written.
ReservationsKept ==
  /\ \A h \in DOMAIN availability :
       h \notin raced => availability[h].reservations = Newest(log[h], MaxKept)
  /\ \A c \in Clients : Holds(c, "checked") /\ Req(c).hotel \notin raced =>
       /\ Req(c).hotel \in DOMAIN availability
       /\ My(c).reservations = availability[Req(c).hotel].reservations
  /\ ~Listening("reservation") => \A h \in Hotels : log[h] = <<>>

LocationsKept ==
  /\ \A l \in Locations : l \notin raced /\ Listening("search") =>
       getHotelIdsForLocation(l) = Newest(log[l], MaxKept)
  /\ \A c \in Clients : Holds(c, "loaded") /\ Req(c).location \notin raced =>
       My(c) = getHotelIdsForLocation(Req(c).location)
  /\ ~Listening("search") => locations = <<>> /\ \A l \in Locations : log[l] = Seeded(l)

-----------------------------------------------------------------------------
(* Hotels are known where they are looked up. *)

\* The handler that serves what the client of c asked for.
Bottom(c) == call[c][Len(call[c])]

\* A request to store h has not got past places, or has failed.
Storing(c, h, places) ==
  /\ call[c] # <<>> /\ Bottom(c).ep = "store_hotel"
  /\ Bottom(c).req.hotel = h /\ Bottom(c).at \in places
Failed(c, h) == answer[c].ep = "store_hotel" /\ ~answer[c].ok /\ answer[c].req.hotel = h
Pending(h, places) == \E c \in Clients : Storing(c, h, places) \/ Failed(c, h)

BeforeRate == {"storedLocation", "storedRate"}
BeforeAvailability == {"storedLocation", "storedRate", "addedAvailability"}
BeforeProfile == {"storedLocation", "storedRate", "addedAvailability", "storedProfile"}

Known(h) ==
  /\ h \in CatalogHotels \/ h \in DOMAIN rates \/ Pending(h, BeforeRate)
  /\ h \in CatalogHotels \/ h \in DOMAIN availability \/ Pending(h, BeforeAvailability)
  /\ h \in CatalogHotels \/ h \in DOMAIN profiles \/ Pending(h, BeforeProfile)

AllKnown(list) == \A i \in DOMAIN list : Known(list[i])

\* What a request to store a hotel has got done at each of its places.
Progress ==
  \A c \in Clients : call[c] # <<>> /\ Bottom(c).ep = "store_hotel" =>
    LET h == Bottom(c).req.hotel
        done(place) == Bottom(c).at = place /\ Len(call[c]) = 1
    IN /\ Bottom(c).at \in {"addedAvailability", "storedProfile"} \/ done("storedRate")
            => h \in DOMAIN rates
       /\ Bottom(c).at = "storedProfile" \/ done("addedAvailability") => h \in DOMAIN availability
       /\ done("storedProfile") => h \in DOMAIN profiles

CatalogKnown ==
  /\ IF Listening("rate") THEN CatalogHotels \subseteq DOMAIN rates ELSE rates = <<>>
  /\ IF Listening("reservation") THEN CatalogHotels \subseteq DOMAIN availability
                                 ELSE availability = <<>>
  /\ IF Listening("profile") THEN CatalogHotels \subseteq DOMAIN profiles ELSE profiles = <<>>

ListsKnown ==
  /\ \A l \in DOMAIN locations : AllKnown(locations[l])
  /\ \A c \in Clients : Holds(c, "loaded") => AllKnown(My(c))

-----------------------------------------------------------------------------
(* The ways a step of c changes its stack: the request is over, the        *)
(* innermost handler went on, called another one, or returned.             *)

Over(c) ==
  /\ call'[c] = <<>> /\ answer'[c].ep = Bottom(c).ep /\ answer'[c].req = Bottom(c).req
  /\ answer'[c].ok => Len(call[c]) = 1
Went(c) ==
  /\ Len(call'[c]) = Len(call[c]) /\ answer'[c] = answer[c]
  /\ call'[c][1].ep = call[c][1].ep /\ call'[c][1].req = call[c][1].req
  /\ call'[c][1].at \in PlacesOf[call[c][1].ep] \ DOMAIN Callee
  /\ \A i \in 2 .. Len(call[c]) : call'[c][i] = call[c][i]
Deeper(c) ==
  /\ Len(call'[c]) = Len(call[c]) + 1 /\ answer'[c] = answer[c]
  /\ call'[c][1].at = "start"
  /\ \E s \in DOMAIN Endpoints : call'[c][1].ep \in Endpoints[s] /\ <<s, call'[c][1].ep>> \in up
  /\ call'[c][2].ep = call[c][1].ep /\ call'[c][2].req = call[c][1].req
  /\ \A i \in 3 .. Len(call[c]) + 1 : call'[c][i] = call[c][i - 1]
Back(c) ==
  /\ Len(call[c]) > 1 /\ Len(call'[c]) = Len(call[c]) - 1 /\ answer'[c] = answer[c]
  /\ call'[c][1].ep = call[c][2].ep /\ call'[c][1].req = call[c][2].req
  /\ call'[c][1].at = call[c][2].at /\ call'[c][1].at \in DOMAIN Callee
  /\ \A i \in 2 .. Len(call[c]) - 1 : call'[c][i] = call[c][i + 1]
Others(c) ==
  UNCHANGED up /\ \A d \in Clients : d # c => call'[d] = call[d] /\ answer'[d] = answer[d]

LEMMA EndedOver ==
  ASSUME CallsOK, NEW c \in Clients, call[c] # <<>>, NEW ok, NEW r,
         ok => Len(call[c]) = 1, Ended(c, ok, r)
  PROVE  Over(c) /\ Others(c)
<1> DEFINE a == [ep |-> Bottom(c).ep, req |-> Bottom(c).req, ok |-> ok, res |-> r]
<1>1. /\ call' = [call EXCEPT ![c] = <<>>] /\ answer' = [answer EXCEPT ![c] = a] /\ UNCHANGED up
  BY DEF Ended, Bottom
<1>2. a.ep = Bottom(c).ep /\ a.req = Bottom(c).req /\ a.ok = ok OBVIOUS
<1> HIDE DEF a
<1>3. call \in [Clients -> Calls] /\ answer \in [Clients -> Answers] BY DEF CallsOK
<1>4. /\ call'[c] = <<>> /\ answer'[c] = a
      /\ \A d \in Clients : d # c => call'[d] = call[d] /\ answer'[d] = answer[d]
  BY <1>1, <1>3
<1> QED BY <1>1, <1>2, <1>4 DEF Over, Others

LEMMA PanicOver ==
  ASSUME CallsOK, NEW c \in Clients, call[c] # <<>>, Panic(c)
  PROVE  Over(c) /\ Others(c)
BY EndedOver DEF Panic

LEMMA UpStays ==
  ASSUME NEW c, NEW service, NEW e, NEW q, NEW r, NEW place, NEW my
  PROVE  Goto(c, place, my) \/ Invoke(c, service, e, q, place) \/ Return(c, r) => UNCHANGED up
BY DEF Goto, Invoke, performRequest, Return, Panic, Ended

LEMMA Returned ==
  ASSUME CallsOK, NEW c \in Clients, call[c] # <<>>, NEW r \in ReplyOf[Head(call[c]).ep], Return(c, r)
  PROVE  Others(c) /\ (Over(c) \/ Back(c))
<1>1. UNCHANGED up BY DEF Return, Ended
<1>2. CASE Len(call[c]) = 1 /\ Ended(c, TRUE, r) BY <1>2, EndedOver
<1>3. CASE ~ (Len(call[c]) = 1 /\ Ended(c, TRUE, r))
  <2>1. /\ Len(call[c]) > 1
        /\ Len(call'[c]) = Len(call[c]) - 1 /\ UNCHANGED answer
        /\ call'[c][1].at = call[c][2].at
        /\ call'[c][1].ep = call[c][2].ep /\ call'[c][1].req = call[c][2].req
        /\ \A i \in 2 .. Len(call[c]) - 1 : call'[c][i] = call[c][i + 1]
        /\ \A d \in Clients : d # c => call'[d] = call[d]
    BY <1>3, EndsOrReturns
  <2>2. call[c][2].at \in DOMAIN Callee
    <3>1. /\ Len(call[c]) \in Nat
          /\ \A i \in 1 .. Len(call[c]) - 1 : <<call[c][i], call[c][i + 1]>> \in Links
      BY StackOf
    <3>2. \A n \in Nat : n > 1 => 1 \in 1 .. n - 1 /\ 1 + 1 = 2 OBVIOUS
    <3>3. <<call[c][1], call[c][2]>> \in Links BY <2>1, <3>1, <3>2
    <3> QED BY <3>3 DEF Links
  <2>3. Back(c) BY <2>1, <2>2 DEF Back
  <2> QED BY <1>1, <2>1, <2>3 DEF Others
<1> QED BY <1>2, <1>3

LEMMA Outcomes ==
  ASSUME CallsOK, NEW c \in Clients, call[c] # <<>>, Step(c)
  PROVE  Others(c) /\ (Over(c) \/ Went(c) \/ Deeper(c) \/ Back(c))
<1> DEFINE f == Head(call[c])
<1>1. f = call[c][1] BY StackOf
<1>2. CASE Panic(c) BY <1>2, PanicOver
<1>3. ASSUME NEW r \in ReplyOf[f.ep], Return(c, r) PROVE Others(c) /\ (Over(c) \/ Back(c))
  BY <1>3, Returned
<1>4. ASSUME NEW place \in PlacesOf[f.ep] \ DOMAIN Callee, NEW my \in LocalsAt(f.ep, place),
             place = "checked" => checkAvailability(my, f.req.from, f.req.to, f.req.rooms),
             Goto(c, place, my)
      PROVE  Others(c) /\ Went(c)
  <2>1. UNCHANGED up BY <1>4 DEF Goto
  <2>2. /\ Len(call'[c]) = Len(call[c]) /\ UNCHANGED answer /\ call'[c][1].at = place
        /\ call'[c][1].ep = Head(call[c]).ep /\ call'[c][1].req = Head(call[c]).req
        /\ \A i \in 2 .. Len(call[c]) : call'[c][i] = call[c][i]
        /\ \A d \in Clients : d # c => call'[d] = call[d]
    BY <1>4, GoesOn
  <2> QED BY <1>1, <2>1, <2>2 DEF Others, Went
<1>5. ASSUME NEW service \in DOMAIN Endpoints, NEW place \in PlacesOf[f.ep] \cap DOMAIN Callee,
             NEW q \in RequestOf[Callee[place]], f.my = <<>>, Callee[place] \in Endpoints[service],
             SameHotel(Frame(Callee[place], q), f), Invoke(c, service, Callee[place], q, place)
      PROVE  Others(c) /\ (Over(c) \/ Deeper(c))
  <2>1. CASE ~ Panic(c)
    <3>1. /\ Len(call'[c]) = Len(call[c]) + 1 /\ UNCHANGED answer
          /\ <<service, Callee[place]>> \in up
          /\ call'[c][1] = Frame(Callee[place], q)
          /\ call'[c][2].ep = Head(call[c]).ep /\ call'[c][2].req = Head(call[c]).req
          /\ \A i \in 3 .. Len(call[c]) + 1 : call'[c][i] = call[c][i - 1]
          /\ \A d \in Clients : d # c => call'[d] = call[d]
      BY <1>5, <2>1, EndsOrCalls
    <3>2. UNCHANGED up BY <1>5, UpStays
    <3>3. call'[c][1].at = "start" /\ call'[c][1].ep = Callee[place] BY <3>1 DEF Frame
    <3> QED BY <1>1, <1>5, <3>1, <3>2, <3>3 DEF Others, Deeper
  <2> QED BY <2>1, PanicOver
<1> QED BY <1>2, <1>3, <1>4, <1>5 DEF Step

-----------------------------------------------------------------------------
(* Served. *)

LEMMA OneService ==
  ASSUME NEW s \in DOMAIN Endpoints, NEW t \in DOMAIN Endpoints, NEW e \in Endpoints[s], e \in Endpoints[t]
  PROVE  s = t
<1>1. DOMAIN Endpoints = {"reservation", "search", "rate", "profile", "user"} BY DEF Endpoints
<1> QED BY <1>1 DEF Endpoints

LEMMA ServedStep ==
  ASSUME CallsOK, Served, NEW c \in Clients, call[c] # <<>>, Step(c)
  PROVE  Served'
<1>1. Others(c) /\ (Over(c) \/ Went(c) \/ Deeper(c) \/ Back(c)) BY Outcomes
<1>2. Len(call[c]) \in Nat /\ Len(call[c]) >= 1 BY StackOf
<1>3. \A s : Listening(s)' = Listening(s) BY <1>1 DEF Others, Listening
<1>4. ASSUME NEW i \in 1 .. Len(call'[c]), NEW s \in DOMAIN Endpoints, call'[c][i].ep \in Endpoints[s]
      PROVE  Listening(s)
  <2>1. \A j \in 1 .. Len(call[c]) : call'[c][i].ep = call[c][j].ep => Listening(s)
    BY <1>4 DEF Served
  <2>2. CASE Over(c)
    <3>1. Len(call'[c]) = 0 BY <2>2, EmptySeq DEF Over
    <3> QED BY <3>1
  <2>3. CASE Went(c)
    <3>1. i \in 1 .. Len(call[c]) /\ (i = 1 \/ i \in 2 .. Len(call[c])) BY <1>2, <2>3 DEF Went
    <3>2. call'[c][i].ep = call[c][i].ep BY <2>3, <3>1 DEF Went
    <3> QED BY <2>1, <3>1, <3>2
  <2>4. CASE Back(c)
    <3>1. /\ i = 1 \/ i \in 2 .. Len(call[c]) - 1
          /\ i + 1 \in 1 .. Len(call[c]) /\ (i = 1 => i + 1 = 2)
      BY <1>2, <2>4 DEF Back
    <3>2. call'[c][i].ep = call[c][i + 1].ep BY <2>4, <3>1 DEF Back
    <3> QED BY <2>1, <3>1, <3>2
  <2>5. CASE Deeper(c)
    <3>1. \/ i = 1
          \/ i = 2 /\ 1 \in 1 .. Len(call[c])
          \/ i \in 3 .. Len(call[c]) + 1 /\ i - 1 \in 1 .. Len(call[c])
      BY <1>2, <2>5 DEF Deeper
    <3>2. CASE i = 1
      <4>1. PICK t \in DOMAIN Endpoints : call'[c][1].ep \in Endpoints[t] /\ <<t, call'[c][1].ep>> \in up
        BY <2>5 DEF Deeper
      <4>2. t = s BY <1>4, <3>2, <4>1, OneService
      <4> QED BY <4>1, <4>2 DEF Listening
    <3>3. CASE i = 2 /\ 1 \in 1 .. Len(call[c]) BY <2>1, <2>5, <3>3 DEF Deeper
    <3>4. CASE i \in 3 .. Len(call[c]) + 1 /\ i - 1 \in 1 .. Len(call[c])
      BY <2>1, <2>5, <3>4 DEF Deeper
    <3> QED BY <3>1, <3>2, <3>3, <3>4
  <2> QED BY <1>1, <2>2, <2>3, <2>4, <2>5
<1>5. ASSUME NEW d \in Clients, NEW i \in 1 .. Len(call'[d]), NEW s \in DOMAIN Endpoints,
             call'[d][i].ep \in Endpoints[s]
      PROVE  Listening(s)
  <2>1. CASE d = c BY <1>4, <1>5, <2>1
  <2>2. CASE d # c
    <3>1. call'[d] = call[d] BY <1>1, <2>2 DEF Others
    <3> QED BY <1>5, <3>1 DEF Served
  <2> QED BY <2>1, <2>2
<1> QED BY <1>3, <1>5 DEF Served, Endpoints

LEMMA ServedAsks ==
  ASSUME CallsOK, Served, NEW c \in Clients, Asked(c)
  PROVE  Served'
<1>1. PICK e \in DOMAIN ResponseOf : \E q \in RequestOf[e] :
             Asks(c, e, q) /\ (e = "register_user" => Listening("user"))
  BY DEF Asked
<1>2. PICK q \in RequestOf[e] : Asks(c, e, q) BY <1>1
<1>3. /\ UNCHANGED <<up, answer>> /\ call'[c] = <<Frame(e, q)>>
      /\ \A d \in Clients : d # c => call'[d] = call[d]
  BY <1>2, AsksStep
<1>4. \A s : Listening(s)' = Listening(s) BY <1>3 DEF Listening
<1>5. \A s \in DOMAIN Endpoints : e \in Endpoints[s] => s = "user" /\ e = "register_user"
  BY Names DEF Endpoints
<1>6. Len(call'[c]) = 1 /\ call'[c][1].ep = e BY <1>3 DEF Frame
<1>7. ASSUME NEW d \in Clients, NEW i \in 1 .. Len(call'[d]), NEW s \in DOMAIN Endpoints,
             call'[d][i].ep \in Endpoints[s]
      PROVE  Listening(s)
  <2>1. CASE d = c
    <3>1. i = 1
      <4>1. Len(call'[d]) = 1 BY <1>6, <2>1
      <4>2. \A j : j \in 1 .. 1 => j = 1 OBVIOUS
      <4> QED BY <4>1, <4>2
    <3> QED BY <1>1, <1>5, <1>6, <1>7, <2>1, <3>1
  <2>2. CASE d # c
    <3>1. call'[d] = call[d] BY <1>3, <2>2
    <3> QED BY <1>7, <3>1 DEF Served
  <2> QED BY <2>1, <2>2
<1> QED BY <1>4, <1>7 DEF Served, Endpoints

\* Services go on listening, and the one that begins did not listen.
LEMMA MainListens ==
  ASSUME main
  PROVE  /\ \A s : Listening(s) => Listening(s)'
         /\ \E s \in DOMAIN Endpoints :
              /\ ~Listening(s) /\ Listening(s)' /\ \A t : t # s => (Listening(t)' = Listening(t))
              /\ IF s = "reservation" THEN availability' = InitHotelAvailability
                                      ELSE UNCHANGED availability
              /\ IF s = "search" THEN locations' = InitLocations ELSE UNCHANGED locations
              /\ IF s = "rate" THEN rates' = InitRates ELSE UNCHANGED rates
              /\ IF s = "profile" THEN profiles' = InitProfiles ELSE UNCHANGED profiles
<1>1. ASSUME NEW s \in DOMAIN Endpoints, Listen(s, Endpoints[s])
      PROVE  /\ ~Listening(s) /\ Listening(s)' /\ \A t : t # s => (Listening(t)' = Listening(t))
             /\ \A t : Listening(t) => Listening(t)'
  <2>1. ~Listening(s) /\ up' = up \cup ({s} \X Endpoints[s]) BY <1>1 DEF Listen
  <2>2. \E e \in Endpoints[s] : TRUE
    <3>1. DOMAIN Endpoints = {"reservation", "search", "rate", "profile", "user"} BY DEF Endpoints
    <3> QED BY <3>1 DEF Endpoints
  <2>3. PICK e \in Endpoints[s] : TRUE BY <2>2
  <2>4. <<s, e>> \in up' /\ <<s, e>>[1] = s BY <2>1, <2>3
  <2>5. \A u \in {s} \X Endpoints[s] : u[1] = s OBVIOUS
  <2> QED BY <2>1, <2>4, <2>5 DEF Listening
<1>2. CASE reservationMain
  <2>1. Listen("reservation", Endpoints["reservation"]) /\ availability' = InitHotelAvailability
        /\ UNCHANGED <<locations, rates, profiles, users, log, raced>>
    BY <1>2 DEF reservationMain
  <2>2. "reservation" \in DOMAIN Endpoints BY DEF Endpoints
  <2> QED BY <1>1, <2>1, <2>2
<1>3. CASE searchMain
  <2>1. Listen("search", Endpoints["search"]) /\ locations' = InitLocations
        /\ UNCHANGED <<rates, availability, profiles, users, log, raced>>
    BY <1>3 DEF searchMain
  <2>2. "search" \in DOMAIN Endpoints BY DEF Endpoints
  <2> QED BY <1>1, <2>1, <2>2
<1>4. CASE rateMain
  <2>1. Listen("rate", Endpoints["rate"]) /\ rates' = InitRates
        /\ UNCHANGED <<locations, availability, profiles, users, log, raced>>
    BY <1>4 DEF rateMain
  <2>2. "rate" \in DOMAIN Endpoints BY DEF Endpoints
  <2> QED BY <1>1, <2>1, <2>2
<1>5. CASE profileMain
  <2>1. Listen("profile", Endpoints["profile"]) /\ profiles' = InitProfiles
        /\ UNCHANGED <<locations, rates, availability, users, log, raced>>
    BY <1>5 DEF profileMain
  <2>2. "profile" \in DOMAIN Endpoints BY DEF Endpoints
  <2> QED BY <1>1, <2>1, <2>2
<1>6. CASE userMain
  <2>1. Listen("user", Endpoints["user"])
        /\ UNCHANGED <<locations, rates, availability, profiles, log, raced>>
    BY <1>6 DEF userMain
  <2>2. "user" \in DOMAIN Endpoints BY DEF Endpoints
  <2> QED BY <1>1, <2>1, <2>2
<1> QED BY <1>2, <1>3, <1>4, <1>5, <1>6 DEF main

LEMMA ServedMain == ASSUME Served, main, UNCHANGED call PROVE Served'
<1>1. \A s : Listening(s) => Listening(s)' BY MainListens
<1> QED BY <1>1 DEF Served, Endpoints

-----------------------------------------------------------------------------
(* Copies that are held. *)

LEMMA HeadFirst == \A s \in Calls : s # <<>> => Head(s) = s[1] /\ Len(s) \in Nat /\ Len(s) >= 1
BY StackParts DEF Calls, Stacks

LEMMA HoldingPlaces ==
  \A e \in Eps : /\ "checked" \in PlacesOf[e] => e = "make_reservation"
                 /\ "loaded" \in PlacesOf[e] => e = "store_hotel_location"
BY Names DEF PlacesOf

LEMMA HeldIs ==
  ASSUME CallsOK, NEW c \in Clients
  PROVE  /\ Holds(c, "checked") => /\ Serving(c, "make_reservation") /\ Req(c).hotel \in Hotels
                                   /\ My(c) \in GoodAvailability /\ Req(c) \in MakeReservationRequest
         /\ Holds(c, "loaded") => /\ Serving(c, "store_hotel_location") /\ Req(c).location \in Locations
                                  /\ My(c) \in GoodLocation
<1>1. ASSUME Holds(c, "checked")
      PROVE  /\ Serving(c, "make_reservation") /\ Req(c).hotel \in Hotels
             /\ My(c) \in GoodAvailability /\ Req(c) \in MakeReservationRequest
  <2>1. /\ call[c] # <<>> /\ Head(call[c]).at = "checked" /\ Head(call[c]) \in Frames
    BY <1>1, StackOf DEF Holds, At
  <2>2. Head(call[c]).ep = "make_reservation" BY <2>1, FrameParts, HoldingPlaces
  <2>3. Serving(c, "make_reservation") BY <2>1, <2>2 DEF Serving
  <2>4. Req(c) \in MakeReservationRequest BY <2>3, Serves DEF RequestOf
  <2>5. At(c, "checked") => My(c) \in LocalsAt("make_reservation", "checked") BY <2>3, Serves
  <2>6. My(c) \in GoodAvailability BY <2>1, <2>5 DEF LocalsAt, At
  <2> QED BY <2>3, <2>4, <2>6 DEF MakeReservationRequest
<1>2. ASSUME Holds(c, "loaded")
      PROVE  /\ Serving(c, "store_hotel_location") /\ Req(c).location \in Locations
             /\ My(c) \in GoodLocation
  <2>1. /\ call[c] # <<>> /\ Head(call[c]).at = "loaded" /\ Head(call[c]) \in Frames
    BY <1>2, StackOf DEF Holds, At
  <2>2. Head(call[c]).ep = "store_hotel_location" BY <2>1, FrameParts, HoldingPlaces
  <2>3. Serving(c, "store_hotel_location") BY <2>1, <2>2 DEF Serving
  <2>4. Req(c) \in StoreHotelLocationRequest BY <2>3, Serves DEF RequestOf
  <2>5. At(c, "loaded") => My(c) \in LocalsAt("store_hotel_location", "loaded") BY <2>3, Serves
  <2>6. My(c) \in GoodLocation BY <2>1, <2>5 DEF LocalsAt, At
  <2> QED BY <2>3, <2>4, <2>6 DEF StoreHotelLocationRequest
<1> QED BY <1>1, <1>2

\* Only the first step of the two writers gives them a copy.
LEMMA NotHeld ==
  ASSUME CallsOK, CallsOK', NEW c \in Clients, call[c] # <<>>,
         \/ Over(c) \/ Deeper(c) \/ Back(c)
         \/ /\ Went(c) /\ Head(call[c]).ep # "make_reservation"
            /\ Head(call[c]).ep # "store_hotel_location"
  PROVE  ~Holds(c, "checked")' /\ ~Holds(c, "loaded")'
<1>1. CASE Over(c) BY <1>1 DEF Over, Holds
<1>2. CASE ~Over(c)
  <2>1. SUFFICES ASSUME call'[c] # <<>> PROVE Head(call'[c]).at \notin {"checked", "loaded"}
    BY DEF Holds, At
  <2>2. call'[c] \in Calls BY DEF CallsOK
  <2>3. Head(call'[c]) = call'[c][1] BY <2>1, <2>2, HeadFirst
  <2>4. call[c][1] \in Frames /\ Head(call[c]) = call[c][1] BY StackOf
  <2>5. CASE Deeper(c) BY <2>3, <2>5 DEF Deeper
  <2>6. CASE Back(c) BY <2>3, <2>6, Names DEF Back
  <2>7. CASE /\ Went(c) /\ Head(call[c]).ep # "make_reservation"
             /\ Head(call[c]).ep # "store_hotel_location"
    BY <2>3, <2>4, <2>7, FrameParts, HoldingPlaces DEF Went
  <2> QED BY <1>2, <2>5, <2>6, <2>7
<1> QED BY <1>1, <1>2

\* The step of another client leaves the handlers of d alone.
LEMMA SameHandlers ==
  ASSUME NEW c, NEW d \in Clients, d # c, Others(c)
  PROVE  /\ Req(d)' = Req(d) /\ My(d)' = My(d) /\ \A p : Holds(d, p)' = Holds(d, p)
         /\ \A k : holds(d, k)' = holds(d, k)
BY DEF Others, Req, My, Holds, At, holds, Serving

LEMMA OthersListen == ASSUME NEW c, Others(c) PROVE \A s : Listening(s)' = Listening(s)
BY DEF Others, Listening

LEMMA ReservationsStay ==
  ASSUME CallsOK, StatesOK, ReservationsKept, NEW c \in Clients, Others(c), UNCHANGED availability,
         \A h \in Hotels : log'[h] = log[h] /\ (h \in raced => h \in raced'),
         (Holds(c, "checked") /\ Req(c).hotel \notin raced =>
            /\ Req(c).hotel \in DOMAIN availability
            /\ My(c).reservations = availability[Req(c).hotel].reservations)'
  PROVE  ReservationsKept'
<1>1. \A s : Listening(s)' = Listening(s) BY OthersListen
<1>2. DOMAIN availability \subseteq Hotels BY DEF StatesOK, StateOf
<1>3. \A h \in DOMAIN availability' :
        h \notin raced' => availability'[h].reservations = Newest(log'[h], MaxKept)
  BY <1>2 DEF ReservationsKept
<1>4. ASSUME NEW d \in Clients, (Holds(d, "checked") /\ Req(d).hotel \notin raced)'
      PROVE  (/\ Req(d).hotel \in DOMAIN availability
              /\ My(d).reservations = availability[Req(d).hotel].reservations)'
  <2>1. CASE d = c BY <1>4, <2>1
  <2>2. CASE d # c
    <3>1. Req(d)' = Req(d) /\ My(d)' = My(d) /\ Holds(d, "checked")
      BY <1>4, <2>2, SameHandlers
    <3>2. Req(d).hotel \in Hotels BY <3>1, HeldIs
    <3>3. Req(d).hotel \notin raced BY <1>4, <3>1, <3>2
    <3> QED BY <3>1, <3>3 DEF ReservationsKept
  <2> QED BY <2>1, <2>2
<1> QED BY <1>1, <1>3, <1>4 DEF ReservationsKept

LEMMA LocationsStay ==
  ASSUME CallsOK, StatesOK, LocationsKept, NEW c \in Clients, Others(c), UNCHANGED locations,
         \A l \in Locations : log'[l] = log[l] /\ (l \in raced => l \in raced'),
         (Holds(c, "loaded") /\ Req(c).location \notin raced =>
            My(c) = getHotelIdsForLocation(Req(c).location))'
  PROVE  LocationsKept'
<1>1. \A s : Listening(s)' = Listening(s) BY OthersListen
<1>2. \A l : getHotelIdsForLocation(l)' = getHotelIdsForLocation(l)
  BY DEF getHotelIdsForLocation, Has, GetState
<1>3. \A l \in Locations : l \notin raced' /\ Listening("search")' =>
        getHotelIdsForLocation(l)' = Newest(log'[l], MaxKept)
  BY <1>1, <1>2 DEF LocationsKept
<1>4. ASSUME NEW d \in Clients, (Holds(d, "loaded") /\ Req(d).location \notin raced)'
      PROVE  (My(d) = getHotelIdsForLocation(Req(d).location))'
  <2>1. CASE d = c BY <1>4, <2>1
  <2>2. CASE d # c
    <3>1. Req(d)' = Req(d) /\ My(d)' = My(d) /\ Holds(d, "loaded")
      BY <1>4, <2>2, SameHandlers
    <3>2. Req(d).location \in Locations BY <3>1, HeldIs
    <3>3. Req(d).location \notin raced BY <1>4, <3>1, <3>2
    <3>4. My(d) = getHotelIdsForLocation(Req(d).location) BY <3>1, <3>3 DEF LocationsKept
    <3>5. getHotelIdsForLocation(Req(d).location)' = getHotelIdsForLocation(Req(d).location)
      BY <3>1 DEF getHotelIdsForLocation, Has, GetState
    <3> QED BY <3>1, <3>4, <3>5
  <2> QED BY <2>1, <2>2
<1>5. ~Listening("search")' => locations' = <<>> /\ \A l \in Locations : log'[l] = Seeded(l)
  BY <1>1 DEF LocationsKept
<1> QED BY <1>3, <1>4, <1>5 DEF LocationsKept, Seeded

-----------------------------------------------------------------------------
(* Writes of the lists. *)

LEMMA LogWritten ==
  ASSUME LogOK, NEW c, NEW k \in Hotels \cup Locations, NEW entries, Wrote(c, k, entries),
         k \in Hotels => entries \in Seq(Reservation), k \in Locations => entries \in Seq(Hotels)
  PROVE  /\ LogOK' /\ log'[k] = entries /\ raced \subseteq raced' /\ raced' \subseteq raced \cup {k}
         /\ \A j \in Hotels \cup Locations : j # k => log'[j] = log[j]
         /\ k \notin raced' => k \notin raced /\ \A d \in Clients : d # c => ~holds(d, k)
<1>1. /\ log' = [log EXCEPT ![k] = entries]
      /\ raced' = IF \E d \in Clients \ {c} : holds(d, k) THEN raced \cup {k} ELSE raced
  BY DEF Wrote
<1>2. /\ DOMAIN log' = Hotels \cup Locations /\ log'[k] = entries
      /\ \A j \in Hotels \cup Locations : j # k => log'[j] = log[j]
  BY <1>1 DEF LogOK
<1>3. LogOK' BY <1>2 DEF LogOK
<1> QED BY <1>1, <1>2, <1>3

LEMMA ReservationsWritten ==
  ASSUME CallsOK, StatesOK, LogOK, ReservationsKept, NEW c \in Clients, Others(c), ~Holds(c, "checked")',
         NEW hotel \in Hotels, NEW value, NEW entries \in Seq(Reservation),
         availability' = SetState(availability, hotel, value), Wrote(c, hotel, entries),
         hotel \notin raced' => value.reservations = Newest(entries, MaxKept),
         Listening("reservation")
  PROVE  ReservationsKept'
<1>1. Listening("reservation")' BY OthersListen
<1>2. /\ log'[hotel] = entries /\ raced \subseteq raced'
      /\ \A j \in Hotels \cup Locations : j # hotel => log'[j] = log[j]
      /\ hotel \notin raced' => hotel \notin raced /\ \A d \in Clients : d # c => ~holds(d, hotel)
  <2>1. hotel \notin Locations BY HotelAssumption
  <2> QED BY <2>1, LogWritten
<1>3. DOMAIN availability \subseteq Hotels BY DEF StatesOK, StateOf
<1>4. /\ DOMAIN availability' = DOMAIN availability \cup {hotel} /\ availability'[hotel] = value
      /\ \A h \in DOMAIN availability : h # hotel => availability'[h] = availability[h]
  BY DEF SetState
<1>5. \A h \in DOMAIN availability' :
        h \notin raced' => availability'[h].reservations = Newest(log'[h], MaxKept)
  BY <1>2, <1>3, <1>4 DEF ReservationsKept
<1>6. ASSUME NEW d \in Clients, (Holds(d, "checked") /\ Req(d).hotel \notin raced)'
      PROVE  (/\ Req(d).hotel \in DOMAIN availability
              /\ My(d).reservations = availability[Req(d).hotel].reservations)'
  <2>1. d # c BY <1>6
  <2>2. Req(d)' = Req(d) /\ My(d)' = My(d) /\ Holds(d, "checked") BY <1>6, <2>1, SameHandlers
  <2>3. holds(d, Req(d).hotel) BY <2>2, HeldIs DEF holds, Holds
  <2>4. Req(d).hotel # hotel BY <1>2, <1>6, <2>1, <2>2, <2>3
  <2>5. Req(d).hotel \notin raced BY <1>2, <1>6, <2>2
  <2>6. /\ Req(d).hotel \in DOMAIN availability
        /\ My(d).reservations = availability[Req(d).hotel].reservations
    BY <2>2, <2>5 DEF ReservationsKept
  <2> QED BY <1>4, <2>2, <2>4, <2>6
<1> QED BY <1>1, <1>5, <1>6 DEF ReservationsKept

LEMMA LocationsWritten ==
  ASSUME CallsOK, StatesOK, LogOK, LocationsKept, NEW c \in Clients, Others(c), ~Holds(c, "loaded")',
         NEW location \in Locations, NEW list, NEW entries \in Seq(Hotels),
         locations' = SetState(locations, location, list), Wrote(c, location, entries),
         location \notin raced' => list = Newest(entries, MaxKept),
         Listening("search")
  PROVE  LocationsKept'
<1>1. Listening("search")' BY OthersListen
<1>2. /\ log'[location] = entries /\ raced \subseteq raced'
      /\ \A j \in Hotels \cup Locations : j # location => log'[j] = log[j]
      /\ location \notin raced' => location \notin raced /\ \A d \in Clients : d # c => ~holds(d, location)
  <2>1. location \notin Hotels BY HotelAssumption
  <2> QED BY <2>1, LogWritten
<1>3. /\ DOMAIN locations' = DOMAIN locations \cup {location} /\ locations'[location] = list
      /\ \A l \in DOMAIN locations : l # location => locations'[l] = locations[l]
  BY DEF SetState
<1>4. /\ getHotelIdsForLocation(location)' = list
      /\ \A l : l # location => getHotelIdsForLocation(l)' = getHotelIdsForLocation(l)
  BY <1>3 DEF getHotelIdsForLocation, Has, GetState
<1>5. \A l \in Locations : l \notin raced' /\ Listening("search")' =>
        getHotelIdsForLocation(l)' = Newest(log'[l], MaxKept)
  BY <1>2, <1>4 DEF LocationsKept
<1>6. ASSUME NEW d \in Clients, (Holds(d, "loaded") /\ Req(d).location \notin raced)'
      PROVE  (My(d) = getHotelIdsForLocation(Req(d).location))'
  <2>1. d # c BY <1>6
  <2>2. Req(d)' = Req(d) /\ My(d)' = My(d) /\ Holds(d, "loaded") BY <1>6, <2>1, SameHandlers
  <2>3. holds(d, Req(d).location) BY <2>2, HeldIs DEF holds, Holds
  <2>4. Req(d).location # location BY <1>2, <1>6, <2>1, <2>2, <2>3
  <2>5. Req(d).location \notin raced BY <1>2, <1>6, <2>2
  <2>6. My(d) = getHotelIdsForLocation(Req(d).location) BY <2>2, <2>5 DEF LocationsKept
  <2>7. getHotelIdsForLocation(Req(d).location)' = getHotelIdsForLocation(Req(d).location)
    <3>1. \A l : l = Req(d).location => getHotelIdsForLocation(l)' = getHotelIdsForLocation(Req(d).location)
      BY <1>4, <2>4
    <3> QED BY <2>2, <3>1 DEF getHotelIdsForLocation, Has, GetState
  <2> QED BY <2>2, <2>6, <2>7
<1> QED BY <1>1, <1>5, <1>6 DEF LocationsKept

\* The services of the handlers that write listen.
LEMMA ServesListens ==
  ASSUME CallsOK, Served, NEW c \in Clients, NEW s \in DOMAIN Endpoints, NEW e \in Endpoints[s], Serving(c, e)
  PROVE  Listening(s)
<1>1. call[c] # <<>> /\ Head(call[c]).ep = e BY DEF Serving
<1>2. Head(call[c]) = call[c][1] /\ 1 \in 1 .. Len(call[c]) BY <1>1, StackOf
<1> QED BY <1>1, <1>2 DEF Served

KeptInv == Served /\ LogOK /\ ReservationsKept /\ LocationsKept

LEMMA MakeReservationKept ==
  ASSUME CallsOK, StatesOK, CallsOK', KeptInv, NEW c \in Clients, makeReservation(c)
  PROVE  LogOK' /\ ReservationsKept' /\ LocationsKept'
<1>1. /\ Serving(c, "make_reservation") /\ UNCHANGED <<locations, rates, profiles, users>>
      /\ MakeReservation(c, Req(c).customer, Req(c).hotel, Req(c).from, Req(c).to, Req(c).rooms)
  BY DEF makeReservation, MakeReservation
<1>2. Req(c) \in MakeReservationRequest /\ call[c] # <<>> /\ Head(call[c]).ep = "make_reservation"
  BY <1>1, Serves DEF RequestOf
<1>3. Req(c).hotel \in Hotels BY <1>2 DEF MakeReservationRequest
<1>4. Step(c) BY MakeReservationStep
<1>5. Others(c) /\ LogOK /\ ReservationsKept /\ LocationsKept /\ Served
  BY <1>2, <1>4, Outcomes DEF KeptInv
<1>6. ASSUME UNCHANGED <<availability, log, raced>>, ~Holds(c, "checked")', ~Holds(c, "loaded")'
      PROVE  LogOK' /\ ReservationsKept' /\ LocationsKept'
  BY <1>1, <1>5, <1>6, ReservationsStay, LocationsStay DEF LogOK
<1>7. \A r : r \in ReplyOf["make_reservation"] /\ Return(c, r) =>
        ~Holds(c, "checked")' /\ ~Holds(c, "loaded")'
  BY <1>2, Returned, NotHeld
<1>8. CASE At(c, "start") /\ ~ Has(availability, Req(c).hotel)
  <2>1. Panic(c) /\ UNCHANGED <<availability, log, raced>> BY <1>1, <1>8 DEF MakeReservation, At
  <2>2. ~Holds(c, "checked")' /\ ~Holds(c, "loaded")' BY <1>2, <2>1, PanicOver, NotHeld
  <2> QED BY <1>6, <2>1, <2>2
<1>9. CASE At(c, "start") /\ Has(availability, Req(c).hotel)
  <2> DEFINE copy == GetState(availability, Req(c).hotel)
             admits == checkAvailability(copy, Req(c).from, Req(c).to, Req(c).rooms)
  <2>1. /\ IF admits THEN Goto(c, "checked", copy) ELSE Return(c, [success |-> FALSE])
        /\ UNCHANGED <<availability, log, raced>>
    BY <1>1, <1>9 DEF MakeReservation, At
  <2>2. CASE ~ admits
    <3>1. [success |-> FALSE] \in ReplyOf["make_reservation"] BY DEF ReplyOf, MakeReservationResponse
    <3> QED BY <1>6, <1>7, <2>1, <2>2, <3>1
  <2>3. CASE admits
    <3>1. Req(c).hotel \in DOMAIN availability /\ copy = availability[Req(c).hotel]
      BY <1>9 DEF Has, GetState
    <3>2. "checked" \in PlacesOf[Head(call[c]).ep] \ DOMAIN Callee
      BY <1>2, Names DEF PlacesOf
    <3>3. copy \in LocalsAt(Head(call[c]).ep, "checked")
      BY <3>1 DEF StatesOK, StateOf, LocalsAt
    <3>4. checkAvailability(copy, Head(call[c]).req.from, Head(call[c]).req.to, Head(call[c]).req.rooms)
      BY <2>3 DEF Req
    <3>5. Goto(c, "checked", copy) BY <2>1, <2>3
    <3> HIDE DEF copy, admits
    <3>6. /\ call'[c][1].at = "checked" /\ call'[c][1].my = copy
          /\ call'[c][1].req = Head(call[c]).req /\ Len(call'[c]) = Len(call[c])
      BY <1>2, <3>2, <3>3, <3>4, <3>5, GoesOn
    <3>7. Head(call'[c]) = call'[c][1]
      <4>1. call'[c] \in Calls BY DEF CallsOK
      <4>2. Len(call'[c]) >= 1 /\ Len(call'[c]) \in Nat BY <1>2, <3>6, StackOf
      <4>3. call'[c] # <<>> BY <4>2, EmptySeq
      <4> QED BY <4>1, <4>3, HeadFirst
    <3>8. /\ ~Holds(c, "loaded")' /\ Req(c)' = Req(c) /\ My(c)' = copy
      BY <3>6, <3>7 DEF Holds, At, Req, My
    <3> QED BY <1>1, <1>5, <2>1, <3>1, <3>8, ReservationsStay, LocationsStay DEF LogOK
  <2> QED BY <2>2, <2>3
<1>10. CASE At(c, "checked")
  <2> DEFINE new == [customer |-> Req(c).customer, from |-> Req(c).from, to |-> Req(c).to,
                     rooms |-> Req(c).rooms]
             w == [My(c) EXCEPT !.reservations = Append(DropOldest(@, MaxKept), new)]
             entries == Append(log[Req(c).hotel], new)
  <2>1. /\ availability' = SetState(availability, Req(c).hotel, w)
        /\ Wrote(c, Req(c).hotel, entries) /\ Return(c, [success |-> TRUE])
    BY <1>1, <1>10 DEF MakeReservation, At
  <2>2. [success |-> TRUE] \in ReplyOf["make_reservation"] BY DEF ReplyOf, MakeReservationResponse
  <2>3. ~Holds(c, "checked")' /\ ~Holds(c, "loaded")' BY <1>7, <2>1, <2>2
  <2>4. new \in Reservation BY <1>2, HotelAssumption DEF Reservation, MakeReservationRequest
  <2> HIDE DEF new
  <2>5. log[Req(c).hotel] \in Seq(Reservation) BY <1>3, <1>5 DEF LogOK
  <2>6. entries \in Seq(Reservation) BY <2>4, <2>5, AppendProperties
  <2>7. Listening("reservation") /\ Holds(c, "checked")
    <3>1. "reservation" \in DOMAIN Endpoints /\ "make_reservation" \in Endpoints["reservation"]
      BY DEF Endpoints
    <3> QED BY <1>1, <1>2, <1>5, <1>10, <3>1, ServesListens DEF Holds
  <2>8. ASSUME Req(c).hotel \notin raced'
        PROVE  w.reservations = Newest(entries, MaxKept)
    <3>1. Req(c).hotel \notin raced BY <1>3, <1>5, <2>1, <2>6, <2>8, HotelAssumption, LogWritten
    <3>2. My(c).reservations = Newest(log[Req(c).hotel], MaxKept)
      BY <1>5, <2>7, <3>1 DEF ReservationsKept
    <3>3. My(c) \in HotelAvailability BY <2>7, HeldIs DEF GoodAvailability
    <3>4. w.reservations = Append(DropOldest(My(c).reservations, MaxKept), new)
      BY <3>3 DEF HotelAvailability
    <3>5. MaxKept \in Nat \ {0} BY HotelAssumption
    <3> QED BY <2>4, <2>5, <3>2, <3>4, <3>5, NewestAppended
  <2> HIDE DEF w, entries
  <2>9. ReservationsKept' BY <1>3, <1>5, <2>1, <2>3, <2>6, <2>7, <2>8, ReservationsWritten
  <2>10. Req(c).hotel \notin Locations BY <1>3, HotelAssumption
  <2>11. /\ LogOK' /\ raced \subseteq raced'
         /\ \A j \in Hotels \cup Locations : j # Req(c).hotel => log'[j] = log[j]
    BY <1>3, <1>5, <2>1, <2>6, <2>10, LogWritten
  <2>12. LocationsKept' BY <1>1, <1>5, <2>3, <2>10, <2>11, LocationsStay
  <2> QED BY <2>9, <2>11, <2>12
<1> QED BY <1>1, <1>8, <1>9, <1>10 DEF MakeReservation

LEMMA AddHotelAvailabilityKept ==
  ASSUME CallsOK, StatesOK, CallsOK', KeptInv, NEW c \in Clients, addHotelAvailability(c)
  PROVE  LogOK' /\ ReservationsKept' /\ LocationsKept'
<1> DEFINE a == [capacity |-> Req(c).capacity, reservations |-> <<>>]
<1>1. /\ Serving(c, "add_hotel_availability")
      /\ availability' = SetState(availability, Req(c).hotel, a) /\ Wrote(c, Req(c).hotel, <<>>)
      /\ Return(c, [hotel |-> Req(c).hotel])
      /\ UNCHANGED <<locations, rates, profiles, users>>
  BY DEF addHotelAvailability, AddHotelAvailability
<1>2. /\ Req(c) \in AddHotelAvailabilityRequest /\ call[c] # <<>>
      /\ Head(call[c]).ep = "add_hotel_availability"
  BY <1>1, Serves DEF RequestOf
<1>3. Req(c).hotel \in Hotels BY <1>2 DEF AddHotelAvailabilityRequest
<1>4. Step(c) BY AddHotelAvailabilityStep
<1>5. Others(c) /\ LogOK /\ ReservationsKept /\ LocationsKept /\ Served
  BY <1>2, <1>4, Outcomes DEF KeptInv
<1>6. ~Holds(c, "checked")' /\ ~Holds(c, "loaded")' BY <1>2, <1>4, Outcomes, NotHeld
<1>7. Listening("reservation")
  <2>1. "reservation" \in DOMAIN Endpoints /\ "add_hotel_availability" \in Endpoints["reservation"]
    BY DEF Endpoints
  <2> QED BY <1>1, <1>5, <2>1, ServesListens
<1>8. <<>> \in Seq(Reservation) /\ a.reservations = Newest(<<>>, MaxKept)
  <2>1. <<>> \in Seq(Reservation) /\ Len(<<>>) = 0 BY EmptySeq
  <2>2. ~(0 > MaxKept) BY HotelAssumption
  <2> QED BY <2>1, <2>2 DEF Newest
<1> HIDE DEF a
<1>9. ReservationsKept' BY <1>1, <1>3, <1>5, <1>6, <1>7, <1>8, ReservationsWritten
<1>10. Req(c).hotel \notin Locations BY <1>3, HotelAssumption
<1>11. /\ LogOK' /\ raced \subseteq raced'
       /\ \A j \in Hotels \cup Locations : j # Req(c).hotel => log'[j] = log[j]
  BY <1>1, <1>3, <1>5, <1>8, <1>10, LogWritten
<1>12. LocationsKept' BY <1>1, <1>5, <1>6, <1>10, <1>11, LocationsStay
<1> QED BY <1>9, <1>11, <1>12

\* The first step of StoreHotelLocation takes a copy of the list.
LEMMA LocationCopied ==
  ASSUME CallsOK, StatesOK, CallsOK', NEW c \in Clients, storeHotelLocation(c), At(c, "start")
  PROVE  /\ UNCHANGED <<locations, log, raced>> /\ ~Holds(c, "checked")' /\ Req(c)' = Req(c)
         /\ My(c)' = getHotelIdsForLocation(Req(c).location)
<1> DEFINE list == getHotelIdsForLocation(Req(c).location)
<1>1. /\ call[c] # <<>> /\ Head(call[c]).ep = "store_hotel_location"
      /\ Goto(c, "loaded", list) /\ UNCHANGED <<locations, log, raced>>
  BY DEF storeHotelLocation, StoreHotelLocation, At, Serving
<1>2. "loaded" \in PlacesOf[Head(call[c]).ep] \ DOMAIN Callee BY <1>1, Names DEF PlacesOf
<1>3. list \in LocalsAt(Head(call[c]).ep, "loaded")
  <2>1. <<>> \in GoodLocation
    <3>1. <<>> \in Seq(Hotels) /\ Len(<<>>) = 0 BY EmptySeq
    <3>2. 0 <= MaxKept BY HotelAssumption
    <3> QED BY <3>1, <3>2 DEF GoodLocation
  <2>2. list \in GoodLocation BY <2>1 DEF getHotelIdsForLocation, Has, GetState, StatesOK, StateOf
  <2> QED BY <2>2 DEF LocalsAt
<1> HIDE DEF list
<1>4. /\ call'[c][1].at = "loaded" /\ call'[c][1].my = list
      /\ call'[c][1].req = Head(call[c]).req /\ Len(call'[c]) = Len(call[c])
  BY <1>1, <1>2, <1>3, GoesOn
<1>5. Head(call'[c]) = call'[c][1]
  <2>1. call'[c] \in Calls BY DEF CallsOK
  <2>2. Len(call'[c]) >= 1 /\ Len(call'[c]) \in Nat BY <1>1, <1>4, StackOf
  <2>3. call'[c] # <<>> BY <2>2, EmptySeq
  <2> QED BY <2>1, <2>3, HeadFirst
<1>6. ~Holds(c, "checked")' /\ Req(c)' = Req(c) /\ My(c)' = list
  BY <1>4, <1>5 DEF Holds, At, Req, My
<1> QED BY <1>1, <1>6 DEF list

LEMMA StoreHotelLocationKept ==
  ASSUME CallsOK, StatesOK, CallsOK', KeptInv, NEW c \in Clients, storeHotelLocation(c)
  PROVE  LogOK' /\ ReservationsKept' /\ LocationsKept'
<1>1. /\ Serving(c, "store_hotel_location") /\ UNCHANGED <<rates, availability, profiles, users>>
      /\ StoreHotelLocation(c, Req(c).hotel, Req(c).location)
  BY DEF storeHotelLocation, StoreHotelLocation
<1>2. Req(c) \in StoreHotelLocationRequest /\ call[c] # <<>> /\ Head(call[c]).ep = "store_hotel_location"
  BY <1>1, Serves DEF RequestOf
<1>3. Req(c).hotel \in Hotels /\ Req(c).location \in Locations BY <1>2 DEF StoreHotelLocationRequest
<1>4. Step(c) BY StoreHotelLocationStep
<1>5. Others(c) /\ LogOK /\ ReservationsKept /\ LocationsKept /\ Served
  BY <1>2, <1>4, Outcomes DEF KeptInv
<1>6. CASE At(c, "start")
  <2>1. /\ UNCHANGED <<locations, log, raced>> /\ ~Holds(c, "checked")' /\ Req(c)' = Req(c)
        /\ My(c)' = getHotelIdsForLocation(Req(c).location)
    BY <1>6, LocationCopied
  <2>2. getHotelIdsForLocation(Req(c).location)' = getHotelIdsForLocation(Req(c).location)
    BY <2>1 DEF getHotelIdsForLocation, Has, GetState
  <2> QED BY <1>1, <1>5, <2>1, <2>2, ReservationsStay, LocationsStay DEF LogOK
<1>7. CASE At(c, "loaded")
  <2> DEFINE n == Append(DropOldest(My(c), MaxKept), Req(c).hotel)
             entries == Append(log[Req(c).location], Req(c).hotel)
  <2>1. /\ locations' = SetState(locations, Req(c).location, n)
        /\ Wrote(c, Req(c).location, entries) /\ Return(c, [hotel |-> Req(c).hotel])
    BY <1>1, <1>7 DEF StoreHotelLocation, At
  <2>2. [hotel |-> Req(c).hotel] \in ReplyOf["store_hotel_location"]
    BY <1>3 DEF ReplyOf, StoreHotelLocationResponse
  <2>3. ~Holds(c, "checked")' /\ ~Holds(c, "loaded")' BY <1>2, <2>1, <2>2, Returned, NotHeld
  <2>4. log[Req(c).location] \in Seq(Hotels) BY <1>3, <1>5 DEF LogOK
  <2>5. entries \in Seq(Hotels) BY <1>3, <2>4, AppendProperties
  <2>6. Listening("search") /\ Holds(c, "loaded")
    <3>1. "search" \in DOMAIN Endpoints /\ "store_hotel_location" \in Endpoints["search"]
      BY DEF Endpoints
    <3> QED BY <1>1, <1>2, <1>5, <1>7, <3>1, ServesListens DEF Holds
  <2>7. Req(c).location \notin Hotels BY <1>3, HotelAssumption
  <2>8. ASSUME Req(c).location \notin raced' PROVE n = Newest(entries, MaxKept)
    <3>1. Req(c).location \notin raced BY <1>3, <1>5, <2>1, <2>5, <2>7, <2>8, LogWritten
    <3>2. My(c) = Newest(log[Req(c).location], MaxKept)
      BY <1>3, <1>5, <2>6, <3>1 DEF LocationsKept
    <3>3. MaxKept \in Nat \ {0} BY HotelAssumption
    <3> QED BY <1>3, <2>4, <3>2, <3>3, NewestAppended
  <2> HIDE DEF n, entries
  <2>9. LocationsKept' BY <1>3, <1>5, <2>1, <2>3, <2>5, <2>6, <2>8, LocationsWritten
  <2>10. /\ LogOK' /\ raced \subseteq raced'
         /\ \A j \in Hotels \cup Locations : j # Req(c).location => log'[j] = log[j]
    BY <1>3, <1>5, <2>1, <2>5, <2>7, LogWritten
  <2>11. ReservationsKept' BY <1>1, <1>5, <2>3, <2>7, <2>10, ReservationsStay
  <2> QED BY <2>9, <2>10, <2>11
<1> QED BY <1>1, <1>6, <1>7 DEF StoreHotelLocation

\* The other handlers leave the lists alone.
OtherHandler(c) ==
  \/ searchHotels(c) \/ storeHotel(c) \/ reservation(c) \/ nearby(c) \/ storeRate(c) \/ getRates(c)
  \/ checkAvailabilityHandler(c) \/ storeProfile(c) \/ getProfiles(c) \/ registerUser(c) \/ login(c)

LEMMA OtherHandlers ==
  ASSUME CallsOK, StatesOK, NEW c \in Clients, OtherHandler(c)
  PROVE  /\ UNCHANGED <<locations, availability, log, raced>>
         /\ Head(call[c]).ep # "make_reservation" /\ Head(call[c]).ep # "store_hotel_location"
         /\ Head(call[c]).ep # "add_hotel_availability"
<1>1. CASE searchHotels(c) BY <1>1, SearchHotelsStep DEF searchHotels, Serving, state
<1>2. CASE storeHotel(c) BY <1>2, StoreHotelStep DEF storeHotel, Serving, state
<1>3. CASE reservation(c) BY <1>3, ReservationStep DEF reservation, Serving, state
<1>4. CASE nearby(c) BY <1>4, NearbyStep DEF nearby, Serving, state
<1>5. CASE storeRate(c) BY <1>5 DEF storeRate, StoreRate, Serving
<1>6. CASE getRates(c) BY <1>6, GetRatesStep DEF getRates, Serving, state
<1>7. CASE checkAvailabilityHandler(c)
  BY <1>7, CheckAvailabilityStep DEF checkAvailabilityHandler, Serving, state
<1>8. CASE storeProfile(c) BY <1>8 DEF storeProfile, StoreProfile, Serving
<1>9. CASE getProfiles(c) BY <1>9, GetProfilesStep DEF getProfiles, Serving, state
<1>10. CASE registerUser(c) BY <1>10 DEF registerUser, RegisterUser, Serving
<1>11. CASE login(c) BY <1>11, LoginStep DEF login, Serving, state
<1> QED BY <1>1, <1>2, <1>3, <1>4, <1>5, <1>6, <1>7, <1>8, <1>9, <1>10, <1>11 DEF OtherHandler

LEMMA HandleKept ==
  ASSUME CallsOK, StatesOK, CallsOK', KeptInv, NEW c \in Clients, Handle(c)
  PROVE  KeptInv'
<1>1. Step(c) /\ call[c] # <<>> BY HandleStep
<1>2. Served' BY <1>1, ServedStep DEF KeptInv
<1>3. ASSUME OtherHandler(c) PROVE LogOK' /\ ReservationsKept' /\ LocationsKept'
  <2>1. /\ UNCHANGED <<locations, availability, log, raced>>
        /\ Head(call[c]).ep # "make_reservation" /\ Head(call[c]).ep # "store_hotel_location"
    BY <1>3, OtherHandlers
  <2>2. Others(c) /\ ~Holds(c, "checked")' /\ ~Holds(c, "loaded")'
    BY <1>1, <2>1, Outcomes, NotHeld
  <2> QED BY <2>1, <2>2, ReservationsStay, LocationsStay DEF LogOK, KeptInv
<1>4. OtherHandler(c) \/ makeReservation(c) \/ addHotelAvailability(c) \/ storeHotelLocation(c)
  BY DEF Handle, OtherHandler
<1> QED BY <1>2, <1>3, <1>4, MakeReservationKept, AddHotelAvailabilityKept, StoreHotelLocationKept
        DEF KeptInv

LEMMA AsksKept ==
  ASSUME CallsOK, StatesOK, CallsOK', KeptInv, NEW c \in Clients, Asked(c), UNCHANGED state
  PROVE  KeptInv'
<1>1. Served' BY ServedAsks DEF KeptInv
<1>2. PICK e \in DOMAIN ResponseOf : \E q \in RequestOf[e] : Asks(c, e, q) BY DEF Asked
<1>3. PICK q \in RequestOf[e] : Asks(c, e, q) BY <1>2
<1>4. /\ UNCHANGED <<up, answer>> /\ call'[c] = <<Frame(e, q)>>
      /\ \A d \in Clients : d # c => call'[d] = call[d]
  BY <1>3, AsksStep
<1>5. Others(c) BY <1>4 DEF Others
<1>6. Head(call'[c]).at = "start" BY <1>4 DEF Frame
<1>7. ~Holds(c, "checked")' /\ ~Holds(c, "loaded")' BY <1>6 DEF Holds, At
<1> QED BY <1>1, <1>5, <1>7, ReservationsStay, LocationsStay DEF LogOK, KeptInv, state

LEMMA MainKept ==
  ASSUME CallsOK, StatesOK, KeptInv, main
  PROVE  KeptInv'
<1>1. UNCHANGED <<call, answer, log, raced>> BY MainStep
<1>2. Served' BY <1>1, ServedMain DEF KeptInv
<1>3. PICK s \in DOMAIN Endpoints :
        /\ ~Listening(s) /\ Listening(s)' /\ \A t : t # s => (Listening(t)' = Listening(t))
        /\ IF s = "reservation" THEN availability' = InitHotelAvailability
                                ELSE UNCHANGED availability
        /\ IF s = "search" THEN locations' = InitLocations ELSE UNCHANGED locations
  BY MainListens
<1>4. LogOK' BY <1>1 DEF LogOK, KeptInv
<1>5. \A c : /\ Req(c)' = Req(c) /\ My(c)' = My(c) /\ \A p : Holds(c, p)' = Holds(c, p)
  BY <1>1 DEF Req, My, Holds, At
<1>6. ReservationsKept'
  <2>1. CASE s = "reservation"
    <3>1. \A c \in Clients : ~Holds(c, "checked")
      <4>1. "reservation" \in DOMAIN Endpoints /\ "make_reservation" \in Endpoints["reservation"]
        BY DEF Endpoints
      <4> QED BY <1>3, <2>1, <4>1, HeldIs, ServesListens DEF KeptInv
    <3>2. \A h \in Hotels : log[h] = <<>> BY <1>3, <2>1 DEF ReservationsKept, KeptInv
    <3>3. Newest(<<>>, MaxKept) = <<>>
      <4>1. Len(<<>>) = 0 BY EmptySeq
      <4>2. ~(0 > MaxKept) BY HotelAssumption
      <4> QED BY <4>1, <4>2 DEF Newest
    <3>4. \A h \in DOMAIN availability' : h \in Hotels /\ availability'[h].reservations = <<>>
      BY <1>3, <2>1, InitialValues DEF InitHotelAvailability
    <3> QED BY <1>1, <1>3, <1>5, <2>1, <3>1, <3>2, <3>3, <3>4 DEF ReservationsKept
  <2>2. CASE s # "reservation"
    <3>1. UNCHANGED availability /\ Listening("reservation")' = Listening("reservation")
      BY <1>3, <2>2
    <3> QED BY <1>1, <1>5, <3>1 DEF ReservationsKept, KeptInv
  <2> QED BY <2>1, <2>2
<1>7. LocationsKept'
  <2>1. CASE s = "search"
    <3>1. \A c \in Clients : ~Holds(c, "loaded")
      <4>1. "search" \in DOMAIN Endpoints /\ "store_hotel_location" \in Endpoints["search"]
        BY DEF Endpoints
      <4> QED BY <1>3, <2>1, <4>1, HeldIs, ServesListens DEF KeptInv
    <3>2. \A l \in Locations : log[l] = Seeded(l) BY <1>3, <2>1 DEF LocationsKept, KeptInv
    <3>3. Newest(<<>>, MaxKept) = <<>>
      <4>1. Len(<<>>) = 0 BY EmptySeq
      <4>2. ~(0 > MaxKept) BY HotelAssumption
      <4> QED BY <4>1, <4>2 DEF Newest
    <3>4. locations' = InitLocations BY <1>3, <2>1
    <3>5. \A l \in Locations : getHotelIdsForLocation(l)' = Newest(Seeded(l), MaxKept)
      <4> SUFFICES ASSUME NEW l \in Locations
                   PROVE  getHotelIdsForLocation(l)' = Newest(Seeded(l), MaxKept)
        OBVIOUS
      <4>1. CASE l \in DOMAIN Catalog
        BY <3>4, <4>1 DEF getHotelIdsForLocation, Has, GetState, InitLocations
      <4>2. CASE l \notin DOMAIN Catalog
        <5>1. Seeded(l) = <<>> BY <4>2 DEF Seeded
        <5> QED BY <3>3, <3>4, <4>2, <5>1 DEF getHotelIdsForLocation, Has, GetState, InitLocations
      <4> QED BY <4>1, <4>2
    <3>6. \A l \in Locations : getHotelIdsForLocation(l)' = Newest(log'[l], MaxKept)
      BY <1>1, <3>2, <3>5
    <3> QED BY <1>3, <1>5, <2>1, <3>1, <3>6 DEF LocationsKept
  <2>2. CASE s # "search"
    <3>1. UNCHANGED locations /\ Listening("search")' = Listening("search") BY <1>3, <2>2
    <3>2. \A l : getHotelIdsForLocation(l)' = getHotelIdsForLocation(l)
      BY <3>1 DEF getHotelIdsForLocation, Has, GetState
    <3>3. \A c : getHotelIdsForLocation(Req(c).location)' = getHotelIdsForLocation(Req(c).location)
      BY <1>5, <3>1 DEF getHotelIdsForLocation, Has, GetState
    <3>4. \A l : Seeded(l)' = Seeded(l) BY DEF Seeded
    <3> QED BY <1>1, <1>5, <3>1, <3>2, <3>3, <3>4 DEF LocationsKept, KeptInv
  <2> QED BY <2>1, <2>2
<1> QED BY <1>2, <1>4, <1>6, <1>7 DEF KeptInv

\* A service that is not late listens from the start.
LEMMA InitListens ==
  ASSUME Init
  PROVE  /\ \A s \in DOMAIN Endpoints : s \notin Late <=> Listening(s)
         /\ \A c \in Clients : call[c] = <<>> /\ answer[c].ep = "none"
<1>1. DOMAIN Endpoints = {"reservation", "search", "rate", "profile", "user"} BY DEF Endpoints
<1>2. up = UNION {{s} \X Endpoints[s] : s \in DOMAIN Endpoints \ Late} BY DEF Init, InitServices
<1>3. ASSUME NEW s \in DOMAIN Endpoints, s \notin Late PROVE Listening(s)
  <2>1. \E e \in Endpoints[s] : TRUE BY <1>1 DEF Endpoints
  <2>2. PICK e \in Endpoints[s] : TRUE BY <2>1
  <2>3. <<s, e>> \in {s} \X Endpoints[s] /\ <<s, e>>[1] = s BY <2>2
  <2>4. <<s, e>> \in up BY <1>2, <1>3, <2>3
  <2> QED BY <2>3, <2>4 DEF Listening
<1>4. ASSUME NEW s \in DOMAIN Endpoints, Listening(s) PROVE s \notin Late
  <2>1. PICK u \in up : u[1] = s BY <1>4 DEF Listening
  <2>2. PICK t \in DOMAIN Endpoints \ Late : u \in {t} \X Endpoints[t] BY <1>2, <2>1
  <2> QED BY <2>1, <2>2
<1>5. \A c \in Clients : call[c] = <<>> /\ answer[c].ep = "none" BY DEF Init, InitServices
<1> QED BY <1>3, <1>4, <1>5

LEMMA InitKept == Init => KeptInv
<1> SUFFICES ASSUME Init PROVE KeptInv OBVIOUS
<1>1. /\ \A s \in DOMAIN Endpoints : s \notin Late <=> Listening(s)
      /\ \A c \in Clients : call[c] = <<>>
  BY InitListens
<1>2. Served
  <2>1. \A c \in Clients : Len(call[c]) = 0 BY <1>1, EmptySeq
  <2>2. \A i : ~(i \in 1 .. 0) OBVIOUS
  <2> QED BY <2>1, <2>2 DEF Served
<1>3. log = [k \in Hotels \cup Locations |-> IF k \in Locations THEN Seeded(k) ELSE <<>>]
  BY DEF Init
<1>4. \A h \in Hotels : h \notin Locations BY HotelAssumption
<1>5. /\ \A h \in Hotels : log[h] = <<>>
      /\ \A l \in Locations : log[l] = Seeded(l)
      /\ DOMAIN log = Hotels \cup Locations
  BY <1>3, <1>4
<1>6. LogOK
  <2>1. \A l \in Locations : Seeded(l) \in Seq(Hotels)
    <3>1. <<>> \in Seq(Hotels) BY EmptySeq
    <3> QED BY <3>1, HotelAssumption DEF Seeded
  <2>2. <<>> \in Seq(Reservation) BY EmptySeq
  <2> QED BY <1>5, <2>1, <2>2 DEF LogOK
<1>7. Newest(<<>>, MaxKept) = <<>>
  <2>1. Len(<<>>) = 0 BY EmptySeq
  <2>2. ~(0 > MaxKept) BY HotelAssumption
  <2> QED BY <2>1, <2>2 DEF Newest
<1>8. ReservationsKept
  <2>1. \A h \in DOMAIN availability : h \in Hotels /\ availability[h].reservations = <<>>
    <3>1. CASE "reservation" \in Late BY <3>1 DEF Init
    <3>2. CASE "reservation" \notin Late BY <3>2, InitialValues DEF Init, InitHotelAvailability
    <3> QED BY <3>1, <3>2
  <2> QED BY <1>1, <1>5, <1>7, <2>1 DEF ReservationsKept, Holds
<1>9. LocationsKept
  <2>1. ASSUME NEW l \in Locations, Listening("search")
        PROVE  getHotelIdsForLocation(l) = Newest(log[l], MaxKept)
    <3>1. "search" \in DOMAIN Endpoints BY DEF Endpoints
    <3>2. locations = InitLocations BY <1>1, <2>1, <3>1 DEF Init
    <3>3. CASE l \in DOMAIN Catalog
      BY <1>5, <3>2, <3>3 DEF getHotelIdsForLocation, Has, GetState, InitLocations
    <3>4. CASE l \notin DOMAIN Catalog
      <4>1. Seeded(l) = <<>> BY <3>4 DEF Seeded
      <4> QED BY <1>5, <1>7, <3>2, <3>4, <4>1 DEF getHotelIdsForLocation, Has, GetState, InitLocations
    <3> QED BY <3>3, <3>4
  <2>2. ~Listening("search") => locations = <<>>
    <3>1. "search" \in DOMAIN Endpoints BY DEF Endpoints
    <3> QED BY <1>1, <3>1 DEF Init
  <2> QED BY <1>1, <1>5, <2>1, <2>2 DEF LocationsKept, Holds
<1> QED BY <1>2, <1>6, <1>8, <1>9 DEF KeptInv

LEMMA NextKept ==
  (CallsOK /\ StatesOK) /\ (CallsOK /\ StatesOK)' /\ KeptInv /\ [Next]_vars => KeptInv'
<1> SUFFICES ASSUME CallsOK, StatesOK, CallsOK', KeptInv, [Next]_vars PROVE KeptInv' OBVIOUS
<1>1. CASE main BY <1>1, MainKept
<1>2. ASSUME NEW c \in Clients, Client(c) PROVE KeptInv'
  <2>1. Asked(c) /\ UNCHANGED state BY <1>2, ClientAsks
  <2> QED BY <2>1, AsksKept
<1>3. ASSUME NEW c \in Clients, Handle(c) PROVE KeptInv' BY <1>3, HandleKept
<1>4. CASE UNCHANGED vars
  <2>1. UNCHANGED <<call, up, locations, availability, log, raced>> BY <1>4 DEF vars, svars, state
  <2>2. \A s : Listening(s)' = Listening(s) BY <2>1 DEF Listening
  <2>3. \A c : Req(c)' = Req(c) /\ My(c)' = My(c) /\ \A p : Holds(c, p)' = Holds(c, p)
    BY <2>1 DEF Req, My, Holds, At
  <2>4. \A l : getHotelIdsForLocation(l)' = getHotelIdsForLocation(l)
    BY <2>1 DEF getHotelIdsForLocation, Has, GetState
  <2>5. \A c : getHotelIdsForLocation(Req(c).location)' = getHotelIdsForLocation(Req(c).location)
    BY <2>1, <2>3 DEF getHotelIdsForLocation, Has, GetState
  <2>6. \A l : Seeded(l)' = Seeded(l) BY DEF Seeded
  <2>7. Served' BY <2>1, <2>2 DEF Served, KeptInv
  <2>8. LogOK' BY <2>1 DEF LogOK, KeptInv
  <2>9. ReservationsKept' BY <2>1, <2>2, <2>3 DEF ReservationsKept, KeptInv
  <2>10. LocationsKept' BY <2>1, <2>2, <2>3, <2>4, <2>5, <2>6 DEF LocationsKept, KeptInv
  <2> QED BY <2>7, <2>8, <2>9, <2>10 DEF KeptInv
<1> QED BY <1>1, <1>2, <1>3, <1>4 DEF Next

LEMMA AlwaysKept == Spec => [](CallsOK /\ StatesOK /\ KeptInv)
<1>1. Init => KeptInv BY InitKept
<1>2. (CallsOK /\ StatesOK) /\ (CallsOK /\ StatesOK)' /\ KeptInv /\ [Next]_vars => KeptInv'
  BY NextKept
<1> QED BY <1>1, <1>2, AlwaysOK, PTL DEF Spec

(* Unless two writers of a list overlapped, it is the newest part of what   *)
(* was confirmed to clients: MakeReservation and StoreHotelLocation read a  *)
(* list, change their copy and write it back without a lock.                *)
THEOREM NothingLost == Spec => []KeptUnlessRaced
<1>1. CallsOK /\ StatesOK /\ KeptInv => KeptUnlessRaced
  <2> SUFFICES ASSUME CallsOK, StatesOK, KeptInv PROVE KeptUnlessRaced OBVIOUS
  <2>1. \A h \in DOMAIN availability \ raced :
          availability[h].reservations = Newest(log[h], MaxKept)
    BY DEF KeptInv, ReservationsKept
  <2>2. ASSUME NEW l \in DOMAIN locations \ raced PROVE locations[l] = Newest(log[l], MaxKept)
    <3>1. l \in Locations /\ getHotelIdsForLocation(l) = locations[l]
      BY DEF StatesOK, StateOf, getHotelIdsForLocation, Has, GetState
    <3>2. Listening("search") BY DEF KeptInv, LocationsKept
    <3> QED BY <3>1, <3>2 DEF KeptInv, LocationsKept
  <2> QED BY <2>1, <2>2 DEF KeptUnlessRaced
<1> QED BY <1>1, AlwaysKept, PTL

-----------------------------------------------------------------------------
(* The bottom of a stack, and what a step of c does to it. *)

LEMMA BottomParts ==
  ASSUME CallsOK, NEW c \in Clients, call[c] # <<>>
  PROVE  /\ Bottom(c) \in Frames /\ Bottom(c).ep \in DOMAIN ResponseOf
         /\ Len(call[c]) = 1 => Bottom(c) = Head(call[c])
         /\ \A i \in 1 .. Len(call[c]) - 1 : call[c][i].ep \notin DOMAIN ResponseOf
         /\ Len(call[c]) \in DOMAIN call[c]
<1>1. /\ Bottom(c) \in Bottoms /\ Head(call[c]) = call[c][1] /\ call[c] \in Seq(Frames)
      /\ \A i \in 1 .. Len(call[c]) - 1 : <<call[c][i], call[c][i + 1]>> \in Links
      /\ Len(call[c]) \in Nat /\ Len(call[c]) >= 1
  BY StackOf DEF Bottom
<1>2. \A i \in 1 .. Len(call[c]) - 1 : call[c][i].ep \notin DOMAIN ResponseOf
  BY <1>1, Callees DEF Links
<1>3. Len(call[c]) \in DOMAIN call[c] BY <1>1, LenProperties
<1> QED BY <1>1, <1>2, <1>3 DEF Bottoms, Bottom

LEMMA BottomMoves ==
  ASSUME CallsOK, CallsOK', NEW c \in Clients, call[c] # <<>>, Step(c), ~Over(c)
  PROVE  /\ call'[c] # <<>> /\ answer'[c] = answer[c]
         /\ Bottom(c)'.ep = Bottom(c).ep /\ Bottom(c)'.req = Bottom(c).req
         /\ Len(call[c]) > 1 => Bottom(c)'.at = Bottom(c).at
         /\ Len(call'[c]) = 1 /\ Len(call[c]) > 1 => Len(call[c]) = 2
<1>1. Went(c) \/ Deeper(c) \/ Back(c) BY Outcomes
<1>2. Len(call[c]) \in Nat /\ Len(call[c]) >= 1 BY StackOf
<1> DEFINE n == Len(call[c])
<1>3. CASE Went(c)
  <2>1. n = 1 \/ n \in 2 .. n
    <3>1. \A k \in Nat : k >= 1 => k = 1 \/ k \in 2 .. k OBVIOUS
    <3> QED BY <1>2, <3>1
  <2>2. call'[c] # <<>> BY <1>2, <1>3, EmptySeq DEF Went
  <2> QED BY <1>2, <1>3, <2>1, <2>2 DEF Went, Bottom
<1>4. CASE Deeper(c)
  <2>1. (n = 1 /\ n + 1 = 2) \/ (n + 1 \in 3 .. n + 1 /\ n + 1 - 1 = n)
    <3>1. \A k \in Nat : k >= 1 => (k = 1 /\ k + 1 = 2) \/ (k + 1 \in 3 .. k + 1 /\ k + 1 - 1 = k)
      OBVIOUS
    <3> QED BY <1>2, <3>1
  <2>2. call'[c] # <<>> BY <1>2, <1>4, EmptySeq DEF Deeper
  <2>3. ~(n + 1 = 1) BY <1>2
  <2>4. Bottom(c)' = call'[c][n + 1] BY <1>4 DEF Deeper, Bottom
  <2>5. CASE n = 1 /\ n + 1 = 2
    BY <1>4, <2>2, <2>3, <2>4, <2>5 DEF Deeper, Bottom
  <2>6. CASE n + 1 \in 3 .. n + 1 /\ n + 1 - 1 = n
    <3>1. call'[c][n + 1] = call[c][n] BY <1>4, <2>6 DEF Deeper
    <3> QED BY <1>4, <2>2, <2>3, <2>4, <3>1 DEF Deeper, Bottom
  <2> QED BY <2>1, <2>5, <2>6
<1>5. CASE Back(c)
  <2>1. (n = 2 /\ n - 1 = 1) \/ (n - 1 \in 2 .. n - 1 /\ n - 1 + 1 = n)
    <3>1. \A k \in Nat : k > 1 => (k = 2 /\ k - 1 = 1) \/ (k - 1 \in 2 .. k - 1 /\ k - 1 + 1 = k)
      OBVIOUS
    <3>2. n > 1 BY <1>5 DEF Back
    <3> QED BY <1>2, <3>1, <3>2
  <2>2. Len(call'[c]) >= 1 BY <1>2, <1>5 DEF Back
  <2>3. call'[c] # <<>> BY <2>2, EmptySeq
  <2>4. n - 1 = 1 => n = 2 BY <1>2
  <2>5. Bottom(c)' = call'[c][n - 1] BY <1>5 DEF Back, Bottom
  <2>6. CASE n = 2 /\ n - 1 = 1
    BY <1>5, <2>3, <2>4, <2>5, <2>6 DEF Back, Bottom
  <2>7. CASE n - 1 \in 2 .. n - 1 /\ n - 1 + 1 = n
    <3>1. call'[c][n - 1] = call[c][n] BY <1>5, <2>7 DEF Back
    <3> QED BY <1>5, <2>3, <2>4, <2>5, <3>1 DEF Back, Bottom
  <2> QED BY <2>1, <2>6, <2>7
<1> QED BY <1>1, <1>3, <1>4, <1>5

\* A request to store a hotel gets from place to place.
LEMMA StoreHotelMoves ==
  ASSUME CallsOK, CallsOK', NEW c \in Clients, storeHotel(c)
  PROVE  \/ At(c, "storedProfile") /\ (Over(c) \/ Back(c))
         \/ Over(c) /\ ~answer'[c].ok
         \/ /\ Deeper(c)
            /\ \/ At(c, "start") /\ call'[c][2].at = "storedLocation"
               \/ At(c, "storedLocation") /\ call'[c][2].at = "storedRate"
               \/ At(c, "storedRate") /\ call'[c][2].at = "addedAvailability"
               \/ At(c, "addedAvailability") /\ call'[c][2].at = "storedProfile"
<1>1. /\ Serving(c, "store_hotel") /\ UNCHANGED state
      /\ StoreHotel(c, Req(c).hotel, Req(c).location, Req(c).capacity)
  BY DEF storeHotel, StoreHotel
<1>2. call[c] # <<>> /\ Head(call[c]).ep = "store_hotel" BY <1>1 DEF Serving
<1>3. /\ call[c] \in Seq(Frames) /\ call[c] \in Calls /\ Head(call[c]) = call[c][1]
      /\ call[c][1] \in Frames
  BY <1>2, StackOf
<1>4. ASSUME NEW service, NEW e, NEW q, NEW place, Invoke(c, service, e, q, place)
      PROVE  \/ Over(c) /\ ~answer'[c].ok
             \/ /\ Len(call'[c]) = Len(call[c]) + 1 /\ call'[c][2].at = place
  <2>1. CASE <<service, e>> \notin up
    <3>1. Ended(c, FALSE, <<>>) BY <1>4, <2>1 DEF Invoke, performRequest, Panic
    <3>2. Over(c) BY <1>2, <3>1, EndedOver
    <3>3. ~answer'[c].ok BY <3>1 DEF Ended, CallsOK
    <3> QED BY <3>2, <3>3
  <2>2. CASE <<service, e>> \in up
    <3> DEFINE f == Frame(e, q)
               g == Gone(Head(call[c]), place, My(c))
               s == <<f, g>> \o Tail(call[c])
    <3>1. call' = [call EXCEPT ![c] = s] BY <1>4, <2>2 DEF Invoke, performRequest, Gone
    <3>2. call'[c] = s
      <4>1. call \in [Clients -> Calls] BY DEF CallsOK
      <4> QED BY <3>1, <4>1
    <3>3. g.at = place BY <1>3, FrameParts DEF Gone
    <3> HIDE DEF f, g
    <3>4. Len(s) = Len(call[c]) + 1 /\ s[2] = g
      <4> DEFINE T == Frames \cup {f, g}
      <4>1. call[c] \in Seq(T) /\ f \in T /\ g \in T
        <5>1. \A i \in 1 .. Len(call[c]) : call[c][i] \in T BY <1>3, ElementOfSeq
        <5>2. Len(call[c]) \in Nat /\ call[c] = [i \in 1 .. Len(call[c]) |-> call[c][i]]
          BY <1>3, LenProperties
        <5> QED BY <5>1, <5>2, IsASeq
      <4> HIDE DEF T
      <4> QED BY <1>2, <4>1, TopCalls
    <3> QED BY <3>2, <3>3, <3>4
  <2> QED BY <2>1, <2>2
<1>5. Step(c) BY StoreHotelStep
<1>6. Len(call[c]) \in Nat BY <1>2, StackOf
<1>7. ASSUME Len(call'[c]) = Len(call[c]) + 1 PROVE Deeper(c) \/ (Over(c) /\ ~answer'[c].ok)
  <2>1. Over(c) \/ Went(c) \/ Deeper(c) \/ Back(c) BY <1>2, <1>5, Outcomes
  <2>2. ~Went(c) /\ ~Back(c) BY <1>6, <1>7 DEF Went, Back
  <2>3. ~Over(c)
    <3>1. Len(call'[c]) # 0 BY <1>6, <1>7
    <3> QED BY <3>1, EmptySeq DEF Over
  <2> QED BY <2>1, <2>2, <2>3
<1>8. CASE At(c, "storedProfile")
  <2>1. Return(c, [hotel |-> Req(c).hotel]) BY <1>1, <1>8 DEF StoreHotel, At
  <2>2. Req(c) \in StoreHotelRequest BY <1>1, Serves DEF RequestOf
  <2>3. [hotel |-> Req(c).hotel] \in ReplyOf["store_hotel"]
    BY <2>2 DEF ReplyOf, StoreHotelRequest, StoreHotelResponse
  <2> QED BY <1>2, <1>8, <2>1, <2>3, Returned
<1> QED BY <1>1, <1>4, <1>7, <1>8 DEF StoreHotel

-----------------------------------------------------------------------------
(* The services keep the hotels they know. *)

KnownInv == Progress /\ CatalogKnown /\ ListsKnown

Grow ==
  /\ DOMAIN rates \subseteq DOMAIN rates'
  /\ DOMAIN availability \subseteq DOMAIN availability'
  /\ DOMAIN profiles \subseteq DOMAIN profiles'

\* A handler that changes what a service keeps is served by this service, and
\* the handlers that store a hotel have it stored when they return.
LEMMA HandleStores ==
  ASSUME CallsOK, StatesOK, NEW c \in Clients, Handle(c)
  PROVE  /\ Grow
         /\ \/ UNCHANGED rates
            \/ Serving(c, "store_rate")
         /\ \/ UNCHANGED availability
            \/ Serving(c, "make_reservation") \/ Serving(c, "add_hotel_availability")
         /\ \/ UNCHANGED profiles
            \/ Serving(c, "store_profile")
         /\ Serving(c, "store_rate") => Req(c).rate.hotel \in DOMAIN rates'
         /\ Serving(c, "add_hotel_availability") => Req(c).hotel \in DOMAIN availability'
         /\ Serving(c, "store_profile") => Req(c).profile.hotel \in DOMAIN profiles'
         /\ Serving(c, "store_hotel") => storeHotel(c)
         /\ UNCHANGED locations \/ storeHotelLocation(c)
         /\ Serving(c, "store_hotel_location") => storeHotelLocation(c)
<1>1. CASE searchHotels(c)
  BY <1>1, SearchHotelsStep DEF searchHotels, Serving, state, Grow
<1>2. CASE storeHotel(c) BY <1>2, StoreHotelStep DEF storeHotel, Serving, state, Grow
<1>3. CASE reservation(c) BY <1>3, ReservationStep DEF reservation, Serving, state, Grow
<1>4. CASE nearby(c) BY <1>4, NearbyStep DEF nearby, Serving, state, Grow
<1>5. CASE storeHotelLocation(c)
  BY <1>5 DEF storeHotelLocation, StoreHotelLocation, Serving, Grow
<1>6. CASE storeRate(c) BY <1>6 DEF storeRate, StoreRate, Serving, Grow, SetState
<1>7. CASE getRates(c) BY <1>7, GetRatesStep DEF getRates, Serving, state, Grow
<1>8. CASE checkAvailabilityHandler(c)
  BY <1>8, CheckAvailabilityStep DEF checkAvailabilityHandler, Serving, state, Grow
<1>9. CASE makeReservation(c)
  <2>1. /\ Serving(c, "make_reservation") /\ UNCHANGED <<locations, rates, profiles, users>>
        /\ \/ UNCHANGED availability
           \/ \E v : availability' = SetState(availability, Req(c).hotel, v)
    BY <1>9 DEF makeReservation, MakeReservation
  <2>2. DOMAIN availability \subseteq DOMAIN availability' BY <2>1 DEF SetState
  <2> QED BY <2>1, <2>2 DEF Serving, Grow
<1>10. CASE addHotelAvailability(c)
  BY <1>10 DEF addHotelAvailability, AddHotelAvailability, Serving, Grow, SetState
<1>11. CASE storeProfile(c) BY <1>11 DEF storeProfile, StoreProfile, Serving, Grow, SetState
<1>12. CASE getProfiles(c) BY <1>12, GetProfilesStep DEF getProfiles, Serving, state, Grow
<1>13. CASE registerUser(c) BY <1>13 DEF registerUser, RegisterUser, Serving, Grow
<1>14. CASE login(c) BY <1>14, LoginStep DEF login, Serving, state, Grow
<1> QED BY <1>1, <1>2, <1>3, <1>4, <1>5, <1>6, <1>7, <1>8, <1>9, <1>10, <1>11, <1>12, <1>13, <1>14
        DEF Handle

LEMMA CatalogStays ==
  ASSUME CallsOK, StatesOK, Served, CatalogKnown, NEW c \in Clients, Handle(c)
  PROVE  CatalogKnown'
<1>1. Step(c) /\ call[c] # <<>> BY HandleStep
<1>2. \A s : Listening(s)' = Listening(s) BY <1>1, Outcomes, OthersListen
<1>3. /\ Grow
      /\ UNCHANGED rates \/ Serving(c, "store_rate")
      /\ \/ UNCHANGED availability
         \/ Serving(c, "make_reservation") \/ Serving(c, "add_hotel_availability")
      /\ UNCHANGED profiles \/ Serving(c, "store_profile")
  BY HandleStores
<1>4. /\ {"rate", "reservation", "profile"} \subseteq DOMAIN Endpoints
      /\ "store_rate" \in Endpoints["rate"] /\ "store_profile" \in Endpoints["profile"]
      /\ "make_reservation" \in Endpoints["reservation"]
      /\ "add_hotel_availability" \in Endpoints["reservation"]
  BY DEF Endpoints
<1>5. /\ UNCHANGED rates \/ Listening("rate")
      /\ UNCHANGED availability \/ Listening("reservation")
      /\ UNCHANGED profiles \/ Listening("profile")
  BY <1>3, <1>4, ServesListens
<1>6. UNCHANGED CatalogHotels BY DEF CatalogHotels
<1> QED BY <1>2, <1>3, <1>5, <1>6 DEF CatalogKnown, Grow

LEMMA ProgressStays ==
  ASSUME CallsOK, StatesOK, CallsOK', Progress, NEW c \in Clients, Handle(c)
  PROVE  Progress'
<1>1. Step(c) /\ call[c] # <<>> BY HandleStep
<1>2. Others(c) BY <1>1, Outcomes
<1>3. Grow BY HandleStores
<1> DEFINE Got(d) ==
      LET h == Bottom(d).req.hotel
          done(place) == Bottom(d).at = place /\ Len(call[d]) = 1
      IN /\ Bottom(d).at \in {"addedAvailability", "storedProfile"} \/ done("storedRate")
              => h \in DOMAIN rates
         /\ Bottom(d).at = "storedProfile" \/ done("addedAvailability") => h \in DOMAIN availability
         /\ done("storedProfile") => h \in DOMAIN profiles
<1>4. ASSUME NEW d \in Clients, d # c, (call[d] # <<>> /\ Bottom(d).ep = "store_hotel")'
      PROVE  Got(d)'
  <2>1. call'[d] = call[d] /\ Bottom(d)' = Bottom(d) BY <1>2, <1>4 DEF Others, Bottom
  <2>2. Got(d) BY <1>4, <2>1 DEF Progress
  <2> QED BY <1>3, <2>1, <2>2 DEF Grow
<1>5. ASSUME (call[c] # <<>> /\ Bottom(c).ep = "store_hotel")'
      PROVE  Got(c)'
  <2>1. ~Over(c) BY <1>5 DEF Over
  <2>2. /\ Bottom(c)'.ep = Bottom(c).ep /\ Bottom(c)'.req = Bottom(c).req
        /\ Len(call[c]) > 1 => Bottom(c)'.at = Bottom(c).at
        /\ Len(call'[c]) = 1 /\ Len(call[c]) > 1 => Len(call[c]) = 2
    BY <1>1, <2>1, BottomMoves
  <2>3. Bottom(c).ep = "store_hotel" /\ Got(c) BY <1>1, <1>5, <2>2 DEF Progress
  <2>4. Len(call[c]) \in Nat /\ Len(call[c]) >= 1 BY <1>1, StackOf
  <2> DEFINE h == Bottom(c).req.hotel
  <2>5. h = Bottom(c)'.req.hotel BY <2>2
  <2>6. CASE Len(call[c]) = 1
    <3>1. Bottom(c) = Head(call[c]) /\ Serving(c, "store_hotel")
      BY <1>1, <2>3, <2>6, BottomParts DEF Serving
    <3>2. storeHotel(c) BY <3>1, HandleStores
    <3>3. ~(Over(c) \/ Back(c)) BY <2>1, <2>6 DEF Back
    <3>4. /\ Deeper(c)
          /\ \/ At(c, "start") /\ call'[c][2].at = "storedLocation"
             \/ At(c, "storedLocation") /\ call'[c][2].at = "storedRate"
             \/ At(c, "storedRate") /\ call'[c][2].at = "addedAvailability"
             \/ At(c, "addedAvailability") /\ call'[c][2].at = "storedProfile"
      BY <3>2, <3>3, StoreHotelMoves
    <3>5. Len(call'[c]) = 2 /\ Bottom(c)' = call'[c][2] BY <2>6, <3>4 DEF Deeper, Bottom
    <3>6. Bottom(c)'.at = "addedAvailability" => h \in DOMAIN rates
      BY <2>3, <2>6, <3>1, <3>4, <3>5 DEF At
    <3>7. Bottom(c)'.at = "storedProfile" => h \in DOMAIN rates /\ h \in DOMAIN availability
      BY <2>3, <2>6, <3>1, <3>4, <3>5 DEF At
    <3> QED BY <1>3, <2>5, <3>5, <3>6, <3>7 DEF Grow
  <2>7. CASE Len(call[c]) > 1 /\ Len(call'[c]) # 1
    BY <1>3, <2>2, <2>3, <2>5, <2>7 DEF Grow
  <2>8. CASE Len(call[c]) = 2 /\ Len(call'[c]) = 1
    <3>1. <<call[c][1], call[c][2]>> \in Links /\ Head(call[c]) = call[c][1]
      <4>1. \A i \in 1 .. Len(call[c]) - 1 : <<call[c][i], call[c][i + 1]>> \in Links
        BY <1>1, StackOf
      <4>2. 1 \in 1 .. 2 - 1 /\ 1 + 1 = 2 OBVIOUS
      <4> QED BY <1>1, <2>8, <4>1, <4>2, StackOf
    <3>2. Bottom(c) = call[c][2] BY <2>8 DEF Bottom
    <3>3. Head(call[c]).ep = Callee[Bottom(c).at] /\ SameHotel(Head(call[c]), Bottom(c))
      BY <3>1, <3>2 DEF Links
    <3>4. Bottom(c).at = "storedRate" => h \in DOMAIN rates'
      <4>1. SUFFICES ASSUME Bottom(c).at = "storedRate" PROVE h \in DOMAIN rates' OBVIOUS
      <4>2. Head(call[c]).ep = "store_rate" BY <3>3, <4>1 DEF Callee
      <4>3. Serving(c, "store_rate") /\ Req(c).rate.hotel = h
        BY <1>1, <3>3, <4>2 DEF Serving, Req, SameHotel
      <4> QED BY <4>3, HandleStores
    <3>5. Bottom(c).at = "addedAvailability" => h \in DOMAIN availability'
      <4>1. SUFFICES ASSUME Bottom(c).at = "addedAvailability" PROVE h \in DOMAIN availability' OBVIOUS
      <4>2. Head(call[c]).ep = "add_hotel_availability" BY <3>3, <4>1 DEF Callee
      <4>3. Serving(c, "add_hotel_availability") /\ Req(c).hotel = h
        BY <1>1, <3>3, <4>2 DEF Serving, Req, SameHotel
      <4> QED BY <4>3, HandleStores
    <3>6. Bottom(c).at = "storedProfile" => h \in DOMAIN profiles'
      <4>1. SUFFICES ASSUME Bottom(c).at = "storedProfile" PROVE h \in DOMAIN profiles' OBVIOUS
      <4>2. Head(call[c]).ep = "store_profile" BY <3>3, <4>1 DEF Callee
      <4>3. Serving(c, "store_profile") /\ Req(c).profile.hotel = h
        BY <1>1, <3>3, <4>2 DEF Serving, Req, SameHotel
      <4> QED BY <4>3, HandleStores
    <3>7. Bottom(c)'.at = Bottom(c).at BY <2>2, <2>8
    <3> QED BY <1>3, <2>3, <2>5, <3>4, <3>5, <3>6, <3>7 DEF Grow
  <2>9. Len(call[c]) = 1 \/ Len(call[c]) > 1
    <3>1. \A k \in Nat : k >= 1 => k = 1 \/ k > 1 OBVIOUS
    <3> QED BY <2>4, <3>1
  <2> QED BY <2>2, <2>6, <2>7, <2>8, <2>9
<1> QED BY <1>4, <1>5 DEF Progress

\* A request that has not got past a place, and a hotel that is known, stay so
\* until the hotel is stored.
LEMMA StoringStays ==
  ASSUME CallsOK, StatesOK, CallsOK', Progress, NEW c \in Clients, Handle(c), NEW h
  PROVE  /\ Storing(c, h, BeforeRate) =>
              Storing(c, h, BeforeRate)' \/ Failed(c, h)' \/ h \in DOMAIN rates
         /\ Storing(c, h, BeforeAvailability) =>
              Storing(c, h, BeforeAvailability)' \/ Failed(c, h)' \/ h \in DOMAIN availability
         /\ Storing(c, h, BeforeProfile) =>
              Storing(c, h, BeforeProfile)' \/ Failed(c, h)' \/ h \in DOMAIN profiles
<1>1. Step(c) /\ call[c] # <<>> BY HandleStep
<1>2. SUFFICES ASSUME Bottom(c).ep = "store_hotel", Bottom(c).req.hotel = h, ~Failed(c, h)'
               PROVE  /\ Storing(c, h, BeforeRate) => Storing(c, h, BeforeRate)' \/ h \in DOMAIN rates
                      /\ Storing(c, h, BeforeAvailability) =>
                           Storing(c, h, BeforeAvailability)' \/ h \in DOMAIN availability
                      /\ Storing(c, h, BeforeProfile) =>
                           Storing(c, h, BeforeProfile)' \/ h \in DOMAIN profiles
  BY DEF Storing
<1>3. Over(c) => answer'[c].ok BY <1>2 DEF Over, Failed
<1>4. Len(call[c]) = 1 \/ Len(call[c]) > 1
  <2>1. Len(call[c]) \in Nat /\ Len(call[c]) >= 1 BY <1>1, StackOf
  <2>2. \A k \in Nat : k >= 1 => k = 1 \/ k > 1 OBVIOUS
  <2> QED BY <2>1, <2>2
<1>5. CASE Len(call[c]) = 1
  <2>1. Bottom(c) = Head(call[c]) /\ Serving(c, "store_hotel")
    BY <1>1, <1>2, <1>5, BottomParts DEF Serving
  <2>2. storeHotel(c) BY <2>1, HandleStores
  <2>3. CASE At(c, "storedProfile")
    <3>1. h \in DOMAIN rates /\ h \in DOMAIN availability /\ h \in DOMAIN profiles
      BY <1>1, <1>2, <1>5, <2>1, <2>3 DEF Progress, At
    <3> QED BY <3>1
  <2>4. CASE /\ Deeper(c)
             /\ \/ At(c, "start") /\ call'[c][2].at = "storedLocation"
                \/ At(c, "storedLocation") /\ call'[c][2].at = "storedRate"
                \/ At(c, "storedRate") /\ call'[c][2].at = "addedAvailability"
                \/ At(c, "addedAvailability") /\ call'[c][2].at = "storedProfile"
    <3>1. Len(call'[c]) = 2 /\ Bottom(c)' = call'[c][2] BY <1>5, <2>4 DEF Deeper, Bottom
    <3>2. call'[c] # <<>> BY <3>1, EmptySeq
    <3>3. ~Over(c) BY <3>2 DEF Over
    <3>4. Bottom(c)'.ep = "store_hotel" /\ Bottom(c)'.req.hotel = h
      BY <1>1, <1>2, <3>3, BottomMoves
    <3>5. At(c, "storedRate") => h \in DOMAIN rates BY <1>1, <1>2, <1>5, <2>1 DEF Progress, At
    <3>6. At(c, "addedAvailability") => h \in DOMAIN availability /\ h \in DOMAIN rates
      BY <1>1, <1>2, <1>5, <2>1 DEF Progress, At
    <3>7. Head(call[c]).at = Bottom(c).at BY <2>1
    <3> HIDE DEF BeforeRate, BeforeAvailability, BeforeProfile
    <3>8. Storing(c, h, BeforeRate) => Storing(c, h, BeforeRate)' \/ h \in DOMAIN rates
      BY <2>4, <3>1, <3>2, <3>4, <3>5, <3>6, <3>7 DEF Storing, At, BeforeRate
    <3>9. Storing(c, h, BeforeAvailability) =>
            Storing(c, h, BeforeAvailability)' \/ h \in DOMAIN availability
      BY <2>4, <3>1, <3>2, <3>4, <3>5, <3>6, <3>7 DEF Storing, At, BeforeAvailability
    <3>10. Storing(c, h, BeforeProfile) => Storing(c, h, BeforeProfile)' \/ h \in DOMAIN profiles
      BY <2>4, <3>1, <3>2, <3>4, <3>5, <3>6, <3>7 DEF Storing, At, BeforeProfile
    <3> QED BY <3>8, <3>9, <3>10
  <2>5. ~Back(c) BY <1>5 DEF Back
  <2> HIDE DEF BeforeRate, BeforeAvailability, BeforeProfile
  <2> QED BY <1>3, <2>2, <2>3, <2>4, <2>5, StoreHotelMoves
<1>6. CASE Len(call[c]) > 1
  <2>1. ~Over(c)
    <3>1. ~(1 > 1) OBVIOUS
    <3>2. Len(call[c]) # 1 BY <1>6, <3>1
    <3> QED BY <1>2, <3>2 DEF Over, Failed
  <2>2. /\ call'[c] # <<>> /\ Bottom(c)'.ep = Bottom(c).ep /\ Bottom(c)'.req = Bottom(c).req
        /\ Bottom(c)'.at = Bottom(c).at
    BY <1>1, <1>6, <2>1, BottomMoves
  <2>3. \A P : Storing(c, h, P) => /\ call'[c] # <<>> /\ Bottom(c)'.ep = "store_hotel"
                                   /\ Bottom(c)'.req.hotel = h /\ Bottom(c)'.at \in P
    BY <2>2 DEF Storing
  <2> QED BY <2>3 DEF Storing, BeforeRate, BeforeAvailability, BeforeProfile
<1> QED BY <1>4, <1>5, <1>6

LEMMA KnownStays ==
  ASSUME CallsOK, StatesOK, CallsOK', Progress, NEW c \in Clients, Handle(c), NEW h, Known(h)
  PROVE  Known(h)'
<1>1. Step(c) /\ call[c] # <<>> BY HandleStep
<1>2. Others(c) BY <1>1, Outcomes
<1>3. Grow BY HandleStores
<1>4. UNCHANGED CatalogHotels BY DEF CatalogHotels
<1>5. ~Failed(c, h)
  <2>1. answer[c].ep = "none" BY <1>1, StackOf
  <2> QED BY <2>1 DEF Failed
<1>6. \A d \in Clients : d # c =>
        /\ Failed(d, h)' = Failed(d, h)
        /\ Storing(d, h, BeforeRate)' = Storing(d, h, BeforeRate)
        /\ Storing(d, h, BeforeAvailability)' = Storing(d, h, BeforeAvailability)
        /\ Storing(d, h, BeforeProfile)' = Storing(d, h, BeforeProfile)
  BY <1>2 DEF Others, Failed, Storing, Bottom, BeforeRate, BeforeAvailability, BeforeProfile
<1>7. /\ Pending(h, BeforeRate) => Pending(h, BeforeRate)' \/ h \in DOMAIN rates
      /\ Pending(h, BeforeAvailability) => Pending(h, BeforeAvailability)' \/ h \in DOMAIN availability
      /\ Pending(h, BeforeProfile) => Pending(h, BeforeProfile)' \/ h \in DOMAIN profiles
  BY <1>5, <1>6, StoringStays DEF Pending
<1> QED BY <1>3, <1>4, <1>7 DEF Known, Grow

\* A hotel whose location is being stored is being stored.
LEMMA StoringLocation ==
  ASSUME CallsOK, NEW c \in Clients, Serving(c, "store_hotel_location")
  PROVE  Known(Req(c).hotel)
<1>1. /\ call[c] # <<>> /\ Head(call[c]).ep = "store_hotel_location"
      /\ Head(call[c]) = call[c][1] /\ Len(call[c]) \in Nat /\ Len(call[c]) >= 1
      /\ \A i \in 1 .. Len(call[c]) : call[c][i] \in Frames
      /\ \A i \in 1 .. Len(call[c]) - 1 : <<call[c][i], call[c][i + 1]>> \in Links
  BY StackOf DEF Serving
<1>2. /\ Bottom(c).ep \in DOMAIN ResponseOf
      /\ Len(call[c]) = 1 => Bottom(c) = Head(call[c])
      /\ \A i \in 1 .. Len(call[c]) - 1 : call[c][i].ep \notin DOMAIN ResponseOf
  BY <1>1, BottomParts
<1>3. Len(call[c]) # 1
  <2>1. "store_hotel_location" \notin DOMAIN ResponseOf BY Names
  <2> QED BY <1>1, <1>2, <2>1
<1>4. /\ 1 \in 1 .. Len(call[c]) - 1 /\ 2 \in 1 .. Len(call[c])
      /\ Len(call[c]) # 2 => 2 \in 1 .. Len(call[c]) - 1
  <2>1. \A k \in Nat : k >= 1 /\ k # 1 =>
          1 \in 1 .. k - 1 /\ 2 \in 1 .. k /\ (k # 2 => 2 \in 1 .. k - 1)
    OBVIOUS
  <2> QED BY <1>1, <1>3, <2>1
<1>5. <<call[c][1], call[c][2]>> \in Links
  <2>1. 1 + 1 = 2 OBVIOUS
  <2> QED BY <1>1, <1>4, <2>1
<1>6. /\ call[c][2].at \in DOMAIN Callee /\ Callee[call[c][2].at] = "store_hotel_location"
      /\ SameHotel(call[c][1], call[c][2])
  BY <1>1, <1>5 DEF Links
<1>7. call[c][2].at = "storedLocation" BY <1>6, Names DEF Callee
<1>8. call[c][2].ep = "store_hotel"
  <2>1. call[c][2].ep \in Eps /\ call[c][2].at \in PlacesOf[call[c][2].ep]
    BY <1>1, <1>4, FrameParts
  <2>2. \A e \in Eps : "storedLocation" \in PlacesOf[e] => e = "store_hotel" BY Names DEF PlacesOf
  <2> QED BY <1>7, <2>1, <2>2
<1>9. Bottom(c) = call[c][2]
  <2>1. "store_hotel" \in DOMAIN ResponseOf BY Names
  <2> QED BY <1>2, <1>4, <1>8, <2>1 DEF Bottom
<1>10. Bottom(c).req.hotel = Req(c).hotel BY <1>1, <1>6, <1>9 DEF SameHotel, Req
<1>11. /\ Storing(c, Req(c).hotel, BeforeRate) /\ Storing(c, Req(c).hotel, BeforeAvailability)
       /\ Storing(c, Req(c).hotel, BeforeProfile)
  BY <1>1, <1>7, <1>8, <1>9, <1>10 DEF Storing, BeforeRate, BeforeAvailability, BeforeProfile
<1> QED BY <1>11 DEF Known, Pending

\* Only a request that stores a location gets a copy of a location's list.
LEMMA NotLoaded ==
  ASSUME CallsOK, CallsOK', NEW c \in Clients, call[c] # <<>>, Step(c),
         Head(call[c]).ep # "store_hotel_location"
  PROVE  ~Holds(c, "loaded")'
<1>1. Over(c) \/ Went(c) \/ Deeper(c) \/ Back(c) BY Outcomes
<1>2. CASE Over(c) \/ Deeper(c) \/ Back(c) BY <1>2, NotHeld
<1>3. CASE Went(c)
  <2>1. SUFFICES ASSUME call'[c] # <<>> PROVE Head(call'[c]).at # "loaded" BY DEF Holds, At
  <2>2. call'[c] \in Calls BY DEF CallsOK
  <2>3. Head(call'[c]) = call'[c][1] BY <2>1, <2>2, HeadFirst
  <2>4. call[c][1] \in Frames /\ Head(call[c]) = call[c][1] BY StackOf
  <2> QED BY <1>3, <2>3, <2>4, FrameParts, HoldingPlaces DEF Went
<1> QED BY <1>1, <1>2, <1>3

LEMMA KeptElements ==
  ASSUME NEW list \in GoodLocation, NEW h \in Hotels
  PROVE  LET n == Append(DropOldest(list, MaxKept), h)
         IN \A i \in DOMAIN n : n[i] = h \/ \E j \in DOMAIN list : n[i] = list[j]
<1> DEFINE n == Append(DropOldest(list, MaxKept), h)
<1>1. list \in Seq(Hotels) /\ Len(list) <= MaxKept /\ MaxKept \in Nat \ {0}
  BY HotelAssumption DEF GoodLocation
<1>2. PICK d \in {0, 1} :
        /\ n \in Seq(Hotels) /\ Len(n) = Len(list) - d + 1 /\ Len(list) - d \in Nat
        /\ \A i \in 1 .. Len(list) - d : n[i] = list[i + d]
        /\ n[Len(list) - d + 1] = h
  BY <1>1, KeptList
<1>3. Len(list) \in Nat /\ DOMAIN list = 1 .. Len(list) /\ DOMAIN n = 1 .. Len(n)
  BY <1>1, <1>2, LenProperties
<1> HIDE DEF n
<1>4. ASSUME NEW i \in DOMAIN n PROVE n[i] = h \/ \E j \in DOMAIN list : n[i] = list[j]
  <2>1. \/ i = Len(list) - d + 1
        \/ i \in 1 .. Len(list) - d /\ i + d \in DOMAIN list
    <3>1. i \in 1 .. Len(list) - d + 1 BY <1>2, <1>3
    <3>2. \A k \in Nat, j \in Nat : j \in 1 .. k - d + 1 =>
            j = k - d + 1 \/ (j \in 1 .. k - d /\ j + d \in 1 .. k)
      BY <1>2
    <3>3. i \in Nat BY <1>2, <1>3, <3>1
    <3> QED BY <1>3, <3>1, <3>2, <3>3
  <2> QED BY <1>2, <2>1
<1> QED BY <1>4 DEF n

\* Handlers leave in the lists, and take from them, hotels that are known.
LEMMA ListsStay ==
  ASSUME CallsOK, StatesOK, CallsOK', Progress, ListsKnown, NEW c \in Clients, Handle(c)
  PROVE  ListsKnown'
<1>1. Step(c) /\ call[c] # <<>> /\ Others(c) BY HandleStep, Outcomes
<1>2. \A h : Known(h) => Known(h)' BY KnownStays
<1>3. /\ \A l \in DOMAIN locations : \A i \in DOMAIN locations[l] : Known(locations[l][i])
      /\ \A d \in Clients : Holds(d, "loaded") => \A i \in DOMAIN My(d) : Known(My(d)[i])
  BY DEF ListsKnown, AllKnown
<1>4. SUFFICES /\ (\A l \in DOMAIN locations : \A i \in DOMAIN locations[l] : Known(locations[l][i]))'
               /\ (Holds(c, "loaded") => \A i \in DOMAIN My(c) : Known(My(c)[i]))'
  <2>1. ASSUME NEW d \in Clients, d # c, Holds(d, "loaded")'
        PROVE  (\A i \in DOMAIN My(d) : Known(My(d)[i]))'
    <3>1. My(d)' = My(d) /\ Holds(d, "loaded") BY <1>1, <2>1, SameHandlers
    <3> QED BY <1>2, <1>3, <3>1
  <2> QED BY <2>1 DEF ListsKnown, AllKnown
<1>5. CASE ~Serving(c, "store_hotel_location")
  <2>1. ~Holds(c, "loaded")' BY <1>1, <1>5, NotLoaded DEF Serving
  <2>2. UNCHANGED locations BY <1>5, HandleStores DEF storeHotelLocation
  <2> QED BY <1>2, <1>3, <2>1, <2>2
<1>6. CASE Serving(c, "store_hotel_location")
  <2>1. storeHotelLocation(c) /\ Known(Req(c).hotel) BY <1>6, HandleStores, StoringLocation
  <2>2. Req(c).hotel \in Hotels /\ (At(c, "start") \/ At(c, "loaded"))
    <3>1. Req(c) \in StoreHotelLocationRequest BY <1>6, Serves DEF RequestOf
    <3> QED BY <2>1, <3>1 DEF StoreHotelLocationRequest, storeHotelLocation, StoreHotelLocation
  <2>3. CASE At(c, "start")
    <3>1. UNCHANGED locations /\ My(c)' = getHotelIdsForLocation(Req(c).location)
      BY <2>1, <2>3, LocationCopied
    <3>2. \A i \in DOMAIN My(c)' : Known(My(c)'[i])
      BY <1>3, <3>1 DEF getHotelIdsForLocation, Has, GetState
    <3> QED BY <1>2, <1>3, <3>1, <3>2
  <2>4. CASE At(c, "loaded")
    <3> DEFINE n == Append(DropOldest(My(c), MaxKept), Req(c).hotel)
    <3>1. /\ locations' = SetState(locations, Req(c).location, n) /\ Return(c, [hotel |-> Req(c).hotel])
      BY <2>1, <2>4 DEF storeHotelLocation, StoreHotelLocation, At
    <3>2. [hotel |-> Req(c).hotel] \in ReplyOf["store_hotel_location"]
      BY <2>2 DEF ReplyOf, StoreHotelLocationResponse
    <3>3. ~Holds(c, "loaded")'
      <4>1. Head(call[c]).ep = "store_hotel_location" BY <1>6 DEF Serving
      <4> QED BY <1>1, <3>1, <3>2, <4>1, Returned, NotHeld
    <3>4. Holds(c, "loaded") /\ My(c) \in GoodLocation BY <1>1, <2>4, HeldIs DEF Holds
    <3>5. \A i \in DOMAIN n : n[i] = Req(c).hotel \/ \E j \in DOMAIN My(c) : n[i] = My(c)[j]
      BY <2>2, <3>4, KeptElements
    <3> HIDE DEF n
    <3>6. \A i \in DOMAIN n : Known(n[i]) BY <1>3, <2>1, <3>4, <3>5
    <3>7. \A l \in DOMAIN locations' : \A i \in DOMAIN locations'[l] : Known(locations'[l][i])
      <4>1. /\ DOMAIN locations' = DOMAIN locations \cup {Req(c).location}
            /\ locations'[Req(c).location] = n
            /\ \A l \in DOMAIN locations : l # Req(c).location => locations'[l] = locations[l]
        BY <3>1 DEF SetState
      <4> QED BY <1>3, <3>6, <4>1
    <3> QED BY <1>2, <3>3, <3>7
  <2> QED BY <2>2, <2>3, <2>4
<1> QED BY <1>5, <1>6

LEMMA HandleKnown ==
  ASSUME CallsOK, StatesOK, CallsOK', KeptInv, KnownInv, NEW c \in Clients, Handle(c)
  PROVE  KnownInv'
BY ProgressStays, CatalogStays, ListsStay DEF KnownInv, KeptInv

LEMMA AsksKnown ==
  ASSUME CallsOK, KnownInv, NEW c \in Clients, Asked(c), UNCHANGED state
  PROVE  KnownInv'
<1>1. PICK e \in DOMAIN ResponseOf : \E q \in RequestOf[e] : Asks(c, e, q) BY DEF Asked
<1>2. PICK q \in RequestOf[e] : Asks(c, e, q) BY <1>1
<1>3. /\ UNCHANGED <<up, answer>> /\ call'[c] = <<Frame(e, q)>> /\ call[c] = <<>>
      /\ \A d \in Clients : d # c => call'[d] = call[d]
  BY <1>2, AsksStep
<1>4. UNCHANGED <<locations, rates, availability, profiles>> BY DEF state
<1>5. Head(call'[c]).at = "start" /\ Bottom(c)'.at = "start" BY <1>3 DEF Frame, Bottom
<1>6. \A d \in Clients : d # c =>
        /\ Bottom(d)' = Bottom(d) /\ call'[d] = call[d] /\ My(d)' = My(d)
        /\ Holds(d, "loaded")' = Holds(d, "loaded")
  BY <1>3 DEF Bottom, My, Holds, At
<1>7. \A h : Known(h) => Known(h)'
  <2>1. \A d \in Clients : \A h : Failed(d, h)' = Failed(d, h) BY <1>3 DEF Failed
  <2>2. \A d \in Clients : \A h, P : Storing(d, h, P) => Storing(d, h, P)'
    BY <1>3, <1>6 DEF Storing
  <2>3. \A h, P : Pending(h, P) => Pending(h, P)' BY <2>1, <2>2 DEF Pending
  <2>4. UNCHANGED CatalogHotels BY DEF CatalogHotels
  <2> QED BY <1>4, <2>3, <2>4 DEF Known, BeforeRate, BeforeAvailability, BeforeProfile
<1>8. Progress' BY <1>3, <1>4, <1>5, <1>6 DEF Progress, KnownInv
<1>9. CatalogKnown'
  <2>1. UNCHANGED CatalogHotels /\ \A s : Listening(s)' = Listening(s)
    BY <1>3 DEF CatalogHotels, Listening
  <2> QED BY <1>4, <2>1 DEF CatalogKnown, KnownInv
<1>10. ListsKnown'
  <2>1. ~Holds(c, "loaded")' BY <1>5 DEF Holds, At
  <2> QED BY <1>4, <1>6, <1>7, <2>1 DEF ListsKnown, AllKnown, KnownInv
<1> QED BY <1>8, <1>9, <1>10 DEF KnownInv

LEMMA SeedsInCatalog ==
  \A l \in DOMAIN InitLocations : \A i \in DOMAIN InitLocations[l] : InitLocations[l][i] \in CatalogHotels
<1> SUFFICES ASSUME NEW l \in DOMAIN Catalog, NEW i \in DOMAIN Newest(Seeded(l), MaxKept)
             PROVE  Newest(Seeded(l), MaxKept)[i] \in CatalogHotels
  BY DEF InitLocations
<1> DEFINE n == Newest(Seeded(l), MaxKept)
<1>1. /\ Seeded(l) = Catalog[l] /\ Catalog[l] \in Seq(Hotels) /\ MaxKept \in Nat
      /\ Len(Catalog[l]) \in Nat /\ DOMAIN Catalog[l] = 1 .. Len(Catalog[l])
  BY HotelAssumption, LenProperties DEF Seeded
<1>2. /\ n \in Seq(Hotels) /\ Len(n) \in Nat /\ Len(n) <= Len(Catalog[l])
      /\ \A j \in 1 .. Len(n) : n[j] = Catalog[l][Len(Catalog[l]) - Len(n) + j]
  <2>1. /\ n \in Seq(Hotels) /\ Len(n) = IF Len(Catalog[l]) > MaxKept THEN MaxKept ELSE Len(Catalog[l])
        /\ \A j \in 1 .. Len(n) : n[j] = Catalog[l][Len(Catalog[l]) - Len(n) + j]
    BY <1>1, NewestParts
  <2>2. \A a, b \in Nat : LET m == IF a > b THEN b ELSE a IN m \in Nat /\ m <= a OBVIOUS
  <2>3. Len(n) \in Nat /\ Len(n) <= Len(Catalog[l]) BY <1>1, <2>1, <2>2
  <2> QED BY <2>1, <2>3
<1> HIDE DEF n
<1>3. i \in 1 .. Len(n) BY <1>2, LenProperties DEF n
<1>4. Len(Catalog[l]) - Len(n) + i \in DOMAIN Catalog[l]
  <2>1. \A a, b, j \in Nat : b <= a /\ j \in 1 .. b => a - b + j \in 1 .. a OBVIOUS
  <2>2. i \in Nat BY <1>2, <1>3
  <2> QED BY <1>1, <1>2, <1>3, <2>1, <2>2
<1> QED BY <1>2, <1>3, <1>4 DEF n, CatalogHotels

LEMMA MainKnown ==
  ASSUME CallsOK, StatesOK, KnownInv, main
  PROVE  KnownInv'
<1>1. UNCHANGED <<call, answer>> BY MainStep
<1>2. PICK s \in DOMAIN Endpoints :
        /\ ~Listening(s) /\ Listening(s)' /\ \A t : t # s => (Listening(t)' = Listening(t))
        /\ IF s = "reservation" THEN availability' = InitHotelAvailability
                                ELSE UNCHANGED availability
        /\ IF s = "search" THEN locations' = InitLocations ELSE UNCHANGED locations
        /\ IF s = "rate" THEN rates' = InitRates ELSE UNCHANGED rates
        /\ IF s = "profile" THEN profiles' = InitProfiles ELSE UNCHANGED profiles
  BY MainListens
<1>3. UNCHANGED CatalogHotels BY DEF CatalogHotels
<1>4. /\ DOMAIN InitRates = CatalogHotels /\ DOMAIN InitHotelAvailability = CatalogHotels
      /\ DOMAIN InitProfiles = CatalogHotels
  BY DEF InitRates, InitHotelAvailability, InitProfiles
<1>5. CatalogKnown' BY <1>2, <1>3, <1>4 DEF CatalogKnown, KnownInv
<1>6. Grow
  <2>1. DOMAIN <<>> = {} OBVIOUS
  <2>2. /\ s = "rate" => rates = <<>>
        /\ s = "reservation" => availability = <<>>
        /\ s = "profile" => profiles = <<>>
    BY <1>2 DEF CatalogKnown, KnownInv
  <2> QED BY <1>2, <2>1, <2>2 DEF Grow
<1>7. \A c : /\ Bottom(c)' = Bottom(c) /\ My(c)' = My(c) /\ Holds(c, "loaded")' = Holds(c, "loaded")
  BY <1>1 DEF Bottom, My, Holds, At
<1>8. \A h : Known(h) => Known(h)'
  <2>1. \A h, P : Pending(h, P)' = Pending(h, P) BY <1>1, <1>7 DEF Pending, Storing, Failed
  <2> QED BY <1>3, <1>6, <2>1 DEF Known, Grow, BeforeRate, BeforeAvailability, BeforeProfile
<1>9. Progress' BY <1>1, <1>6, <1>7 DEF Progress, KnownInv, Grow
<1>10. ListsKnown'
  <2>1. \A c \in Clients : (Holds(c, "loaded") => AllKnown(My(c)))'
    BY <1>7, <1>8 DEF ListsKnown, AllKnown, KnownInv
  <2>2. CASE s = "search"
    <3>1. locations' = InitLocations BY <1>2, <2>2
    <3>2. \A h \in CatalogHotels : Known(h)' BY <1>3 DEF Known
    <3>3. (\A l \in DOMAIN locations : AllKnown(locations[l]))'
      BY <3>1, <3>2, SeedsInCatalog DEF AllKnown
    <3> QED BY <2>1, <3>3 DEF ListsKnown
  <2>3. CASE s # "search"
    <3>1. UNCHANGED locations BY <1>2, <2>3
    <3>2. (\A l \in DOMAIN locations : AllKnown(locations[l]))'
      BY <1>8, <3>1 DEF ListsKnown, AllKnown, KnownInv
    <3> QED BY <2>1, <3>2 DEF ListsKnown
  <2> QED BY <2>2, <2>3
<1> QED BY <1>5, <1>9, <1>10 DEF KnownInv

LEMMA InitKnown == Init => KnownInv
<1> SUFFICES ASSUME Init PROVE KnownInv OBVIOUS
<1>1. /\ \A s \in DOMAIN Endpoints : s \notin Late <=> Listening(s)
      /\ \A c \in Clients : call[c] = <<>>
  BY InitListens
<1>2. {"rate", "reservation", "profile", "search"} \subseteq DOMAIN Endpoints BY DEF Endpoints
<1>3. Progress BY <1>1 DEF Progress
<1>4. CatalogKnown
  BY <1>1, <1>2 DEF CatalogKnown, Init, InitRates, InitHotelAvailability, InitProfiles
<1>5. ListsKnown
  <2>1. \A c \in Clients : ~Holds(c, "loaded") BY <1>1 DEF Holds
  <2>2. \A l \in DOMAIN locations : \A i \in DOMAIN locations[l] : locations[l][i] \in CatalogHotels
    BY SeedsInCatalog DEF Init
  <2> QED BY <2>1, <2>2 DEF ListsKnown, AllKnown, Known
<1> QED BY <1>3, <1>4, <1>5 DEF KnownInv

LEMMA NextKnown ==
  (CallsOK /\ StatesOK /\ KeptInv) /\ CallsOK' /\ KnownInv /\ [Next]_vars => KnownInv'
<1> SUFFICES ASSUME CallsOK, StatesOK, KeptInv, CallsOK', KnownInv, [Next]_vars PROVE KnownInv'
  OBVIOUS
<1>1. CASE main BY <1>1, MainKnown
<1>2. ASSUME NEW c \in Clients, Client(c) PROVE KnownInv' BY <1>2, ClientAsks, AsksKnown
<1>3. ASSUME NEW c \in Clients, Handle(c) PROVE KnownInv' BY <1>3, HandleKnown
<1>4. CASE UNCHANGED vars
  <2>1. UNCHANGED <<call, answer, up, locations, rates, availability, profiles>>
    BY <1>4 DEF vars, svars, state
  <2>2. \A s : Listening(s)' = Listening(s) BY <2>1 DEF Listening
  <2>3. \A c : /\ Bottom(c)' = Bottom(c) /\ My(c)' = My(c) /\ Holds(c, "loaded")' = Holds(c, "loaded")
    BY <2>1 DEF Bottom, My, Holds, At
  <2>4. UNCHANGED CatalogHotels BY DEF CatalogHotels
  <2>5. \A h, P : Pending(h, P)' = Pending(h, P) BY <2>1, <2>3 DEF Pending, Storing, Failed
  <2>6. \A h : Known(h)' = Known(h)
    BY <2>1, <2>4, <2>5 DEF Known, BeforeRate, BeforeAvailability, BeforeProfile
  <2>7. Progress' BY <2>1, <2>3 DEF Progress, KnownInv
  <2>8. CatalogKnown' BY <2>1, <2>2, <2>4 DEF CatalogKnown, KnownInv
  <2>9. ListsKnown' BY <2>1, <2>3, <2>6 DEF ListsKnown, AllKnown, KnownInv
  <2> QED BY <2>7, <2>8, <2>9 DEF KnownInv
<1> QED BY <1>1, <1>2, <1>3, <1>4 DEF Next

(* A search meets a hotel without rate, availability or profile only while  *)
(* the request that stores it has not got there, or after one has failed:   *)
(* StoreHotel tells the search service of a hotel before the other services.*)
THEOREM StoredHotelsKnown == Spec => []KnownOnceStored
<1>1. CallsOK /\ KnownInv => KnownOnceStored
  <2> SUFFICES ASSUME CallsOK, KnownInv, NEW l \in DOMAIN locations,
                      NEW h \in {locations[l][i] : i \in DOMAIN locations[l]}
               PROVE  /\ Listening("rate") /\ ~Has(rates, h) => Unfinished(h, BeforeRate)
                      /\ Listening("reservation") /\ ~Has(availability, h)
                           => Unfinished(h, BeforeAvailability)
                      /\ Listening("profile") /\ ~Has(profiles, h) => Unfinished(h, BeforeProfile)
    BY DEF KnownOnceStored, BeforeRate, BeforeAvailability, BeforeProfile
  <2>1. Known(h) BY DEF KnownInv, ListsKnown, AllKnown
  <2>2. ASSUME NEW P, Pending(h, P) PROVE Unfinished(h, P)
    <3>1. PICK c \in Clients : Storing(c, h, P) \/ Failed(c, h) BY <2>2 DEF Pending
    <3>2. ASSUME Storing(c, h, P) PROVE Bottom(c) \in Handlers(c)
      BY <3>2, BottomParts DEF Storing, Bottom, Handlers
    <3> QED BY <3>1, <3>2 DEF Storing, Failed, Unfinished
  <2> HIDE DEF BeforeRate, BeforeAvailability, BeforeProfile
  <2> QED BY <2>1, <2>2 DEF Known, KnownInv, CatalogKnown, Has
<1>2. Init => KnownInv BY InitKnown
<1>3. (CallsOK /\ StatesOK /\ KeptInv) /\ CallsOK' /\ KnownInv /\ [Next]_vars => KnownInv'
  BY NextKnown
<1> QED BY <1>1, <1>2, <1>3, AlwaysKept, PTL DEF Spec
=============================================================================
