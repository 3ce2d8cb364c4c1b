-------------------------------- MODULE Hotel --------------------------------
(***************************************************************************)
(* The hotel application (src/app/internal/hotel, src/app/cmd/hotel):      *)
(* a frontend that searches, registers hotels and reserves rooms, and the  *)
(* services search, rate, reservation, profile and user behind it. Dates   *)
(* are ordered like their strings; hash is an injection.                   *)
(***************************************************************************)
EXTENDS Services, FiniteSets

CONSTANTS Hotels, Locations, Users, Passwords,
          Stays,       \* pairs of dates a client asks for
          Rooms,       \* numbers of rooms a client asks for
          Capacities,  \* of hotels that clients register
          Catalog,     \* hotels.json: the hotels of each of its cities, in order
          SeedUsers,   \* passwords of the users the service starts with
          SeedCapacity,\* of the hotels of the catalogue, 11 in the code
          MaxKept,     \* elements a stored list keeps, 10 in the code
          Late         \* services that may be called before they listen

VARIABLES locations, rates, availability, profiles, users,
          log,         \* log[k]: what was appended to the list of key k
          raced        \* keys written while a request held a copy of their list

state == <<locations, rates, availability, profiles, users, log, raced>>
vars == <<svars, state>>

(* The handlers that the services register in their main. *)
Endpoints ==
  [reservation |-> {"ro_check_availability", "make_reservation", "add_hotel_availability"},
   search |-> {"ro_nearby", "store_hotel_location"},
   rate |-> {"store_rate", "ro_get_rates"},
   profile |-> {"store_profile", "ro_get_profiles"},
   user |-> {"register_user", "login"}]
Dates == UNION {{s[1], s[2]} : s \in Stays}
CatalogHotels == UNION {{Catalog[l][i] : i \in DOMAIN Catalog[l]} : l \in DOMAIN Catalog}
NoOne == "nobody"

ASSUME HotelAssumption ==
  /\ Hotels \cap Locations = {}          \* log has a key for each of them
  /\ DOMAIN Catalog \subseteq Locations /\ \A l \in DOMAIN Catalog : Catalog[l] \in Seq(Hotels)
  /\ Stays \subseteq Nat \X Nat
  /\ Rooms \subseteq Nat /\ Capacities \subseteq Nat /\ SeedCapacity \in Nat
  /\ DOMAIN SeedUsers \subseteq Users /\ \A u \in DOMAIN SeedUsers : SeedUsers[u] \in Passwords
  /\ MaxKept \in Nat \ {0}

-----------------------------------------------------------------------------
(* Values and messages. *)
Rate == [hotel : Hotels]
Reservation == [customer : Users, from : Dates, to : Dates, rooms : Nat]
HotelAvailability == [capacity : Nat, reservations : Seq(Reservation)]
HotelProfile == [hotel : Hotels]
NoProfile == [hotel |-> "none"]        \* the zero value, of a hotel without a profile
FoundProfile == HotelProfile \cup {NoProfile}
Salts == Clients \cup {"seed"}
User == [username : Users, password : Passwords \X Salts, salt : Salts]

SearchHotelsRequest == [from : Dates, to : Dates, location : Locations]
SearchHotelsResponse == [profiles : Seq(FoundProfile)]
StoreHotelRequest == [hotel : Hotels, location : Locations, capacity : Capacities]
StoreHotelResponse == [hotel : Hotels]
FrontendReservationRequest ==
  [hotel : Hotels, from : Dates, to : Dates, rooms : Rooms, username : Users, password : Passwords]
FrontendReservationResponse == [success : BOOLEAN]
NearbyRequest == SearchHotelsRequest
NearbyResponse == [rates : Seq(Rate)]
StoreHotelLocationRequest == [hotel : Hotels, location : Locations]
StoreHotelLocationResponse == [hotel : Hotels]
GetRatesRequest == [hotels : Seq(Hotels)]
GetRatesResponse == [rates : Seq(Rate)]
StoreRateRequest == [rate : Rate]
StoreRateResponse == [hotel : Hotels]
GetProfilesRequest == [hotels : Seq(Hotels)]
GetProfilesResponse == [profiles : Seq(FoundProfile)]
StoreProfileRequest == [profile : HotelProfile]
StoreProfileResponse == [hotel : Hotels]
CheckAvailabilityRequest ==
  [customer : {NoOne}, hotels : Seq(Hotels), from : Dates, to : Dates, rooms : Nat]
CheckAvailabilityResponse == [hotels : Seq(Hotels)]
MakeReservationRequest ==
  [customer : Users, hotel : Hotels, from : Dates, to : Dates, rooms : Rooms]
MakeReservationResponse == [success : BOOLEAN]
AddHotelAvailabilityRequest == [hotel : Hotels, capacity : Capacities]
AddHotelAvailabilityResponse == [hotel : Hotels]
RegisterUserRequest == [username : Users, password : Passwords]
RegisterUserResponse == [ok : BOOLEAN]
LoginRequest == [username : Users, password : Passwords]
LoginResponse == [token : {"OK", "NOT-OK"}]

-----------------------------------------------------------------------------
(* History: the window of a list is what was appended to it, unless two    *)
(* writers overlapped. holds says that a request has a copy of the list.   *)
holds(c, key) ==
  /\ call[c] # <<>>
  /\ \/ Serving(c, "make_reservation") /\ At(c, "checked") /\ Req(c).hotel = key
     \/ Serving(c, "store_hotel_location") /\ At(c, "loaded") /\ Req(c).location = key

Wrote(c, key, entries) ==
  /\ log' = [log EXCEPT ![key] = entries]
  /\ raced' = IF \E d \in Clients \ {c} : holds(d, key) THEN raced \cup {key} ELSE raced

-----------------------------------------------------------------------------
(* The reservation service. *)
InitHotelAvailability ==
  [h \in CatalogHotels |-> [capacity |-> SeedCapacity, reservations |-> <<>>]]

datesIntersect(in1, out1, in2, out2) == ~(in2 > out1 \/ in1 > out2)

theseDays(hotel, from, to) ==
  LET list == hotel.reservations
  IN {i \in DOMAIN list : datesIntersect(from, to, list[i].from, list[i].to)}

(* Mutant: the rooms asked for are not counted. *)
checkAvailabilityNoRooms(hotel, from, to, rooms) ==
  Cardinality(theseDays(hotel, from, to)) <= hotel.capacity

checkAvailability(hotel, from, to, rooms) ==
  Cardinality(theseDays(hotel, from, to)) + rooms <= hotel.capacity

(* The locals are <<hotels found available, number of hotels looked at>>. *)
CheckAvailability(c, hotels, from, to, rooms) ==
  LET found == IF At(c, "start") THEN <<>> ELSE My(c)[1]
      n == IF At(c, "start") THEN 1 ELSE My(c)[2]
  IN /\ UNCHANGED state
     /\ \/ n > Len(hotels) /\ Return(c, [hotels |-> found])
        \/ n <= Len(hotels) /\ ~Has(availability, hotels[n]) /\ Panic(c)
        \/ /\ n <= Len(hotels) /\ Has(availability, hotels[n])
           /\ Goto(c, "checking",
                <<IF checkAvailability(GetState(availability, hotels[n]), from, to, rooms)
                  THEN Append(found, hotels[n]) ELSE found, n + 1>>)

MakeReservation(c, customer, hotel, from, to, rooms) ==
  /\ UNCHANGED <<locations, rates, profiles, users>>
  /\ \/ At(c, "start") /\ ~Has(availability, hotel) /\ Panic(c)
        /\ UNCHANGED <<availability, log, raced>>
     \/ /\ At(c, "start") /\ Has(availability, hotel)
        /\ IF checkAvailability(GetState(availability, hotel), from, to, rooms)
           THEN Goto(c, "checked", GetState(availability, hotel))
           ELSE Return(c, [success |-> FALSE])
        /\ UNCHANGED <<availability, log, raced>>
     \/ LET new == [customer |-> customer, from |-> from, to |-> to, rooms |-> rooms] IN
        /\ At(c, "checked")
        /\ availability' = SetState(availability, hotel, [My(c) EXCEPT !.reservations =
                                      Append(DropOldest(@, MaxKept), new)])
        /\ Wrote(c, hotel, Append(log[hotel], new))
        /\ Return(c, [success |-> TRUE])

(* Mutant: a hotel that is registered again keeps its reservations. *)
AddHotelAvailabilityKeep(c, hotel, capacity) ==
  /\ availability' = SetState(availability, hotel, [capacity |-> capacity,
       reservations |-> IF Has(availability, hotel) THEN availability[hotel].reservations ELSE <<>>])
  /\ Wrote(c, hotel, <<>>)
  /\ Return(c, [hotel |-> hotel])
  /\ UNCHANGED <<locations, rates, profiles, users>>

AddHotelAvailability(c, hotel, capacity) ==
  /\ availability' = SetState(availability, hotel,
                              [capacity |-> capacity, reservations |-> <<>>])
  /\ Wrote(c, hotel, <<>>)
  /\ Return(c, [hotel |-> hotel])
  /\ UNCHANGED <<locations, rates, profiles, users>>

checkAvailabilityHandler(c) ==
  /\ Serving(c, "ro_check_availability")
  /\ CheckAvailability(c, Req(c).hotels, Req(c).from, Req(c).to, Req(c).rooms)
makeReservation(c) ==
  /\ Serving(c, "make_reservation")
  /\ MakeReservation(c, Req(c).customer, Req(c).hotel, Req(c).from, Req(c).to, Req(c).rooms)
addHotelAvailability(c) ==
  /\ Serving(c, "add_hotel_availability")
  /\ AddHotelAvailability(c, Req(c).hotel, Req(c).capacity)

reservationMain ==
  /\ Listen("reservation", Endpoints["reservation"])
  /\ availability' = InitHotelAvailability
  /\ UNCHANGED <<locations, rates, profiles, users, log, raced>>

-----------------------------------------------------------------------------
(* The search service. *)
Seeded(location) == IF location \in DOMAIN Catalog THEN Catalog[location] ELSE <<>>

InitLocations == [l \in DOMAIN Catalog |-> Newest(Seeded(l), MaxKept)]

getHotelIdsForLocation(location) ==
  IF Has(locations, location) THEN GetState(locations, location) ELSE <<>>

Nearby(c, from, to, location) ==
  /\ UNCHANGED state
  /\ \/ At(c, "start") /\ Invoke(c, "rate", "ro_get_rates",
                            [hotels |-> getHotelIdsForLocation(location)], "gotRates")
     \/ At(c, "gotRates") /\ Return(c, [rates |-> Res(c).rates])

StoreHotelLocation(c, hotel, location) ==
  /\ UNCHANGED <<rates, availability, profiles, users>>
  /\ \/ At(c, "start") /\ Goto(c, "loaded", getHotelIdsForLocation(location))
        /\ UNCHANGED <<locations, log, raced>>
     \/ /\ At(c, "loaded")
        /\ locations' = SetState(locations, location,
                                 Append(DropOldest(My(c), MaxKept), hotel))
        /\ Wrote(c, location, Append(log[location], hotel))
        /\ Return(c, [hotel |-> hotel])

nearby(c) ==
  /\ Serving(c, "ro_nearby")
  /\ Nearby(c, Req(c).from, Req(c).to, Req(c).location)
storeHotelLocation(c) ==
  /\ Serving(c, "store_hotel_location")
  /\ StoreHotelLocation(c, Req(c).hotel, Req(c).location)

searchMain ==
  /\ Listen("search", Endpoints["search"])
  /\ locations' = InitLocations
  /\ UNCHANGED <<rates, availability, profiles, users, log, raced>>

-----------------------------------------------------------------------------
(* The rate service. *)
InitRates == [h \in CatalogHotels |-> [hotel |-> h]]

(* Mutant: a rate can be changed, but not added. *)
StoreRateKnown(c, rate) ==
  /\ rates' = IF Has(rates, rate.hotel) THEN SetState(rates, rate.hotel, rate) ELSE rates
  /\ Return(c, [hotel |-> rate.hotel])
  /\ UNCHANGED <<locations, availability, profiles, users, log, raced>>

StoreRate(c, rate) ==
  /\ rates' = SetState(rates, rate.hotel, rate)
  /\ Return(c, [hotel |-> rate.hotel])
  /\ UNCHANGED <<locations, availability, profiles, users, log, raced>>

GetRates(c, hotels) ==
  /\ UNCHANGED state
  /\ \/ GetBulkState(c, rates, hotels)
     \/ AllRead(c, hotels) /\ Return(c, [rates |-> My(c)])

storeRate(c) == Serving(c, "store_rate") /\ StoreRate(c, Req(c).rate)
getRates(c) == Serving(c, "ro_get_rates") /\ GetRates(c, Req(c).hotels)

rateMain ==
  /\ Listen("rate", Endpoints["rate"])
  /\ rates' = InitRates
  /\ UNCHANGED <<locations, availability, profiles, users, log, raced>>

-----------------------------------------------------------------------------
(* The profile service. *)
InitProfiles == [h \in CatalogHotels |-> [hotel |-> h]]

StoreProfile(c, profile) ==
  /\ profiles' = SetState(profiles, profile.hotel, profile)
  /\ Return(c, [hotel |-> profile.hotel])
  /\ UNCHANGED <<locations, rates, availability, users, log, raced>>

GetProfiles(c, hotels) ==
  /\ UNCHANGED state
  /\ \/ GetBulkStateDefault(c, profiles, hotels, NoProfile)
     \/ AllRead(c, hotels) /\ Return(c, [profiles |-> My(c)])

storeProfile(c) == Serving(c, "store_profile") /\ StoreProfile(c, Req(c).profile)
getProfiles(c) == Serving(c, "ro_get_profiles") /\ GetProfiles(c, Req(c).hotels)

profileMain ==
  /\ Listen("profile", Endpoints["profile"])
  /\ profiles' = InitProfiles
  /\ UNCHANGED <<locations, rates, availability, users, log, raced>>

-----------------------------------------------------------------------------
(* The user service: every registration draws a salt of its own. *)
hash(password, salt) == <<password, salt>>

InitUsers ==
  [u \in DOMAIN SeedUsers |->
     [username |-> u, password |-> hash(SeedUsers[u], "seed"), salt |-> "seed"]]

RegisterUser(c, username, password) ==
  /\ users' = SetState(users, username,
                 [username |-> username, password |-> hash(password, c), salt |-> c])
  /\ Return(c, [ok |-> TRUE])
  /\ UNCHANGED <<locations, rates, availability, profiles, log, raced>>

Login(c, username, password) ==
  /\ UNCHANGED state
  /\ IF Has(users, username)
     THEN LET user == GetState(users, username) IN
          Return(c, [token |-> IF hash(password, user.salt) = user.password
                               THEN "OK" ELSE "NOT-OK"])
     ELSE Panic(c)

registerUser(c) ==
  Serving(c, "register_user") /\ RegisterUser(c, Req(c).username, Req(c).password)
login(c) == Serving(c, "login") /\ Login(c, Req(c).username, Req(c).password)

userMain ==
  /\ Listen("user", Endpoints["user"])
  /\ users' = InitUsers
  /\ UNCHANGED <<locations, rates, availability, profiles, log, raced>>

-----------------------------------------------------------------------------
(* The frontend. *)
SearchHotels(c, from, to, location) ==
  /\ UNCHANGED state
  /\ \/ /\ At(c, "start")
        /\ Invoke(c, "search", "ro_nearby",
                  [from |-> from, to |-> to, location |-> location], "gotNearby")
     \/ /\ At(c, "gotNearby")
        /\ Invoke(c, "reservation", "ro_check_availability",
                  [customer |-> NoOne, from |-> from, to |-> to, rooms |-> 1,
                   hotels |-> [i \in DOMAIN Res(c).rates |-> Res(c).rates[i].hotel]],
                  "gotAvailable")
     \/ /\ At(c, "gotAvailable")
        /\ Invoke(c, "profile", "ro_get_profiles", [hotels |-> Res(c).hotels], "gotProfiles")
     \/ At(c, "gotProfiles") /\ Return(c, [profiles |-> Res(c).profiles])

StoreHotel(c, hotel, location, capacity) ==
  /\ UNCHANGED state
  /\ \/ /\ At(c, "start")
        /\ Invoke(c, "search", "store_hotel_location",
                  [hotel |-> hotel, location |-> location], "storedLocation")
     \/ /\ At(c, "storedLocation")
        /\ Invoke(c, "rate", "store_rate", [rate |-> [hotel |-> hotel]], "storedRate")
     \/ /\ At(c, "storedRate")
        /\ Invoke(c, "reservation", "add_hotel_availability",
                  [hotel |-> hotel, capacity |-> capacity], "addedAvailability")
     \/ /\ At(c, "addedAvailability")
        /\ Invoke(c, "profile", "store_profile", [profile |-> [hotel |-> hotel]], "storedProfile")
     \/ At(c, "storedProfile") /\ Return(c, [hotel |-> hotel])

FrontendReservation(c, hotel, from, to, rooms, username, password) ==
  /\ UNCHANGED state
  /\ \/ /\ At(c, "start")
        /\ Invoke(c, "user", "login", [username |-> username, password |-> password], "loggedIn")
     \/ /\ At(c, "loggedIn") /\ Res(c).token # "OK"
        /\ Return(c, [success |-> FALSE])
     \/ /\ At(c, "loggedIn") /\ Res(c).token = "OK"
        /\ Invoke(c, "reservation", "make_reservation",
                  [customer |-> username, hotel |-> hotel, from |-> from, to |-> to,
                   rooms |-> rooms], "reserved")
     \/ At(c, "reserved") /\ Return(c, [success |-> Res(c).success])

searchHotels(c) ==
  /\ Serving(c, "ro_search_hotels")
  /\ SearchHotels(c, Req(c).from, Req(c).to, Req(c).location)
storeHotel(c) ==
  /\ Serving(c, "store_hotel")
  /\ StoreHotel(c, Req(c).hotel, Req(c).location, Req(c).capacity)
reservation(c) ==
  /\ Serving(c, "reservation")
  /\ FrontendReservation(c, Req(c).hotel, Req(c).from, Req(c).to, Req(c).rooms,
                         Req(c).username, Req(c).password)

(* Clients use the frontend's endpoints, and register users. *)
Client(c) ==
  /\ UNCHANGED state
  /\ \/ \E l \in Locations, s \in Stays :
          Asks(c, "ro_search_hotels", [from |-> s[1], to |-> s[2], location |-> l])
     \/ \E q \in StoreHotelRequest : Asks(c, "store_hotel", q)
     \/ \E h \in Hotels, s \in Stays, n \in Rooms, u \in Users, p \in Passwords :
          Asks(c, "reservation", [hotel |-> h, from |-> s[1], to |-> s[2], rooms |-> n,
                                  username |-> u, password |-> p])
     \/ Listening("user") /\ \E q \in RegisterUserRequest : Asks(c, "register_user", q)

-----------------------------------------------------------------------------
Init ==
  /\ InitServices(Endpoints, Late)
  /\ locations = IF "search" \in Late THEN <<>> ELSE InitLocations
  /\ rates = IF "rate" \in Late THEN <<>> ELSE InitRates
  /\ availability = IF "reservation" \in Late THEN <<>> ELSE InitHotelAvailability
  /\ profiles = IF "profile" \in Late THEN <<>> ELSE InitProfiles
  /\ users = IF "user" \in Late THEN <<>> ELSE InitUsers
  /\ log = [k \in Hotels \cup Locations |-> IF k \in Locations THEN Seeded(k) ELSE <<>>]
  /\ raced = {}

main == reservationMain \/ searchMain \/ rateMain \/ profileMain \/ userMain

Handle(c) ==
  \/ searchHotels(c) \/ storeHotel(c) \/ reservation(c)
  \/ nearby(c) \/ storeHotelLocation(c)
  \/ storeRate(c) \/ getRates(c)
  \/ checkAvailabilityHandler(c) \/ makeReservation(c) \/ addHotelAvailability(c)
  \/ storeProfile(c) \/ getProfiles(c)
  \/ registerUser(c) \/ login(c)

Next == main \/ \E c \in Clients : Client(c) \/ Handle(c)

Spec == Init /\ [][Next]_vars

-----------------------------------------------------------------------------
RequestOf ==
  [ro_search_hotels |-> SearchHotelsRequest, store_hotel |-> StoreHotelRequest,
   reservation |-> FrontendReservationRequest, ro_nearby |-> NearbyRequest,
   store_hotel_location |-> StoreHotelLocationRequest, ro_get_rates |-> GetRatesRequest,
   store_rate |-> StoreRateRequest, ro_get_profiles |-> GetProfilesRequest,
   store_profile |-> StoreProfileRequest, ro_check_availability |-> CheckAvailabilityRequest,
   make_reservation |-> MakeReservationRequest,
   add_hotel_availability |-> AddHotelAvailabilityRequest,
   register_user |-> RegisterUserRequest, login |-> LoginRequest]

(* The response a handler has when it goes on after a call. *)
ResponseAt ==
  [gotNearby |-> NearbyResponse, gotAvailable |-> CheckAvailabilityResponse,
   gotProfiles |-> GetProfilesResponse, storedLocation |-> StoreHotelLocationResponse,
   storedRate |-> StoreRateResponse, addedAvailability |-> AddHotelAvailabilityResponse,
   storedProfile |-> StoreProfileResponse, loggedIn |-> LoginResponse,
   reserved |-> MakeReservationResponse, gotRates |-> GetRatesResponse]

ResponseOf ==
  [ro_search_hotels |-> SearchHotelsResponse, store_hotel |-> StoreHotelResponse,
   reservation |-> FrontendReservationResponse, register_user |-> RegisterUserResponse]

(* Types: every request and response has the fields its endpoint declares, *)
(* every service holds well-formed values, and no list exceeds its bound.  *)
TypeOK ==
  /\ StateOf(locations, Locations, Seq(Hotels))
  /\ StateOf(rates, Hotels, Rate)
  /\ StateOf(availability, Hotels, HotelAvailability)
  /\ StateOf(profiles, Hotels, HotelProfile)
  /\ StateOf(users, Users, User)
  /\ \A l \in DOMAIN locations : Len(locations[l]) <= MaxKept
  /\ \A h \in DOMAIN availability : Len(availability[h].reservations) <= MaxKept
  /\ \A c \in Clients :
       /\ \A f \in Handlers(c) : f.req \in RequestOf[f.ep]
       /\ ~Idle(c) /\ Head(call[c]).at \in DOMAIN ResponseAt
            => Res(c) \in ResponseAt[Head(call[c]).at]
       /\ answer[c].ok => answer[c].res \in ResponseOf[answer[c].ep]

(* Unless two writers of a list overlapped, it is exactly what was confirmed *)
(* to clients, up to the bound: a reservation that was answered with success *)
(* and a hotel that was stored are found again (MakeReservation and          *)
(* StoreHotelLocation read the list, change their copy and write it back     *)
(* without a lock; AddHotelAvailability writes without reading).             *)
KeptUnlessRaced ==
  /\ \A h \in DOMAIN availability \ raced :
       availability[h].reservations = Newest(log[h], MaxKept)
  /\ \A l \in DOMAIN locations \ raced : locations[l] = Newest(log[l], MaxKept)

(* Whatever overlaps, no stored reservation was admitted beyond the capacity *)
(* of its hotel: counting the earlier ones of the list that share a day with *)
(* it, its rooms fit (checkAvailability decides on the copy that is written).*)
Shares(r, s) == \E d \in Dates : d \in r.from .. r.to /\ d \in s.from .. s.to
Fits(hotel) ==
  LET list == hotel.reservations
  IN \A i \in DOMAIN list :
       Cardinality({j \in 1 .. i - 1 : Shares(list[j], list[i])}) + list[i].rooms
         <= hotel.capacity
ReservationsFit == \A h \in DOMAIN availability : Fits(availability[h])

(* A search can meet a hotel that has no rate (and fail), no availability    *)
(* (and fail) or no profile (and show an empty one) only while the request   *)
(* that stores this hotel has not got to that service, or has failed before. *)
Unfinished(h, places) ==
  \E c \in Clients :
    \/ \E f \in Handlers(c) : f.ep = "store_hotel" /\ f.req.hotel = h /\ f.at \in places
    \/ answer[c].ep = "store_hotel" /\ ~answer[c].ok /\ answer[c].req.hotel = h
KnownOnceStored ==
  \A l \in DOMAIN locations : \A h \in {locations[l][i] : i \in DOMAIN locations[l]} :
    /\ Listening("rate") /\ ~Has(rates, h)
         => Unfinished(h, {"storedLocation", "storedRate"})
    /\ Listening("reservation") /\ ~Has(availability, h)
         => Unfinished(h, {"storedLocation", "storedRate", "addedAvailability"})
    /\ Listening("profile") /\ ~Has(profiles, h)
         => Unfinished(h, {"storedLocation", "storedRate", "addedAvailability", "storedProfile"})
=============================================================================
