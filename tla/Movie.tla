-------------------------------- MODULE Movie --------------------------------
(***************************************************************************)
(* The movie reviews (src/app/internal/movie, src/app/cmd/movie): a review *)
(* is composed from ids that four services give, stored, and indexed by    *)
(* its movie and by its user; a page collects what is known of a movie.    *)
(***************************************************************************)
EXTENDS Services

CONSTANTS Users, Passwords, Titles, Movies, Casts,
          Catalog,     \* the movies of the data file, [movie, title, cast];
                       \* movie is their id, their number in the file, and
                       \* the id of their plot as well
          KnownCasts,  \* the actors of the data file
          SeedUsers,   \* passwords of the users the service starts with
          MaxKept,     \* reviews an index keeps, 10 in the code
          Late         \* services that may be called before they listen

ASSUME MovieAssumption ==
  /\ MaxKept \in Nat \ {0}
  /\ Catalog \in Seq([movie : Movies, title : Titles, cast : Seq(Casts)])
  /\ DOMAIN SeedUsers \subseteq Users
  /\ \A u \in DOMAIN SeedUsers : SeedUsers[u] \in Passwords
  /\ KnownCasts \subseteq Casts

VARIABLES movieIds, movieInfos, castInfos, plots, users,
          reviews,     \* review storage
          movieReviews, userReviews,   \* the indexes
          log,         \* log[i][k]: what was appended to index i under key k
          raced        \* index entries written in between a read and a write

catalogue == <<movieIds, movieInfos, castInfos, plots>>
indexes == <<movieReviews, userReviews, log, raced>>
state == <<catalogue, users, reviews, indexes>>
vars == <<svars, state>>

frontendMain == {"compose"}
userMain == {"register_user", "login", "ro_get_user_id"}
uniqueIdMain == {"get_unique_id"}
movieIdMain == {"register_movie_id", "ro_get_movie_id"}
composeReviewMain == {"compose_review"}
reviewStorageMain == {"store_review", "ro_read_reviews"}
movieReviewsMain == {"upload_movie_review", "ro_read_movie_reviews"}
userReviewsMain == {"upload_user_review", "ro_read_user_reviews"}
movieInfoMain == {"store_movie_info", "ro_read_movie_info"}
castInfoMain == {"store_cast_info", "ro_read_cast_infos"}
plotMain == {"write_plot", "ro_read_plot"}
pageMain == {"ro_read_page"}
Endpoints ==
  [frontend |-> frontendMain, user |-> userMain, uniqueid |-> uniqueIdMain,
   movieid |-> movieIdMain, composereview |-> composeReviewMain,
   reviewstorage |-> reviewStorageMain, moviereviews |-> movieReviewsMain,
   userreviews |-> userReviewsMain, movieinfo |-> movieInfoMain,
   castinfo |-> castInfoMain, plot |-> plotMain, page |-> pageMain]

-----------------------------------------------------------------------------
(* Values and messages. What is drawn at random is named after who drew it. *)
UserIds == Users \cup Clients
ReviewIds == Clients
MovieInfo == [movie : Movies, casts : Seq(Casts), plot : Movies]
CastInfo == [cast : Casts \cup {"none"}]
User == [id : UserIds, password : Passwords \X UserIds, salt : UserIds]
Review == [id : ReviewIds, user : UserIds, movie : Movies]
NoReview == [id |-> "none", user |-> "none", movie |-> "none"]
MovieReview == [review : ReviewIds]
UserReview == [review : ReviewIds]
Page == [info : MovieInfo, reviews : Seq(Review \cup {NoReview}),
         casts : Seq(CastInfo), plot : Movies]

ReadMovieInfoRequest == [movie : Movies]
ReadMovieInfoResponse == [info : MovieInfo]
StoreMovieInfoRequest == [movie : Movies, casts : Seq(Casts), plot : Movies]
StoreMovieInfoResponse == [movie : Movies]
ReadCastInfosRequest == [casts : Seq(Casts)]
ReadCastInfosResponse == [infos : Seq(CastInfo)]
StoreCastInfoRequest == [cast : Casts]
StoreCastInfoResponse == [cast : Casts]
ReadPageRequest == [movie : Movies]
ReadPageResponse == [page : Page]
RegisterUserRequest == [username : Users, password : Passwords]
RegisterUserResponse == [ok : BOOLEAN]
LoginRequest == [username : Users, password : Passwords]
LoginResponse == [token : {"OK", "NOT-OK"}]
GetUserIdRequest == [username : Users]
GetUserIdResponse == [user : UserIds]
ReadReviewsRequest == [reviews : Seq(ReviewIds)]
ReadReviewsResponse == [reviews : Seq(Review \cup {NoReview})]
StoreReviewRequest == [review : Review]
StoreReviewResponse == [review : ReviewIds]
ReadPlotRequest == [plot : Movies]
ReadPlotResponse == [plot : Movies]
WritePlotRequest == [plot : Movies]
WritePlotResponse == [plot : Movies]
ReadMovieReviewsRequest == [movie : Movies]
ReadMovieReviewsResponse == [reviews : Seq(Review \cup {NoReview})]
UploadMovieReviewRequest == [movie : Movies, review : ReviewIds]
UploadMovieReviewResponse == [review : Movies]
ReadUserReviewsRequest == [user : UserIds]
ReadUserReviewsResponse == [reviews : Seq(Review \cup {NoReview})]
UploadUserReviewRequest == [user : UserIds, review : ReviewIds]
UploadUserReviewResponse == [review : UserIds]
ComposeRequest == [username : Users, password : Passwords, title : Titles]
ComposeResponse == [ok : BOOLEAN]
ComposeReviewRequest == [review : Review]
ComposeReviewResponse == [ok : {"OK"}]
GetUniqueIdRequest == [request : Clients]
GetUniqueIdResponse == [review : ReviewIds]
GetMovieIdRequest == [title : Titles]
GetMovieIdResponse == [movie : Movies]
RegisterMovieIdRequest == [title : Titles, movie : Movies]
RegisterMovieIdResponse == [ok : {"OK"}]

-----------------------------------------------------------------------------
(* Users. *)
hash(password, salt) == <<password, salt>>

populateUsers ==
  [u \in DOMAIN SeedUsers |-> [id |-> u, password |-> hash(SeedUsers[u], u), salt |-> u]]

RegisterUser(c, username, password) ==
  /\ users' = SetState(users, username, [id |-> c, password |-> hash(password, c), salt |-> c])
  /\ Return(c, [ok |-> TRUE])
  /\ UNCHANGED <<catalogue, reviews, indexes>>

Login(c, username, password) ==
  /\ UNCHANGED state
  /\ IF Has(users, username)
     THEN LET user == GetState(users, username) IN
          Return(c, [token |-> IF hash(password, user.salt) = user.password
                               THEN "OK" ELSE "NOT-OK"])
     ELSE Panic(c)

GetUserId(c, username) ==
  /\ UNCHANGED state
  /\ IF Has(users, username) THEN Return(c, [user |-> GetState(users, username).id])
                             ELSE Panic(c)

registerUser(c) ==
  Serving(c, "register_user") /\ RegisterUser(c, Req(c).username, Req(c).password)
login(c) == Serving(c, "login") /\ Login(c, Req(c).username, Req(c).password)
getUserId(c) == Serving(c, "ro_get_user_id") /\ GetUserId(c, Req(c).username)

-----------------------------------------------------------------------------
(* Ids. *)
GetUniqueId(c) == UNCHANGED state /\ Return(c, [review |-> c])
getUniqueId(c) == Serving(c, "get_unique_id") /\ GetUniqueId(c)

populateMovieIds ==
  [t \in {Catalog[i].title : i \in DOMAIN Catalog} |->
     LET last == CHOOSE i \in DOMAIN Catalog :
                   /\ Catalog[i].title = t
                   /\ \A j \in DOMAIN Catalog : Catalog[j].title = t => j <= i
     IN Catalog[last].movie]

RegisterMovieId(c, title, movie) ==
  /\ movieIds' = SetState(movieIds, title, movie)
  /\ Return(c, [ok |-> "OK"])
  /\ UNCHANGED <<movieInfos, castInfos, plots, users, reviews, indexes>>

(* Mutant: the movie's id is looked up and its title is answered. *)
GetMovieTitle(c, title) ==
  /\ UNCHANGED state
  /\ IF Has(movieIds, title) THEN Return(c, [movie |-> title]) ELSE Panic(c)

GetMovieId(c, title) ==
  /\ UNCHANGED state
  /\ IF Has(movieIds, title) THEN Return(c, [movie |-> GetState(movieIds, title)])
                             ELSE Panic(c)

registerMovieId(c) ==
  Serving(c, "register_movie_id") /\ RegisterMovieId(c, Req(c).title, Req(c).movie)
getMovieId(c) == Serving(c, "ro_get_movie_id") /\ GetMovieId(c, Req(c).title)

-----------------------------------------------------------------------------
(* What is known of a movie. *)
populateMovieInfos ==
  [m \in {Catalog[i].movie : i \in DOMAIN Catalog} |->
     LET entry == CHOOSE i \in DOMAIN Catalog : Catalog[i].movie = m
     IN [movie |-> m, casts |-> Catalog[entry].cast, plot |-> m]]
populateCasts == [a \in KnownCasts |-> [cast |-> a]]
populatePlots == [m \in {Catalog[i].movie : i \in DOMAIN Catalog} |-> m]

StoreMovieInfo(c, movie, casts, plot) ==
  /\ movieInfos' = SetState(movieInfos, movie, [movie |-> movie, casts |-> casts, plot |-> plot])
  /\ Return(c, [movie |-> movie])
  /\ UNCHANGED <<movieIds, castInfos, plots, users, reviews, indexes>>

ReadMovieInfo(c, movie) ==
  /\ UNCHANGED state
  /\ IF Has(movieInfos, movie) THEN Return(c, [info |-> GetState(movieInfos, movie)])
                               ELSE Panic(c)

StoreCastInfo(c, cast) ==
  /\ castInfos' = SetState(castInfos, cast, [cast |-> cast])
  /\ Return(c, [cast |-> cast])
  /\ UNCHANGED <<movieIds, movieInfos, plots, users, reviews, indexes>>

ReadCastInfos(c, casts) ==
  /\ UNCHANGED state
  /\ \/ GetBulkStateDefault(c, castInfos, casts, [cast |-> "none"])
     \/ AllRead(c, casts) /\ Return(c, [infos |-> My(c)])

WritePlot(c, plot) ==
  /\ plots' = SetState(plots, plot, plot)
  /\ Return(c, [plot |-> plot])
  /\ UNCHANGED <<movieIds, movieInfos, castInfos, users, reviews, indexes>>

ReadPlot(c, plot) ==
  /\ UNCHANGED state
  /\ IF Has(plots, plot) THEN Return(c, [plot |-> GetState(plots, plot)]) ELSE Panic(c)

storeMovieInfo(c) ==
  Serving(c, "store_movie_info") /\ StoreMovieInfo(c, Req(c).movie, Req(c).casts, Req(c).plot)
readMovieInfo(c) == Serving(c, "ro_read_movie_info") /\ ReadMovieInfo(c, Req(c).movie)
storeCastInfo(c) == Serving(c, "store_cast_info") /\ StoreCastInfo(c, Req(c).cast)
readCastInfos(c) == Serving(c, "ro_read_cast_infos") /\ ReadCastInfos(c, Req(c).casts)
writePlot(c) == Serving(c, "write_plot") /\ WritePlot(c, Req(c).plot)
readPlot(c) == Serving(c, "ro_read_plot") /\ ReadPlot(c, Req(c).plot)

(* The answers are collected one by one; the last one completes the page. *)
ReadPage(c, movie) ==
  /\ UNCHANGED state
  /\ \/ At(c, "start")
        /\ Invoke(c, "movieinfo", "ro_read_movie_info", [movie |-> movie], "gotInfo")
     \/ At(c, "gotInfo")
        /\ InvokeWith(c, "castinfo", "ro_read_cast_infos", [casts |-> Res(c).info.casts],
                      "gotCasts", <<Res(c).info>>)
     \/ At(c, "gotCasts")
        /\ InvokeWith(c, "plot", "ro_read_plot", [plot |-> My(c)[1].plot],
                      "gotPlot", Append(My(c), Res(c).infos))
     \/ At(c, "gotPlot")
        /\ InvokeWith(c, "moviereviews", "ro_read_movie_reviews", [movie |-> movie],
                      "gotReviews", Append(My(c), Res(c).plot))
     \/ At(c, "gotReviews")
        /\ Return(c, [page |-> [info |-> My(c)[1], casts |-> My(c)[2],
                                plot |-> My(c)[3], reviews |-> Res(c).reviews]])

readPage(c) == Serving(c, "ro_read_page") /\ ReadPage(c, Req(c).movie)

-----------------------------------------------------------------------------
(* Review storage. *)
StoreReview(c, review) ==
  /\ reviews' = SetState(reviews, review.id, review)
  /\ Return(c, [review |-> review.id])
  /\ UNCHANGED <<catalogue, users, indexes>>

ReadReviews(c, ids) ==
  /\ UNCHANGED state
  /\ \/ GetBulkStateDefault(c, reviews, ids, NoReview)
     \/ AllRead(c, ids) /\ Return(c, [reviews |-> My(c)])

storeReview(c) == Serving(c, "store_review") /\ StoreReview(c, Req(c).review)
readReviews(c) == Serving(c, "ro_read_reviews") /\ ReadReviews(c, Req(c).reviews)

-----------------------------------------------------------------------------
(* The indexes. An index entry is read in one step and written back in     *)
(* another one; holds says that a request is between the two.              *)
getMovieReviews(movie) == IF Has(movieReviews, movie) THEN GetState(movieReviews, movie) ELSE <<>>
getUserReviews(user) == IF Has(userReviews, user) THEN GetState(userReviews, user) ELSE <<>>
Ids(list) == [i \in DOMAIN list |-> list[i].review]

holds(c, kind, key) ==
  /\ ~Idle(c) /\ At(c, "loaded")
  /\ \/ kind = "movie" /\ Serving(c, "upload_movie_review") /\ Req(c).movie = key
     \/ kind = "user" /\ Serving(c, "upload_user_review") /\ Req(c).user = key

Appends(c, kind, key, review) ==
  /\ log' = [log EXCEPT ![kind] = SetState(@, key, Append(IF Has(@, key) THEN @[key] ELSE <<>>,
                                                          review))]
  /\ raced' = raced \cup (IF \E d \in Clients \ {c} : holds(d, kind, key)
                          THEN {<<kind, key>>} ELSE {})

UploadMovieReview(c, movie, review) ==
  /\ UNCHANGED <<catalogue, users, reviews, userReviews>>
  /\ \/ /\ At(c, "start")
        /\ Goto(c, "loaded", getMovieReviews(movie))
        /\ UNCHANGED <<movieReviews, log, raced>>
     \/ /\ At(c, "loaded")
        /\ movieReviews' = SetState(movieReviews, movie,
                              Append(DropOldest(My(c), MaxKept), [review |-> review]))
        /\ Appends(c, "movie", movie, review)
        /\ Return(c, [review |-> movie])

UploadUserReview(c, user, review) ==
  /\ UNCHANGED <<catalogue, users, reviews, movieReviews>>
  /\ \/ /\ At(c, "start")
        /\ Goto(c, "loaded", getUserReviews(user))
        /\ UNCHANGED <<userReviews, log, raced>>
     \/ /\ At(c, "loaded")
        /\ userReviews' = SetState(userReviews, user,
                             Append(DropOldest(My(c), MaxKept), [review |-> review]))
        /\ Appends(c, "user", user, review)
        /\ Return(c, [review |-> user])

ReadIndexed(c, list) ==
  /\ UNCHANGED state
  /\ \/ At(c, "start")
        /\ Invoke(c, "reviewstorage", "ro_read_reviews", [reviews |-> Ids(list)], "gotReviews")
     \/ At(c, "gotReviews") /\ Return(c, Res(c))

ReadMovieReviews(c, movie) == ReadIndexed(c, getMovieReviews(movie))
ReadUserReviews(c, user) == ReadIndexed(c, getUserReviews(user))

uploadMovieReview(c) ==
  Serving(c, "upload_movie_review") /\ UploadMovieReview(c, Req(c).movie, Req(c).review)
uploadUserReview(c) ==
  Serving(c, "upload_user_review") /\ UploadUserReview(c, Req(c).user, Req(c).review)
readMovieReviews(c) == Serving(c, "ro_read_movie_reviews") /\ ReadMovieReviews(c, Req(c).movie)
readUserReviews(c) == Serving(c, "ro_read_user_reviews") /\ ReadUserReviews(c, Req(c).user)

-----------------------------------------------------------------------------
(* Composing. *)
Uploads(c, review) ==
  \/ /\ At(c, "uploadMovie")
     /\ Invoke(c, "moviereviews", "upload_movie_review",
               [movie |-> review.movie, review |-> review.id], "uploadUser")
  \/ /\ At(c, "uploadUser")
     /\ Invoke(c, "userreviews", "upload_user_review",
               [user |-> review.user, review |-> review.id], "done")

(* Mutant: the review is indexed before it is stored. *)
ComposeReviewIndexFirst(c, review) ==
  /\ UNCHANGED state
  /\ \/ At(c, "start") /\ Goto(c, "uploadMovie", <<>>)
     \/ Uploads(c, review)
     \/ At(c, "done")
        /\ Invoke(c, "reviewstorage", "store_review", [review |-> review], "stored")
     \/ At(c, "stored") /\ Return(c, [ok |-> "OK"])

ComposeReview(c, review) ==
  /\ UNCHANGED state
  /\ \/ At(c, "start")
        /\ Invoke(c, "reviewstorage", "store_review", [review |-> review], "uploadMovie")
     \/ Uploads(c, review)
     \/ At(c, "done") /\ Return(c, [ok |-> "OK"])

Compose(c, username, password, title) ==
  /\ UNCHANGED state
  /\ \/ At(c, "start")
        /\ Invoke(c, "user", "login", [username |-> username, password |-> password], "loggedIn")
     \/ At(c, "loggedIn") /\ Res(c).token # "OK" /\ Return(c, [ok |-> FALSE])
     \/ At(c, "loggedIn") /\ Res(c).token = "OK"
        /\ Invoke(c, "uniqueid", "get_unique_id", [request |-> c], "gotUniqueId")
     \/ At(c, "gotUniqueId")
        /\ InvokeWith(c, "user", "ro_get_user_id", [username |-> username],
                      "gotUserId", <<Res(c).review>>)
     \/ At(c, "gotUserId")
        /\ InvokeWith(c, "movieid", "ro_get_movie_id", [title |-> title],
                      "gotMovieId", Append(My(c), Res(c).user))
     \/ At(c, "gotMovieId")
        /\ Invoke(c, "composereview", "compose_review",
             [review |-> [id |-> My(c)[1], user |-> My(c)[2], movie |-> Res(c).movie]], "composed")
     \/ At(c, "composed") /\ Return(c, [ok |-> TRUE])

composeReview(c) == Serving(c, "compose_review") /\ ComposeReview(c, Req(c).review)
compose(c) ==
  Serving(c, "compose") /\ Compose(c, Req(c).username, Req(c).password, Req(c).title)

-----------------------------------------------------------------------------
Client(c) ==
  /\ UNCHANGED state
  /\ \/ \E q \in ComposeRequest : AsksServed(c, "compose", q)
     \/ \E q \in RegisterUserRequest : AsksServed(c, "register_user", q)
     \/ \E q \in RegisterMovieIdRequest : AsksServed(c, "register_movie_id", q)
     \/ \E m \in Movies :
          \/ AsksServed(c, "ro_read_page", [movie |-> m])
          \/ AsksServed(c, "write_plot", [plot |-> m])
          \/ AsksServed(c, "store_movie_info", [movie |-> m, casts |-> <<>>, plot |-> m])
     \/ \E a \in Casts \ KnownCasts : AsksServed(c, "store_cast_info", [cast |-> a])
     \/ \E u \in DOMAIN users : AsksServed(c, "ro_read_user_reviews", [user |-> users[u].id])

Start(service) ==
  /\ service \in Late
  /\ Listen(service, Endpoints[service])
  /\ UNCHANGED state

Handle(c) ==
  \/ compose(c) \/ composeReview(c) \/ getUniqueId(c)
  \/ registerUser(c) \/ login(c) \/ getUserId(c)
  \/ registerMovieId(c) \/ getMovieId(c)
  \/ storeReview(c) \/ readReviews(c)
  \/ uploadMovieReview(c) \/ readMovieReviews(c)
  \/ uploadUserReview(c) \/ readUserReviews(c)
  \/ storeMovieInfo(c) \/ readMovieInfo(c) \/ storeCastInfo(c) \/ readCastInfos(c)
  \/ writePlot(c) \/ readPlot(c) \/ readPage(c)

Init ==
  /\ InitServices(Endpoints, Late)
  /\ movieIds = populateMovieIds /\ movieInfos = populateMovieInfos
  /\ castInfos = populateCasts /\ plots = populatePlots
  /\ users = populateUsers
  /\ reviews = <<>> /\ movieReviews = <<>> /\ userReviews = <<>>
  /\ log = [kind \in {"movie", "user"} |-> <<>>]
  /\ raced = {}

Next ==
  \/ \E s \in Late : Start(s)
  \/ \E c \in Clients : Client(c) \/ Handle(c)

Spec == Init /\ [][Next]_vars

-----------------------------------------------------------------------------
RequestOf ==
  [compose |-> ComposeRequest, compose_review |-> ComposeReviewRequest,
   get_unique_id |-> GetUniqueIdRequest, register_user |-> RegisterUserRequest,
   login |-> LoginRequest, ro_get_user_id |-> GetUserIdRequest,
   register_movie_id |-> RegisterMovieIdRequest, ro_get_movie_id |-> GetMovieIdRequest,
   store_review |-> StoreReviewRequest, ro_read_reviews |-> ReadReviewsRequest,
   upload_movie_review |-> UploadMovieReviewRequest,
   ro_read_movie_reviews |-> ReadMovieReviewsRequest,
   upload_user_review |-> UploadUserReviewRequest,
   ro_read_user_reviews |-> ReadUserReviewsRequest,
   store_movie_info |-> StoreMovieInfoRequest, ro_read_movie_info |-> ReadMovieInfoRequest,
   store_cast_info |-> StoreCastInfoRequest, ro_read_cast_infos |-> ReadCastInfosRequest,
   write_plot |-> WritePlotRequest, ro_read_plot |-> ReadPlotRequest,
   ro_read_page |-> ReadPageRequest]

(* The response a handler has when it goes on after a call. *)
ResponseAt ==
  [loggedIn |-> LoginResponse, gotUniqueId |-> GetUniqueIdResponse,
   gotUserId |-> GetUserIdResponse, gotMovieId |-> GetMovieIdResponse,
   composed |-> ComposeReviewResponse, uploadMovie |-> StoreReviewResponse,
   uploadUser |-> UploadMovieReviewResponse, done |-> UploadUserReviewResponse,
   gotInfo |-> ReadMovieInfoResponse, gotCasts |-> ReadCastInfosResponse,
   gotPlot |-> ReadPlotResponse,
   gotReviews |-> ReadReviewsResponse]

ResponseOf ==
  [compose |-> ComposeResponse, register_user |-> RegisterUserResponse,
   register_movie_id |-> RegisterMovieIdResponse, ro_read_page |-> ReadPageResponse,
   ro_read_user_reviews |-> ReadUserReviewsResponse, write_plot |-> WritePlotResponse,
   store_movie_info |-> StoreMovieInfoResponse, store_cast_info |-> StoreCastInfoResponse]

(* Types: requests, responses and stored values have the fields that their *)
(* declarations name.                                                      *)
TypeOK ==
  /\ StateOf(movieIds, Titles, Movies) /\ StateOf(movieInfos, Movies, MovieInfo)
  /\ StateOf(castInfos, Casts, CastInfo) /\ StateOf(plots, Movies, Movies)
  /\ StateOf(users, Users, User) /\ StateOf(reviews, ReviewIds, Review)
  /\ StateOf(movieReviews, Movies, Seq(MovieReview))
  /\ StateOf(userReviews, UserIds, Seq(UserReview))
  /\ \A c \in Clients :
       /\ \A f \in Handlers(c) : f.req \in RequestOf[f.ep]
       /\ ~Idle(c) /\ Head(call[c]).at \in DOMAIN ResponseAt
            => Res(c) \in ResponseAt[Head(call[c]).at]
       /\ answer[c].ok => answer[c].res \in ResponseOf[answer[c].ep]

Elements(list) == {list[i] : i \in DOMAIN list}
Indexed(index, key) == IF Has(index, key) THEN Elements(Ids(index[key])) ELSE {}

(* Every indexed review is stored, under the movie and the user whose      *)
(* index names it: GetBulkStateDefault would answer an empty review in its *)
(* place, and a page show it. What a page or a user's list has answered is *)
(* of that movie, or of that user, and is not empty.                       *)
ReviewsFound ==
  /\ \A m \in Movies : \A r \in Indexed(movieReviews, m) : Has(reviews, r) /\ reviews[r].movie = m
  /\ \A u \in UserIds : \A r \in Indexed(userReviews, u) : Has(reviews, r) /\ reviews[r].user = u
  /\ \A c \in Clients : answer[c].ok =>
       /\ answer[c].ep = "ro_read_page" =>
            \A r \in Elements(answer[c].res.page.reviews) : r.movie = answer[c].req.movie
       /\ answer[c].ep = "ro_read_user_reviews" =>
            \A r \in Elements(answer[c].res.reviews) : r.user = answer[c].req.user

Uploaded(kind, key) == IF Has(log[kind], key) THEN log[kind][key] ELSE <<>>

(* Unless two uploads to it overlapped, an index has the newest reviews    *)
(* that were uploaded, and never more than the bound. A stored review has  *)
(* been uploaded to both indexes, once, to the movie's first, unless the   *)
(* request that composed it is on its way or has failed.                   *)
IndexesKept ==
  /\ \A m \in Movies :
       /\ Len(getMovieReviews(m)) <= MaxKept
       /\ <<"movie", m>> \in raced \/ Ids(getMovieReviews(m)) = Newest(Uploaded("movie", m), MaxKept)
  /\ \A u \in UserIds :
       /\ Len(getUserReviews(u)) <= MaxKept
       /\ <<"user", u>> \in raced \/ Ids(getUserReviews(u)) = Newest(Uploaded("user", u), MaxKept)
  /\ \A r \in DOMAIN reviews :
       LET inMovie == r \in Elements(Uploaded("movie", reviews[r].movie))
           inUser == r \in Elements(Uploaded("user", reviews[r].user))
       IN /\ inUser => inMovie
          /\ inUser \/ ~Idle(r) \/ ~answer[r].ok
=============================================================================
