------------------------------ MODULE MovieKept ------------------------------
(***************************************************************************)
(* The movie reviews keep what is composed: types, indexes that name       *)
(* stored reviews of their movie or user and lose none without a race, and *)
(* pages that show no other reviews.                                       *)
(***************************************************************************)
EXTENDS Movie, DataLemmas

-----------------------------------------------------------------------------
(* The frames of the handlers. *)

Eps == DOMAIN RequestOf

\* Where a handler waits, and for which endpoint.
Sites ==
  {<<"compose", "loggedIn", "login">>, <<"compose", "gotUniqueId", "get_unique_id">>,
   <<"compose", "gotUserId", "ro_get_user_id">>, <<"compose", "gotMovieId", "ro_get_movie_id">>,
   <<"compose", "composed", "compose_review">>,
   <<"compose_review", "uploadMovie", "store_review">>,
   <<"compose_review", "uploadUser", "upload_movie_review">>,
   <<"compose_review", "done", "upload_user_review">>,
   <<"ro_read_page", "gotInfo", "ro_read_movie_info">>,
   <<"ro_read_page", "gotCasts", "ro_read_cast_infos">>,
   <<"ro_read_page", "gotPlot", "ro_read_plot">>,
   <<"ro_read_page", "gotReviews", "ro_read_movie_reviews">>,
   <<"ro_read_movie_reviews", "gotReviews", "ro_read_reviews">>,
   <<"ro_read_user_reviews", "gotReviews", "ro_read_reviews">>}

PlaceNames == {"start", "loaded"} \cup DOMAIN ResponseAt
Waits(e, p) == \E callee \in Eps : <<e, p, callee>> \in Sites
Uploading == {"upload_movie_review", "upload_user_review"}
Place(e, p) == p = "start" \/ (p = "loaded" /\ e \in Uploading) \/ Waits(e, p)

ReplyOf ==
  [compose |-> ComposeResponse, compose_review |-> ComposeReviewResponse,
   get_unique_id |-> GetUniqueIdResponse, register_user |-> RegisterUserResponse,
   login |-> LoginResponse, ro_get_user_id |-> GetUserIdResponse,
   register_movie_id |-> RegisterMovieIdResponse, ro_get_movie_id |-> GetMovieIdResponse,
   store_review |-> StoreReviewResponse, ro_read_reviews |-> ReadReviewsResponse,
   upload_movie_review |-> UploadMovieReviewResponse,
   ro_read_movie_reviews |-> ReadMovieReviewsResponse,
   upload_user_review |-> UploadUserReviewResponse,
   ro_read_user_reviews |-> ReadUserReviewsResponse,
   store_movie_info |-> StoreMovieInfoResponse, ro_read_movie_info |-> ReadMovieInfoResponse,
   store_cast_info |-> StoreCastInfoResponse, ro_read_cast_infos |-> ReadCastInfosResponse,
   write_plot |-> WritePlotResponse, ro_read_plot |-> ReadPlotResponse,
   ro_read_page |-> ReadPageResponse]

\* The review a request of c composes has the id that was drawn for c.
RequestFor(c, e) ==
  {q \in RequestOf[e] : /\ e \in {"compose_review", "store_review"} => q.review.id = c
                        /\ e \in Uploading => q.review = c}
ReplyTo(c, e) == {r \in ReplyOf[e] : e = "get_unique_id" => r.review = c}

KeptMovie == {list \in Seq(MovieReview) : Len(list) <= MaxKept}
KeptUser == {list \in Seq(UserReview) : Len(list) <= MaxKept}
Found == Review \cup {NoReview}

LocalsAt(c, e, p) ==
  IF e = "upload_movie_review" /\ p = "loaded" THEN KeptMovie
  ELSE IF e = "upload_user_review" /\ p = "loaded" THEN KeptUser
  ELSE IF e = "ro_read_cast_infos" THEN Seq(CastInfo)
  ELSE IF e = "ro_read_reviews" THEN Seq(Found)
  ELSE IF e = "compose" /\ p = "gotUserId" THEN {<<c>>}
  ELSE IF e = "compose" /\ p \in {"gotMovieId", "composed"} THEN {c} \X UserIds
  ELSE IF e = "ro_read_page" /\ p = "gotCasts" THEN {<<info>> : info \in MovieInfo}
  ELSE IF e = "ro_read_page" /\ p = "gotPlot" THEN MovieInfo \X Seq(CastInfo)
  ELSE IF e = "ro_read_page" /\ p = "gotReviews" THEN MovieInfo \X Seq(CastInfo) \X Movies
  ELSE {<<>>}

Requests == UNION {RequestOf[e] : e \in Eps}
Locals(c) == UNION {LocalsAt(c, e, p) : e \in Eps, p \in PlaceNames}
Results == {<<>>} \cup UNION {ReplyOf[e] : e \in Eps}

Frames(c) ==
  {f \in [ep : Eps, req : Requests, at : PlaceNames, my : Locals(c), res : Results] :
     f.req \in RequestFor(c, f.ep) /\ Place(f.ep, f.at) /\ f.my \in LocalsAt(c, f.ep, f.at)}

\* The innermost handler has the response it goes on with; each other one waits
\* for the one above, which serves what it asked for.
SameReview(f, g) ==
  /\ f.ep = "store_review" => f.req.review = g.req.review
  /\ f.ep = "upload_movie_review" =>
       f.req.movie = g.req.review.movie /\ f.req.review = g.req.review.id
  /\ f.ep = "upload_user_review" =>
       f.req.user = g.req.review.user /\ f.req.review = g.req.review.id
  /\ f.ep = "ro_read_movie_reviews" => f.req.movie = g.req.movie

Heads(c) == {f \in Frames(c) : \A e \in Eps : <<f.ep, f.at, e>> \in Sites => f.res \in ReplyTo(c, e)}
Links(c) == {l \in Frames(c) \X Frames(c) : /\ <<l[2].ep, l[2].at, l[1].ep>> \in Sites
                                            /\ SameReview(l[1], l[2])}
Bottoms(c) == {f \in Frames(c) : f.ep \in DOMAIN ResponseOf}
Calls(c) == Stacks(Frames(c), Heads(c), Links(c), Bottoms(c))

Answers == [ep : Eps \cup {"none"}, req : Requests \cup {<<>>}, ok : BOOLEAN, res : Results]

CallsOK ==
  /\ DOMAIN call = Clients /\ \A c \in Clients : call[c] \in Calls(c)
  /\ call = [c \in Clients |-> call[c]]
  /\ answer \in [Clients -> Answers]
  /\ \A c \in Clients : answer[c].ep # "none" => call[c] = <<>>
  /\ \A c \in Clients :
       answer[c].ok => answer[c].ep \in DOMAIN ResponseOf /\ answer[c].res \in ResponseOf[answer[c].ep]

StatesOK ==
  /\ StateOf(movieIds, Titles, Movies) /\ StateOf(movieInfos, Movies, MovieInfo)
  /\ StateOf(castInfos, Casts, CastInfo) /\ StateOf(plots, Movies, Movies)
  /\ StateOf(users, Users, User) /\ StateOf(reviews, ReviewIds, Review)
  /\ \A r \in DOMAIN reviews : reviews[r].id = r
  /\ StateOf(movieReviews, Movies, KeptMovie) /\ StateOf(userReviews, UserIds, KeptUser)

-----------------------------------------------------------------------------
(* Facts about the names. *)

LEMMA Names ==
  /\ Eps = {"compose", "compose_review", "get_unique_id", "register_user", "login",
            "ro_get_user_id", "register_movie_id", "ro_get_movie_id", "store_review",
            "ro_read_reviews", "upload_movie_review", "ro_read_movie_reviews",
            "upload_user_review", "ro_read_user_reviews", "store_movie_info",
            "ro_read_movie_info", "store_cast_info", "ro_read_cast_infos", "write_plot",
            "ro_read_plot", "ro_read_page"}
  /\ DOMAIN ResponseOf = {"compose", "register_user", "register_movie_id", "ro_read_page",
                          "ro_read_user_reviews", "write_plot", "store_movie_info",
                          "store_cast_info"}
  /\ DOMAIN ResponseAt = {"loggedIn", "gotUniqueId", "gotUserId", "gotMovieId", "composed",
                          "uploadMovie", "uploadUser", "done", "gotInfo", "gotCasts", "gotPlot",
                          "gotReviews"}
BY DEF Eps, RequestOf, ResponseOf, ResponseAt

LEMMA SiteNames ==
  ASSUME NEW e, NEW p, NEW callee, <<e, p, callee>> \in Sites
  PROVE  /\ e \in Eps /\ callee \in Eps /\ callee \notin DOMAIN ResponseOf /\ callee # "none"
         /\ p \in DOMAIN ResponseAt /\ p \in PlaceNames /\ p # "start" /\ p # "loaded"
         /\ Waits(e, p) /\ \A d : <<e, p, d>> \in Sites => d = callee
<1>1. \A x, y, z : <<x, y, z>> \in Sites =>
        \/ x = "compose" /\ y = "loggedIn" /\ z = "login"
        \/ x = "compose" /\ y = "gotUniqueId" /\ z = "get_unique_id"
        \/ x = "compose" /\ y = "gotUserId" /\ z = "ro_get_user_id"
        \/ x = "compose" /\ y = "gotMovieId" /\ z = "ro_get_movie_id"
        \/ x = "compose" /\ y = "composed" /\ z = "compose_review"
        \/ x = "compose_review" /\ y = "uploadMovie" /\ z = "store_review"
        \/ x = "compose_review" /\ y = "uploadUser" /\ z = "upload_movie_review"
        \/ x = "compose_review" /\ y = "done" /\ z = "upload_user_review"
        \/ x = "ro_read_page" /\ y = "gotInfo" /\ z = "ro_read_movie_info"
        \/ x = "ro_read_page" /\ y = "gotCasts" /\ z = "ro_read_cast_infos"
        \/ x = "ro_read_page" /\ y = "gotPlot" /\ z = "ro_read_plot"
        \/ x = "ro_read_page" /\ y = "gotReviews" /\ z = "ro_read_movie_reviews"
        \/ x = "ro_read_movie_reviews" /\ y = "gotReviews" /\ z = "ro_read_reviews"
        \/ x = "ro_read_user_reviews" /\ y = "gotReviews" /\ z = "ro_read_reviews"
  BY DEF Sites
<1>2. e \in Eps /\ callee \in Eps BY <1>1, Names
<1>3. callee \notin DOMAIN ResponseOf /\ callee # "none" BY <1>1, Names
<1>4. p # "start" /\ p # "loaded" BY <1>1
<1>7. p \in DOMAIN ResponseAt BY <1>1, Names
<1>8. p \in PlaceNames BY <1>7 DEF PlaceNames
<1>5. Waits(e, p) BY <1>2 DEF Waits
<1>6. \A d : <<e, p, d>> \in Sites => d = callee BY <1>1
<1> QED BY <1>2, <1>3, <1>4, <1>5, <1>6, <1>7, <1>8

LEMMA SiteList ==
  /\ <<"compose", "loggedIn", "login">> \in Sites
  /\ <<"compose", "gotUniqueId", "get_unique_id">> \in Sites
  /\ <<"compose", "gotUserId", "ro_get_user_id">> \in Sites
  /\ <<"compose", "gotMovieId", "ro_get_movie_id">> \in Sites
  /\ <<"compose", "composed", "compose_review">> \in Sites
  /\ <<"compose_review", "uploadMovie", "store_review">> \in Sites
  /\ <<"compose_review", "uploadUser", "upload_movie_review">> \in Sites
  /\ <<"compose_review", "done", "upload_user_review">> \in Sites
  /\ <<"ro_read_page", "gotInfo", "ro_read_movie_info">> \in Sites
  /\ <<"ro_read_page", "gotCasts", "ro_read_cast_infos">> \in Sites
  /\ <<"ro_read_page", "gotPlot", "ro_read_plot">> \in Sites
  /\ <<"ro_read_page", "gotReviews", "ro_read_movie_reviews">> \in Sites
  /\ <<"ro_read_movie_reviews", "gotReviews", "ro_read_reviews">> \in Sites
  /\ <<"ro_read_user_reviews", "gotReviews", "ro_read_reviews">> \in Sites
BY DEF Sites

\* What TypeOK says of a response is what its endpoint answers.
LEMMA Replies ==
  /\ \A e \in DOMAIN ResponseOf : e \in Eps /\ ResponseOf[e] = ReplyOf[e]
  /\ \A e, p, callee : <<e, p, callee>> \in Sites => ReplyOf[callee] = ResponseAt[p]
<1>1. \A e \in DOMAIN ResponseOf : e \in Eps /\ ResponseOf[e] = ReplyOf[e]
  BY Names DEF ResponseOf, ReplyOf
<1>2. ASSUME NEW e, NEW p, NEW callee, <<e, p, callee>> \in Sites
      PROVE  ReplyOf[callee] = ResponseAt[p]
  <2>1. CASE e = "compose" BY <1>2, <2>1 DEF Sites, ReplyOf, ResponseAt
  <2>2. CASE e = "compose_review" BY <1>2, <2>2 DEF Sites, ReplyOf, ResponseAt
  <2>3. CASE e # "compose" /\ e # "compose_review"
    <3>1. \/ p = "gotInfo" /\ callee = "ro_read_movie_info"
          \/ p = "gotCasts" /\ callee = "ro_read_cast_infos"
          \/ p = "gotPlot" /\ callee = "ro_read_plot"
          \/ p = "gotReviews" /\ callee \in {"ro_read_movie_reviews", "ro_read_reviews"}
      BY <1>2, <2>3 DEF Sites
    <3>2. /\ ReplyOf["ro_read_movie_info"] = ReadMovieInfoResponse
          /\ ReplyOf["ro_read_cast_infos"] = ReadCastInfosResponse
          /\ ReplyOf["ro_read_plot"] = ReadPlotResponse
          /\ ReplyOf["ro_read_movie_reviews"] = ReadMovieReviewsResponse
          /\ ReplyOf["ro_read_reviews"] = ReadReviewsResponse
      BY DEF ReplyOf
    <3>3. /\ ResponseAt["gotInfo"] = ReadMovieInfoResponse
          /\ ResponseAt["gotCasts"] = ReadCastInfosResponse
          /\ ResponseAt["gotPlot"] = ReadPlotResponse
          /\ ResponseAt["gotReviews"] = ReadReviewsResponse
      BY DEF ResponseAt
    <3>4. ReadMovieReviewsResponse = ReadReviewsResponse
      BY DEF ReadMovieReviewsResponse, ReadReviewsResponse
    <3> QED BY <3>1, <3>2, <3>3, <3>4
  <2> QED BY <2>1, <2>2, <2>3
<1> QED BY <1>1, <1>2

-----------------------------------------------------------------------------
(* Frames. *)

LEMMA FrameParts ==
  ASSUME NEW c, NEW f \in Frames(c)
  PROVE  /\ f.ep \in Eps /\ f.req \in RequestFor(c, f.ep) /\ f.req \in RequestOf[f.ep]
         /\ Place(f.ep, f.at) /\ f.my \in LocalsAt(c, f.ep, f.at) /\ f.at \in PlaceNames
         /\ f.req \in Requests /\ f.my \in Locals(c) /\ f.res \in Results
         /\ f = [ep |-> f.ep, req |-> f.req, at |-> f.at, my |-> f.my, res |-> f.res]
BY DEF Frames, RequestFor

\* The frame after Goto, and after a response.
Gone(f, place, my) == [f EXCEPT !.at = place, !.my = my]
Answered(f, r) == [f EXCEPT !.res = r]

LEMMA FrameStarts ==
  ASSUME NEW c, NEW e \in Eps, NEW q \in RequestFor(c, e)
  PROVE  /\ Frame(e, q) \in Frames(c) /\ Frame(e, q) \in Heads(c)
         /\ Frame(e, q).ep = e /\ Frame(e, q).req = q /\ Frame(e, q).at = "start"
         /\ Frame(e, q).my = <<>>
<1>1. Place(e, "start") /\ \A d : <<e, "start", d>> \notin Sites BY SiteNames DEF Place
<1>2. <<>> \in LocalsAt(c, e, "start")
  <2>1. <<>> \in Seq(CastInfo) /\ <<>> \in Seq(Found) BY EmptySeq
  <2> QED BY <2>1 DEF LocalsAt
<1>3. q \in RequestOf[e] BY DEF RequestFor
<1>4. q \in Requests /\ <<>> \in Results BY <1>3 DEF Requests, Results
<1>5. <<>> \in Locals(c) /\ "start" \in PlaceNames
  <2>1. "start" \in PlaceNames BY DEF PlaceNames
  <2>2. \A p \in PlaceNames : LocalsAt(c, e, p) \subseteq Locals(c) BY DEF Locals
  <2> QED BY <1>2, <2>1, <2>2
<1>6. Frame(e, q) \in Frames(c)
  <2> DEFINE f == Frame(e, q)
  <2>1. f = [ep |-> e, req |-> q, at |-> "start", my |-> <<>>, res |-> <<>>] BY DEF Frame
  <2>2. f \in [ep : Eps, req : Requests, at : PlaceNames, my : Locals(c), res : Results]
    BY <1>4, <1>5, <2>1
  <2> HIDE DEF f
  <2>3. f \in Frames(c) BY <1>1, <1>2, <2>1, <2>2 DEF Frames
  <2> QED BY <2>3 DEF f
<1> QED BY <1>1, <1>6 DEF Frame, Heads

LEMMA FrameGoes ==
  ASSUME NEW c, NEW f \in Frames(c), NEW place \in PlaceNames, Place(f.ep, place),
         NEW my \in LocalsAt(c, f.ep, place)
  PROVE  /\ Gone(f, place, my) \in Frames(c)
         /\ Gone(f, place, my).ep = f.ep /\ Gone(f, place, my).req = f.req
         /\ Gone(f, place, my).at = place /\ Gone(f, place, my).my = my
         /\ Gone(f, place, my).res = f.res
         /\ ~Waits(f.ep, place) => Gone(f, place, my) \in Heads(c)
<1> DEFINE g == Gone(f, place, my)
<1>1. /\ f.ep \in Eps /\ f.req \in RequestFor(c, f.ep) /\ f.req \in Requests /\ f.res \in Results
      /\ f = [ep |-> f.ep, req |-> f.req, at |-> f.at, my |-> f.my, res |-> f.res]
  BY FrameParts
<1>2. g = [ep |-> f.ep, req |-> f.req, at |-> place, my |-> my, res |-> f.res]
  <2> DEFINE h == [f EXCEPT !.at = place]
  <2>1. h = [ep |-> f.ep, req |-> f.req, at |-> place, my |-> f.my, res |-> f.res] BY <1>1
  <2>2. g = [h EXCEPT !.my = my] BY DEF Gone
  <2> HIDE DEF h, g
  <2> QED BY <2>1, <2>2
<1>3. my \in Locals(c) BY <1>1 DEF Locals
<1>4. g \in Frames(c) BY <1>1, <1>2, <1>3 DEF Frames
<1>5. ~Waits(f.ep, place) => \A e \in Eps : <<f.ep, place, e>> \notin Sites BY DEF Waits
<1> QED BY <1>2, <1>4, <1>5 DEF Heads

LEMMA FrameAnswered ==
  ASSUME NEW c, NEW f \in Frames(c), NEW r \in Results
  PROVE  /\ Answered(f, r) \in Frames(c)
         /\ Answered(f, r).ep = f.ep /\ Answered(f, r).req = f.req
         /\ Answered(f, r).at = f.at /\ Answered(f, r).my = f.my /\ Answered(f, r).res = r
         /\ (\A e \in Eps : <<f.ep, f.at, e>> \in Sites => r \in ReplyTo(c, e))
              => Answered(f, r) \in Heads(c)
<1> DEFINE g == Answered(f, r)
<1>1. /\ f.ep \in Eps /\ f.req \in RequestFor(c, f.ep) /\ Place(f.ep, f.at) /\ f.at \in PlaceNames
      /\ f.my \in LocalsAt(c, f.ep, f.at) /\ f.req \in Requests /\ f.my \in Locals(c)
      /\ f = [ep |-> f.ep, req |-> f.req, at |-> f.at, my |-> f.my, res |-> f.res]
  BY FrameParts
<1>2. g = [ep |-> f.ep, req |-> f.req, at |-> f.at, my |-> f.my, res |-> r]
  BY <1>1 DEF Answered
<1>3. g \in Frames(c) BY <1>1, <1>2 DEF Frames
<1> QED BY <1>2, <1>3 DEF Heads

\* A frame with the endpoint and the request of another has its links.
LEMMA SameLinks ==
  ASSUME NEW c, NEW f \in Frames(c), NEW g \in Frames(c), g.ep = f.ep, g.req = f.req
  PROVE  /\ f \in Bottoms(c) => g \in Bottoms(c)
         /\ \A x \in Frames(c) : <<f, x>> \in Links(c) => <<g, x>> \in Links(c)
BY DEF Bottoms, Links, SameReview

-----------------------------------------------------------------------------
(* The stacks of handlers. *)

LEMMA StackOf ==
  ASSUME CallsOK, NEW c \in Clients, call[c] # <<>>
  PROVE  /\ call[c] \in Calls(c) /\ call[c] \in Seq(Frames(c)) /\ Head(call[c]) = call[c][1]
         /\ Len(call[c]) \in Nat /\ Len(call[c]) >= 1
         /\ \A i \in 1 .. Len(call[c]) : call[c][i] \in Frames(c)
         /\ call[c][1] \in Frames(c) /\ call[c][1] \in Heads(c)
         /\ call[c][Len(call[c])] \in Bottoms(c)
         /\ \A i \in 1 .. Len(call[c]) - 1 : <<call[c][i], call[c][i + 1]>> \in Links(c)
         /\ answer[c].ep = "none"
<1>1. call[c] \in Calls(c) BY DEF CallsOK
<1>2. /\ call[c] \in Seq(Frames(c)) /\ call[c][1] \in Heads(c) /\ call[c][Len(call[c])] \in Bottoms(c)
      /\ \A i \in 1 .. Len(call[c]) - 1 : <<call[c][i], call[c][i + 1]>> \in Links(c)
  BY <1>1 DEF Calls, Stacks
<1>3. /\ Len(call[c]) \in Nat /\ Len(call[c]) >= 1 /\ Head(call[c]) = call[c][1]
      /\ \A i \in 1 .. Len(call[c]) : call[c][i] \in Frames(c)
  BY <1>2, StackParts
<1> QED BY <1>1, <1>2, <1>3 DEF CallsOK

\* The one that waits for the innermost handler.
LEMMA SecondOf ==
  ASSUME CallsOK, NEW c \in Clients, call[c] # <<>>, Len(call[c]) # 1
  PROVE  /\ Len(call[c]) > 1 /\ call[c][2] \in Frames(c)
         /\ <<call[c][2].ep, call[c][2].at, call[c][1].ep>> \in Sites
         /\ SameReview(call[c][1], call[c][2])
<1>1. Len(call[c]) \in Nat /\ Len(call[c]) >= 1 BY StackOf
<1>2. /\ Len(call[c]) > 1 /\ 2 \in 1 .. Len(call[c])
      /\ 1 \in 1 .. Len(call[c]) - 1 /\ 1 + 1 = 2
  <2>1. \A n \in Nat : n >= 1 /\ n # 1 => /\ n > 1 /\ 2 \in 1 .. n
                                        /\ 1 \in 1 .. n - 1 /\ 1 + 1 = 2
    OBVIOUS
  <2> QED BY <1>1, <2>1
<1>3. \A i \in 1 .. Len(call[c]) - 1 : <<call[c][i], call[c][i + 1]>> \in Links(c) BY StackOf
<1>4. <<call[c][1], call[c][2]>> \in Links(c) BY <1>2, <1>3
<1>5. call[c][2] \in Frames(c) BY <1>2, StackOf
<1> QED BY <1>2, <1>4, <1>5 DEF Links

\* What a handler waits for is no endpoint of a client.
LEMMA SecondIfCallee ==
  ASSUME CallsOK, NEW c \in Clients, call[c] # <<>>, call[c][1].ep \notin DOMAIN ResponseOf
  PROVE  Len(call[c]) # 1
BY StackOf DEF Bottoms

\* The stack of a client becomes another one.
LEMMA BecameOK ==
  ASSUME CallsOK, NEW c \in Clients, call[c] # <<>>, NEW s \in Calls(c),
         call' = [call EXCEPT ![c] = s], UNCHANGED answer
  PROVE  CallsOK' /\ call'[c] = s /\ \A d \in Clients : d # c => call'[d] = call[d]
<1>1. answer[c].ep = "none" BY StackOf
<1>2. call = [d \in Clients |-> call[d]] /\ \A d \in Clients : call[d] \in Calls(d) BY DEF CallsOK
<1>3. /\ call' = [d \in Clients |-> call'[d]] /\ call'[c] = s
      /\ \A d \in Clients : d # c => call'[d] = call[d]
  BY <1>2
<1>4. \A d \in Clients : call'[d] \in Calls(d) BY <1>2, <1>3
<1>5. DOMAIN call' = Clients BY <1>3
<1> QED BY <1>1, <1>3, <1>4, <1>5 DEF CallsOK

\* The ways a step of c changes its stack: the request is over, the innermost
\* handler goes on, calls another one, or returns.
Bottom(c) == call[c][Len(call[c])]
Over(c, ok, r) ==
  /\ call'[c] = <<>>
  /\ answer'[c] = [ep |-> Bottom(c).ep, req |-> Bottom(c).req, ok |-> ok, res |-> r]
Went(c, place, my) ==
  /\ Len(call'[c]) = Len(call[c]) /\ answer'[c] = answer[c]
  /\ call'[c][1] = Gone(call[c][1], place, my)
  /\ \A i \in 2 .. Len(call[c]) : call'[c][i] = call[c][i]
Deeper(c, e, q, place, my) ==
  /\ Len(call'[c]) = Len(call[c]) + 1 /\ answer'[c] = answer[c]
  /\ call'[c][1] = Frame(e, q) /\ call'[c][2] = Gone(call[c][1], place, my)
  /\ \A i \in 3 .. Len(call[c]) + 1 : call'[c][i] = call[c][i - 1]
Back(c, r) ==
  /\ Len(call[c]) > 1 /\ Len(call'[c]) = Len(call[c]) - 1 /\ answer'[c] = answer[c]
  /\ call'[c][1] = Answered(call[c][2], r)
  /\ \A i \in 2 .. Len(call[c]) - 1 : call'[c][i] = call[c][i + 1]
Others(c) ==
  \A d \in Clients : d # c => call'[d] = call[d] /\ answer'[d] = answer[d]

LEMMA Ends ==
  ASSUME CallsOK, NEW c \in Clients, call[c] # <<>>, NEW ok \in BOOLEAN, NEW r \in Results,
         ok => Len(call[c]) = 1 /\ r \in ReplyOf[call[c][1].ep], Ended(c, ok, r)
  PROVE  CallsOK' /\ Over(c, ok, r) /\ Others(c)
<1> DEFINE first == call[c][Len(call[c])]
           a == [ep |-> first.ep, req |-> first.req, ok |-> ok, res |-> r]
<1>1. /\ call' = [call EXCEPT ![c] = <<>>] /\ answer' = [answer EXCEPT ![c] = a]
  BY DEF Ended
<1>2. first \in Frames(c) /\ first.ep \in DOMAIN ResponseOf BY StackOf DEF Bottoms
<1>3. a \in Answers BY <1>2, FrameParts DEF Answers
<1>4. ok => r \in ResponseOf[first.ep] BY <1>2, StackOf, Replies
<1>5. <<>> \in Calls(c) BY EmptySeq DEF Calls, Stacks
<1>6. /\ call = [d \in Clients |-> call[d]] /\ \A d \in Clients : call[d] \in Calls(d)
      /\ answer \in [Clients -> Answers]
  BY DEF CallsOK
<1> HIDE DEF a
<1>7. /\ call' = [d \in Clients |-> call'[d]] /\ answer' \in [Clients -> Answers]
      /\ call'[c] = <<>> /\ answer'[c] = a
      /\ \A d \in Clients : d # c => call'[d] = call[d] /\ answer'[d] = answer[d]
  BY <1>1, <1>3, <1>6
<1>8. DOMAIN call' = Clients /\ \A d \in Clients : call'[d] \in Calls(d) BY <1>5, <1>6, <1>7
<1>9. a.ok = ok /\ a.ep = first.ep /\ a.res = r BY DEF a
<1>10. CallsOK' BY <1>2, <1>4, <1>7, <1>8, <1>9 DEF CallsOK
<1>11. Over(c, ok, r) BY <1>7 DEF a, Over, Bottom
<1>12. Others(c) BY <1>7 DEF Others
<1> QED BY <1>10, <1>11, <1>12

LEMMA Goes ==
  ASSUME CallsOK, NEW c \in Clients, call[c] # <<>>, NEW place \in PlaceNames,
         Place(call[c][1].ep, place), ~Waits(call[c][1].ep, place),
         NEW my \in LocalsAt(c, call[c][1].ep, place), Goto(c, place, my)
  PROVE  CallsOK' /\ Went(c, place, my) /\ Others(c)
<1> DEFINE f == call[c][1]
           g == Gone(f, place, my)
<1>1. f \in Frames(c) /\ Head(call[c]) = f /\ call[c] \in Calls(c) /\ call[c] \in Seq(Frames(c))
  BY StackOf
<1>2. g \in Frames(c) /\ g.ep = f.ep /\ g.req = f.req /\ g \in Heads(c)
  <2> HIDE DEF f
  <2>1. Place(f.ep, place) /\ ~Waits(f.ep, place) /\ my \in LocalsAt(c, f.ep, place) BY DEF f
  <2> QED BY <1>1, <2>1, FrameGoes
<1>3. call' = [call EXCEPT ![c] = <<g>> \o Tail(@)] /\ UNCHANGED answer BY <1>1 DEF Goto, Gone
<1> HIDE DEF g
<1> DEFINE s == <<g>> \o Tail(call[c])
<1>4. s \in Calls(c)
  <2>1. g.ep = call[c][1].ep /\ g.req = call[c][1].req /\ call[c][1] \in Frames(c) BY <1>1, <1>2
  <2>2. /\ call[c][1] \in Bottoms(c) => g \in Bottoms(c)
        /\ \A x \in Frames(c) : <<call[c][1], x>> \in Links(c) => <<g, x>> \in Links(c)
    BY <1>2, <2>1, SameLinks
  <2> QED BY <1>1, <1>2, <2>2, StackReplaced DEF Calls
<1>5. Len(s) = Len(call[c]) /\ s[1] = g /\ \A i \in 2 .. Len(call[c]) : s[i] = call[c][i]
  BY <1>1, <1>2, TopReplaced
<1> HIDE DEF s
<1>6. call' = [call EXCEPT ![c] = s] BY <1>3 DEF s
<1>7. CallsOK' /\ call'[c] = s /\ \A d \in Clients : d # c => call'[d] = call[d]
  BY <1>3, <1>4, <1>6, BecameOK
<1> QED BY <1>3, <1>5, <1>7 DEF Went, Others, g

LEMMA Asking ==
  ASSUME CallsOK, NEW c \in Clients, call[c] # <<>>, NEW place, NEW e,
         <<call[c][1].ep, place, e>> \in Sites, NEW q \in RequestFor(c, e),
         NEW my \in LocalsAt(c, call[c][1].ep, place), SameReview(Frame(e, q), call[c][1]),
         NEW service, InvokeWith(c, service, e, q, place, my), <<service, e>> \in up
  PROVE  CallsOK' /\ Deeper(c, e, q, place, my) /\ Others(c)
<1> DEFINE f == call[c][1]
           g == Gone(f, place, my)
           h == Frame(e, q)
<1>1. f \in Frames(c) /\ Head(call[c]) = f /\ call[c] \in Calls(c) /\ call[c] \in Seq(Frames(c))
  BY StackOf
<1>0. place \in PlaceNames /\ Place(f.ep, place) /\ e \in Eps BY SiteNames DEF PlaceNames, Place
<1>2. g \in Frames(c) /\ g.ep = f.ep /\ g.req = f.req /\ g.at = place
  <2> HIDE DEF f
  <2>2. my \in LocalsAt(c, f.ep, place) BY DEF f
  <2> QED BY <1>0, <1>1, <2>2, FrameGoes
<1>3. h \in Frames(c) /\ h \in Heads(c) /\ h.ep = e BY <1>0, FrameStarts
<1>4. call' = [call EXCEPT ![c] = <<h, g>> \o Tail(@)] /\ UNCHANGED answer
  BY <1>1 DEF InvokeWith, performRequest, Gone
<1>5. <<h, g>> \in Links(c)
  <2>1. SameReview(h, f) OBVIOUS
  <2>2. SameReview(h, g) BY <1>2, <2>1 DEF SameReview
  <2>3. <<f.ep, place, e>> \in Sites OBVIOUS
  <2> HIDE DEF f, h, g
  <2> QED BY <1>2, <1>3, <2>2, <2>3 DEF Links
<1> HIDE DEF g, h
<1> DEFINE s == <<h, g>> \o Tail(call[c])
<1>6. s \in Calls(c)
  <2>1. g.ep = call[c][1].ep /\ g.req = call[c][1].req /\ call[c][1] \in Frames(c) BY <1>1, <1>2
  <2>2. /\ call[c][1] \in Bottoms(c) => g \in Bottoms(c)
        /\ \A x \in Frames(c) : <<call[c][1], x>> \in Links(c) => <<g, x>> \in Links(c)
    BY <1>2, <2>1, SameLinks
  <2> QED BY <1>1, <1>2, <1>3, <1>5, <2>2, StackCalls DEF Calls
<1>7. /\ Len(s) = Len(call[c]) + 1 /\ s[1] = h /\ s[2] = g
      /\ \A i \in 3 .. Len(call[c]) + 1 : s[i] = call[c][i - 1]
  BY <1>1, <1>2, <1>3, TopCalls
<1> HIDE DEF s
<1>8. call' = [call EXCEPT ![c] = s] BY <1>4 DEF s
<1>9. CallsOK' /\ call'[c] = s /\ \A d \in Clients : d # c => call'[d] = call[d]
  BY <1>4, <1>6, <1>8, BecameOK
<1> QED BY <1>4, <1>7, <1>9 DEF Deeper, Others, h, g

LEMMA Returning ==
  ASSUME CallsOK, NEW c \in Clients, call[c] # <<>>, NEW r \in ReplyTo(c, call[c][1].ep), Return(c, r)
  PROVE  /\ CallsOK' /\ Others(c)
         /\ \/ Len(call[c]) = 1 /\ Over(c, TRUE, r)
            \/ Back(c, r) /\ <<call[c][2].ep, call[c][2].at, call[c][1].ep>> \in Sites
<1> DEFINE f == call[c][2]
           g == Answered(f, r)
<1>0. call[c][1].ep \in Eps /\ r \in ReplyOf[call[c][1].ep] BY StackOf, FrameParts DEF ReplyTo
<1>1. r \in Results BY <1>0 DEF Results
<1>2. CASE Len(call[c]) = 1
  <2>1. Ended(c, TRUE, r) BY <1>2 DEF Return
  <2> QED BY <1>0, <1>1, <1>2, <2>1, Ends
<1>3. CASE Len(call[c]) # 1
  <2>1. /\ Len(call[c]) > 1 /\ call[c] \in Calls(c) /\ call[c] \in Seq(Frames(c))
        /\ f \in Frames(c) /\ call[c][1] \in Frames(c) /\ Head(call[c]) = call[c][1]
        /\ <<f.ep, f.at, call[c][1].ep>> \in Sites
    BY <1>3, StackOf, SecondOf
  <2>2. \A e \in Eps : <<f.ep, f.at, e>> \in Sites => r \in ReplyTo(c, e) BY <2>1, SiteNames
  <2>3. g \in Frames(c) /\ g.ep = f.ep /\ g.req = f.req /\ g \in Heads(c)
    <3> HIDE DEF f
    <3> QED BY <1>1, <2>1, <2>2, FrameAnswered
  <2>4. call' = [call EXCEPT ![c] = <<g>> \o Tail(Tail(@))] /\ UNCHANGED answer
    BY <1>3 DEF Return, Answered
  <2> HIDE DEF g
  <2> DEFINE s == <<g>> \o Tail(Tail(call[c]))
  <2>5. s \in Calls(c)
    <3>1. /\ f \in Bottoms(c) => g \in Bottoms(c)
          /\ \A x \in Frames(c) : <<f, x>> \in Links(c) => <<g, x>> \in Links(c)
      BY <2>1, <2>3, SameLinks
    <3> QED BY <2>1, <2>3, <3>1, StackReturns DEF Calls
  <2>6. /\ Len(s) = Len(call[c]) - 1 /\ s[1] = g
        /\ \A i \in 2 .. Len(call[c]) - 1 : s[i] = call[c][i + 1]
    <3>1. call[c] \in Seq(Frames(c)) BY <2>1
    <3>2. Len(call[c]) > 1 BY <2>1
    <3>3. g \in Frames(c) BY <2>3
    <3> QED BY <3>1, <3>2, <3>3, TopReturns DEF s
  <2> HIDE DEF s
  <2>7. call' = [call EXCEPT ![c] = s] BY <2>4 DEF s
  <2>8. CallsOK' /\ call'[c] = s /\ \A d \in Clients : d # c => call'[d] = call[d]
    BY <2>4, <2>5, <2>7, BecameOK
  <2> QED BY <2>1, <2>4, <2>6, <2>8 DEF Back, Others, g
<1> QED BY <1>2, <1>3

-----------------------------------------------------------------------------
(* The steps of the handlers. *)

\* How far the review that a request composes has come: it is stored from 1 on,
\* in its movie's index from 2 on, in its user's at 3.
StageOf(e, p) ==
  IF <<e, p>> = <<"compose_review", "uploadMovie">> \/ e = "upload_movie_review" THEN 1
  ELSE IF <<e, p>> = <<"compose_review", "uploadUser">> \/ e = "upload_user_review" THEN 2
  ELSE IF <<e, p>> \in {<<"compose_review", "done">>, <<"compose", "composed">>} THEN 3
  ELSE 0
Stage(c) == StageOf(call[c][1].ep, call[c][1].at)

Readers == {"ro_read_movie_reviews", "ro_read_user_reviews"}

\* What a handler f answers, and where, with what, it goes on or calls another.
Gives(f, r) ==
  /\ f.ep = "compose_review" => f.at = "done"
  /\ f.ep \in Uploading => f.at = "loaded"
  /\ f.ep = "ro_read_reviews" => r.reviews = f.my
  /\ f.ep \in Readers => f.at = "gotReviews" /\ r.reviews = f.res.reviews
  /\ f.ep = "ro_read_page" => f.at = "gotReviews" /\ r.page.reviews = f.res.reviews
GoesTo(f, place, my) ==
  /\ f.ep \in Uploading \cup {"ro_read_reviews", "ro_read_cast_infos"}
  /\ f.ep = "upload_movie_review" => place = "loaded" /\ my = getMovieReviews(f.req.movie)
  /\ f.ep = "upload_user_review" => place = "loaded" /\ my = getUserReviews(f.req.user)
  /\ f.ep = "ro_read_reviews" =>
       LET n == Len(f.my) + 1 IN
       /\ n \in DOMAIN f.req.reviews
       /\ my = Append(f.my, IF Has(reviews, f.req.reviews[n])
                            THEN GetState(reviews, f.req.reviews[n]) ELSE NoReview)
Seeks(f, e, q) ==
  /\ SameReview(Frame(e, q), f) /\ StageOf(e, "start") = StageOf(f.ep, f.at)
  /\ f.ep = "ro_read_movie_reviews" => q.reviews = Ids(getMovieReviews(f.req.movie))
  /\ f.ep = "ro_read_user_reviews" => q.reviews = Ids(getUserReviews(f.req.user))

Step(c) ==
  LET f == call[c][1] IN
  \/ Panic(c)
  \/ \E r \in ReplyTo(c, f.ep) : Gives(f, r) /\ Return(c, r)
  \/ \E place \in PlaceNames : \E my \in LocalsAt(c, f.ep, place) :
       /\ Place(f.ep, place) /\ ~Waits(f.ep, place)
       /\ GoesTo(f, place, my) /\ Goto(c, place, my)
  \/ \E place \in PlaceNames, e \in Eps : \E my \in LocalsAt(c, f.ep, place), q \in RequestFor(c, e) :
       /\ <<f.ep, place, e>> \in Sites /\ Seeks(f, e, q)
       /\ \E service \in DOMAIN Endpoints : InvokeWith(c, service, e, q, place, my)

\* What such a step comes to.
Outcome(c) ==
  LET f == call[c][1] IN
  \/ Over(c, FALSE, <<>>)
  \/ \E r \in ReplyTo(c, f.ep) : Gives(f, r) /\ Len(call[c]) = 1 /\ Over(c, TRUE, r)
  \/ \E r \in ReplyTo(c, f.ep) :
       Gives(f, r) /\ Back(c, r) /\ <<call[c][2].ep, call[c][2].at, f.ep>> \in Sites
  \/ \E place \in PlaceNames : \E my \in LocalsAt(c, f.ep, place) :
       GoesTo(f, place, my) /\ Went(c, place, my)
  \/ \E place \in PlaceNames, e \in Eps : \E my \in LocalsAt(c, f.ep, place), q \in RequestFor(c, e) :
       <<f.ep, place, e>> \in Sites /\ Seeks(f, e, q) /\ Deeper(c, e, q, place, my)

LEMMA StepOK ==
  ASSUME CallsOK, NEW c \in Clients, call[c] # <<>>, Step(c)
  PROVE  CallsOK' /\ Others(c) /\ Outcome(c)
<1> DEFINE f == call[c][1]
<1>1. CASE Panic(c)
  <2>1. <<>> \in Results /\ FALSE \in BOOLEAN BY DEF Results
  <2>2. Ended(c, FALSE, <<>>) BY <1>1 DEF Panic
  <2>3. CallsOK' /\ Over(c, FALSE, <<>>) /\ Others(c) BY <2>1, <2>2, Ends
  <2> QED BY <2>3 DEF Outcome
<1>2. ASSUME NEW r \in ReplyTo(c, f.ep), Gives(f, r), Return(c, r)
      PROVE  CallsOK' /\ Others(c) /\ Outcome(c)
  <2>1. /\ CallsOK' /\ Others(c)
        /\ \/ Len(call[c]) = 1 /\ Over(c, TRUE, r)
           \/ Back(c, r) /\ <<call[c][2].ep, call[c][2].at, call[c][1].ep>> \in Sites
    BY <1>2, Returning
  <2> QED BY <1>2, <2>1 DEF Outcome
<1>3. ASSUME NEW place \in PlaceNames, NEW my \in LocalsAt(c, f.ep, place),
             Place(f.ep, place), ~Waits(f.ep, place), GoesTo(f, place, my), Goto(c, place, my)
      PROVE  CallsOK' /\ Others(c) /\ Outcome(c)
  <2>1. CallsOK' /\ Went(c, place, my) /\ Others(c) BY <1>3, Goes
  <2> QED BY <1>3, <2>1 DEF Outcome
<1>4. ASSUME NEW place \in PlaceNames, NEW e \in Eps, NEW my \in LocalsAt(c, f.ep, place),
             NEW q \in RequestFor(c, e), <<f.ep, place, e>> \in Sites, Seeks(f, e, q),
             NEW service \in DOMAIN Endpoints, InvokeWith(c, service, e, q, place, my)
      PROVE  CallsOK' /\ Others(c) /\ Outcome(c)
  <2>1. CASE <<service, e>> \in up
    <3>1. SameReview(Frame(e, q), call[c][1]) BY <1>4 DEF Seeks
    <3>2. CallsOK' /\ Deeper(c, e, q, place, my) /\ Others(c) BY <1>4, <2>1, <3>1, Asking
    <3> QED BY <1>4, <3>2 DEF Outcome
  <2>2. CASE <<service, e>> \notin up
    <3>1. Panic(c) BY <1>4, <2>2 DEF InvokeWith, performRequest
    <3> QED BY <1>1, <3>1
  <2> QED BY <2>1, <2>2
<1> QED BY <1>1, <1>2, <1>3, <1>4 DEF Step

-----------------------------------------------------------------------------
(* Each handler takes such steps, and keeps the values of its service well *)
(* formed.                                                                 *)

LEMMA Serves ==
  ASSUME CallsOK, NEW c \in Clients, NEW e, Serving(c, e)
  PROVE  /\ call[c] # <<>> /\ e \in Eps /\ call[c][1].ep = e /\ Head(call[c]) = call[c][1]
         /\ Req(c) \in RequestOf[e] /\ Req(c) \in RequestFor(c, e) /\ call[c][1].req = Req(c)
         /\ call[c][1].my = My(c) /\ call[c][1].res = Res(c)
         /\ call[c][1] \in Frames(c) /\ My(c) \in LocalsAt(c, e, call[c][1].at)
         /\ \A p : At(c, p) => call[c][1].at = p /\ My(c) \in LocalsAt(c, e, p)
         /\ \A p, callee : At(c, p) /\ <<e, p, callee>> \in Sites => Res(c) \in ReplyTo(c, callee)
<1>1. call[c] # <<>> /\ Head(call[c]).ep = e BY DEF Serving
<1>2. Head(call[c]) = call[c][1] /\ call[c][1] \in Frames(c) /\ call[c][1] \in Heads(c)
  BY <1>1, StackOf
<1>3. \A p, callee : <<e, p, callee>> \in Sites => callee \in Eps BY SiteNames
<1> QED BY <1>1, <1>2, <1>3, FrameParts DEF Req, My, At, Res, Heads

LEMMA CallStep ==
  ASSUME CallsOK, NEW c \in Clients, NEW e, Serving(c, e), NEW place, NEW callee,
         <<e, place, callee>> \in Sites, NEW q \in RequestFor(c, callee),
         NEW my \in LocalsAt(c, e, place), Seeks(call[c][1], callee, q),
         NEW service \in DOMAIN Endpoints, InvokeWith(c, service, callee, q, place, my)
  PROVE  Step(c)
<1>1. call[c][1].ep = e BY Serves
<1>2. place \in PlaceNames /\ callee \in Eps BY SiteNames
<1> QED BY <1>1, <1>2 DEF Step

LEMMA ReturnStep ==
  ASSUME CallsOK, NEW c \in Clients, NEW e, Serving(c, e), NEW r \in ReplyTo(c, e),
         Gives(call[c][1], r), Return(c, r)
  PROVE  Step(c)
<1>1. call[c][1].ep = e BY Serves
<1> QED BY <1>1 DEF Step

LEMMA GotoStep ==
  ASSUME CallsOK, NEW c \in Clients, NEW e, Serving(c, e), NEW place \in PlaceNames,
         Place(e, place), ~Waits(e, place), NEW my \in LocalsAt(c, e, place),
         GoesTo(call[c][1], place, my), Goto(c, place, my)
  PROVE  Step(c)
<1>1. call[c][1].ep = e BY Serves
<1> QED BY <1>1 DEF Step

LEMMA StatesStay == ASSUME StatesOK, UNCHANGED state PROVE StatesOK'
BY DEF StatesOK, StateOf, state, catalogue, indexes, KeptMovie, KeptUser

\* The endpoints that are neither composed, nor indexed, nor read in steps.
Plain == {"get_unique_id", "register_user", "login", "ro_get_user_id", "register_movie_id",
          "ro_get_movie_id", "store_movie_info", "ro_read_movie_info", "store_cast_info",
          "write_plot", "ro_read_plot"}

LEMMA PlainGives ==
  ASSUME CallsOK, NEW c \in Clients, NEW e \in Plain \cup {"store_review"}, Serving(c, e), NEW r
  PROVE  Gives(call[c][1], r) /\ Place(e, "start")
<1>1. call[c][1].ep = e BY Serves
<1> QED BY <1>1 DEF Gives, Plain, Readers, Uploading, Place

LEMMA PanicStep == ASSUME NEW c, Panic(c) PROVE Step(c)
BY DEF Step

LEMMA GetUniqueIdStep ==
  ASSUME CallsOK, NEW c \in Clients, getUniqueId(c)
  PROVE  Step(c) /\ UNCHANGED state
<1>1. Serving(c, "get_unique_id") /\ UNCHANGED state /\ Return(c, [review |-> c])
  BY DEF getUniqueId, GetUniqueId
<1>2. ReplyOf["get_unique_id"] = GetUniqueIdResponse BY DEF ReplyOf
<1>3. [review |-> c] \in ReplyTo(c, "get_unique_id")
  BY <1>2 DEF ReplyTo, GetUniqueIdResponse, ReviewIds
<1> QED BY <1>1, <1>3, PlainGives, ReturnStep DEF Plain

LEMMA LoginStep ==
  ASSUME CallsOK, NEW c \in Clients, login(c)
  PROVE  Step(c) /\ UNCHANGED state
<1>1. Serving(c, "login") /\ UNCHANGED state /\ Login(c, Req(c).username, Req(c).password)
  BY DEF login, Login
<1>2. CASE ~Has(users, Req(c).username)
  <2>1. Panic(c) BY <1>1, <1>2 DEF Login
  <2> QED BY <1>1, <2>1, PanicStep
<1>3. CASE Has(users, Req(c).username)
  <2>1. PICK token \in {"OK", "NOT-OK"} : Return(c, [token |-> token])
    <3> DEFINE user == GetState(users, Req(c).username)
               tk == IF hash(Req(c).password, user.salt) = user.password THEN "OK" ELSE "NOT-OK"
    <3>1. Return(c, [token |-> tk]) BY <1>1, <1>3 DEF Login
    <3>2. tk \in {"OK", "NOT-OK"} OBVIOUS
    <3> HIDE DEF tk
    <3> QED BY <3>1, <3>2
  <2>2. ReplyOf["login"] = LoginResponse BY DEF ReplyOf
  <2>3. [token |-> token] \in ReplyTo(c, "login") BY <2>2 DEF ReplyTo, LoginResponse
  <2> QED BY <1>1, <2>1, <2>3, PlainGives, ReturnStep DEF Plain
<1> QED BY <1>2, <1>3

LEMMA GetUserIdStep ==
  ASSUME CallsOK, StatesOK, NEW c \in Clients, getUserId(c)
  PROVE  Step(c) /\ UNCHANGED state
<1>1. Serving(c, "ro_get_user_id") /\ UNCHANGED state /\ GetUserId(c, Req(c).username)
  BY DEF getUserId, GetUserId
<1>2. CASE ~Has(users, Req(c).username)
  <2>1. Panic(c) BY <1>1, <1>2 DEF GetUserId
  <2> QED BY <1>1, <2>1, PanicStep
<1>3. CASE Has(users, Req(c).username)
  <2> DEFINE u == GetState(users, Req(c).username)
  <2>1. Return(c, [user |-> u.id]) BY <1>1, <1>3 DEF GetUserId
  <2>2. u \in User BY <1>3 DEF StatesOK, StateOf, Has, GetState
  <2>3. u.id \in UserIds
    <3> HIDE DEF u
    <3> QED BY <2>2 DEF User
  <2>4. ReplyOf["ro_get_user_id"] = GetUserIdResponse BY DEF ReplyOf
  <2>5. [user |-> u.id] \in ReplyTo(c, "ro_get_user_id")
    BY <2>3, <2>4 DEF ReplyTo, GetUserIdResponse
  <2> QED BY <1>1, <2>1, <2>5, PlainGives, ReturnStep DEF Plain
<1> QED BY <1>2, <1>3

LEMMA RegisterUserStep ==
  ASSUME CallsOK, StatesOK, NEW c \in Clients, registerUser(c)
  PROVE  Step(c) /\ StatesOK' /\ UNCHANGED <<reviews, indexes>>
<1> DEFINE u == [id |-> c, password |-> hash(Req(c).password, c), salt |-> c]
<1>1. /\ Serving(c, "register_user") /\ Return(c, [ok |-> TRUE])
      /\ users' = SetState(users, Req(c).username, u)
      /\ UNCHANGED <<catalogue, reviews, indexes>>
  BY DEF registerUser, RegisterUser
<1>2. RequestOf["register_user"] = RegisterUserRequest BY DEF RequestOf
<1>3. Req(c) \in RegisterUserRequest BY <1>1, <1>2, Serves
<1>4. u \in User BY <1>3 DEF User, UserIds, hash, RegisterUserRequest
<1>5. Req(c).username \in Users BY <1>3 DEF RegisterUserRequest
<1> HIDE DEF u
<1>6. StateOf(users', Users, User)
  <2>1. StateOf(users, Users, User) BY DEF StatesOK
  <2> QED BY <1>1, <1>4, <1>5, <2>1, StoredType
<1>7. StatesOK' BY <1>1, <1>6 DEF StatesOK, StateOf, catalogue, indexes, KeptMovie, KeptUser
<1>8. ReplyOf["register_user"] = RegisterUserResponse BY DEF ReplyOf
<1>9. [ok |-> TRUE] \in ReplyTo(c, "register_user") BY <1>8 DEF ReplyTo, RegisterUserResponse
<1> QED BY <1>1, <1>7, <1>9, PlainGives, ReturnStep DEF Plain

LEMMA RegisterMovieIdStep ==
  ASSUME CallsOK, StatesOK, NEW c \in Clients, registerMovieId(c)
  PROVE  Step(c) /\ StatesOK' /\ UNCHANGED <<reviews, indexes>>
<1>1. /\ Serving(c, "register_movie_id") /\ Return(c, [ok |-> "OK"])
      /\ movieIds' = SetState(movieIds, Req(c).title, Req(c).movie)
      /\ UNCHANGED <<movieInfos, castInfos, plots, users, reviews, indexes>>
  BY DEF registerMovieId, RegisterMovieId
<1>2. RequestOf["register_movie_id"] = RegisterMovieIdRequest BY DEF RequestOf
<1>3. Req(c) \in RegisterMovieIdRequest BY <1>1, <1>2, Serves
<1>5. Req(c).title \in Titles /\ Req(c).movie \in Movies BY <1>3 DEF RegisterMovieIdRequest
<1>6. StateOf(movieIds', Titles, Movies)
  <2>1. StateOf(movieIds, Titles, Movies) BY DEF StatesOK
  <2> QED BY <1>1, <1>5, <2>1, StoredType
<1>7. StatesOK' BY <1>1, <1>6 DEF StatesOK, StateOf, indexes, KeptMovie, KeptUser
<1>8. ReplyOf["register_movie_id"] = RegisterMovieIdResponse BY DEF ReplyOf
<1>9. [ok |-> "OK"] \in ReplyTo(c, "register_movie_id") BY <1>8 DEF ReplyTo, RegisterMovieIdResponse
<1> QED BY <1>1, <1>7, <1>9, PlainGives, ReturnStep DEF Plain

LEMMA GetMovieIdStep ==
  ASSUME CallsOK, StatesOK, NEW c \in Clients, getMovieId(c)
  PROVE  Step(c) /\ UNCHANGED state
<1>1. Serving(c, "ro_get_movie_id") /\ UNCHANGED state /\ GetMovieId(c, Req(c).title)
  BY DEF getMovieId, GetMovieId
<1>2. CASE ~Has(movieIds, Req(c).title)
  <2>1. Panic(c) BY <1>1, <1>2 DEF GetMovieId
  <2> QED BY <1>1, <2>1, PanicStep
<1>3. CASE Has(movieIds, Req(c).title)
  <2> DEFINE m == GetState(movieIds, Req(c).title)
  <2>1. Return(c, [movie |-> m]) BY <1>1, <1>3 DEF GetMovieId
  <2>2. m \in Movies BY <1>3 DEF StatesOK, StateOf, Has, GetState
  <2>4. ReplyOf["ro_get_movie_id"] = GetMovieIdResponse BY DEF ReplyOf
  <2> HIDE DEF m
  <2>5. [movie |-> m] \in ReplyTo(c, "ro_get_movie_id")
    BY <2>2, <2>4 DEF ReplyTo, GetMovieIdResponse
  <2> QED BY <1>1, <2>1, <2>5, PlainGives, ReturnStep DEF Plain
<1> QED BY <1>2, <1>3

LEMMA StoreMovieInfoStep ==
  ASSUME CallsOK, StatesOK, NEW c \in Clients, storeMovieInfo(c)
  PROVE  Step(c) /\ StatesOK' /\ UNCHANGED <<reviews, indexes>>
<1> DEFINE i == [movie |-> Req(c).movie, casts |-> Req(c).casts, plot |-> Req(c).plot]
<1>1. /\ Serving(c, "store_movie_info") /\ Return(c, [movie |-> Req(c).movie])
      /\ movieInfos' = SetState(movieInfos, Req(c).movie, i)
      /\ UNCHANGED <<movieIds, castInfos, plots, users, reviews, indexes>>
  BY DEF storeMovieInfo, StoreMovieInfo
<1>2. RequestOf["store_movie_info"] = StoreMovieInfoRequest BY DEF RequestOf
<1>3. Req(c) \in StoreMovieInfoRequest BY <1>1, <1>2, Serves
<1>4. Req(c).movie \in Movies BY <1>3 DEF StoreMovieInfoRequest
<1>5. i \in MovieInfo BY <1>3 DEF StoreMovieInfoRequest, MovieInfo
<1> HIDE DEF i
<1>6. StateOf(movieInfos', Movies, MovieInfo)
  <2>1. StateOf(movieInfos, Movies, MovieInfo) BY DEF StatesOK
  <2> QED BY <1>1, <1>4, <1>5, <2>1, StoredType
<1>7. StatesOK' BY <1>1, <1>6 DEF StatesOK, StateOf, indexes, KeptMovie, KeptUser
<1>8. ReplyOf["store_movie_info"] = StoreMovieInfoResponse BY DEF ReplyOf
<1>9. [movie |-> Req(c).movie] \in ReplyTo(c, "store_movie_info")
  BY <1>4, <1>8 DEF ReplyTo, StoreMovieInfoResponse
<1> QED BY <1>1, <1>7, <1>9, PlainGives, ReturnStep DEF Plain

LEMMA ReadMovieInfoStep ==
  ASSUME CallsOK, StatesOK, NEW c \in Clients, readMovieInfo(c)
  PROVE  Step(c) /\ UNCHANGED state
<1>1. Serving(c, "ro_read_movie_info") /\ UNCHANGED state /\ ReadMovieInfo(c, Req(c).movie)
  BY DEF readMovieInfo, ReadMovieInfo
<1>2. CASE ~Has(movieInfos, Req(c).movie)
  <2>1. Panic(c) BY <1>1, <1>2 DEF ReadMovieInfo
  <2> QED BY <1>1, <2>1, PanicStep
<1>3. CASE Has(movieInfos, Req(c).movie)
  <2> DEFINE i == GetState(movieInfos, Req(c).movie)
  <2>1. Return(c, [info |-> i]) BY <1>1, <1>3 DEF ReadMovieInfo
  <2>2. i \in MovieInfo BY <1>3 DEF StatesOK, StateOf, Has, GetState
  <2>4. ReplyOf["ro_read_movie_info"] = ReadMovieInfoResponse BY DEF ReplyOf
  <2> HIDE DEF i
  <2>5. [info |-> i] \in ReplyTo(c, "ro_read_movie_info")
    BY <2>2, <2>4 DEF ReplyTo, ReadMovieInfoResponse
  <2> QED BY <1>1, <2>1, <2>5, PlainGives, ReturnStep DEF Plain
<1> QED BY <1>2, <1>3

LEMMA StoreCastInfoStep ==
  ASSUME CallsOK, StatesOK, NEW c \in Clients, storeCastInfo(c)
  PROVE  Step(c) /\ StatesOK' /\ UNCHANGED <<reviews, indexes>>
<1>1. /\ Serving(c, "store_cast_info") /\ Return(c, [cast |-> Req(c).cast])
      /\ castInfos' = SetState(castInfos, Req(c).cast, [cast |-> Req(c).cast])
      /\ UNCHANGED <<movieIds, movieInfos, plots, users, reviews, indexes>>
  BY DEF storeCastInfo, StoreCastInfo
<1>2. RequestOf["store_cast_info"] = StoreCastInfoRequest BY DEF RequestOf
<1>3. Req(c) \in StoreCastInfoRequest BY <1>1, <1>2, Serves
<1>4. Req(c).cast \in Casts /\ [cast |-> Req(c).cast] \in CastInfo
  BY <1>3 DEF StoreCastInfoRequest, CastInfo
<1>6. StateOf(castInfos', Casts, CastInfo)
  <2>1. StateOf(castInfos, Casts, CastInfo) BY DEF StatesOK
  <2> QED BY <1>1, <1>4, <2>1, StoredType
<1>7. StatesOK' BY <1>1, <1>6 DEF StatesOK, StateOf, indexes, KeptMovie, KeptUser
<1>8. ReplyOf["store_cast_info"] = StoreCastInfoResponse BY DEF ReplyOf
<1>9. [cast |-> Req(c).cast] \in ReplyTo(c, "store_cast_info")
  BY <1>4, <1>8 DEF ReplyTo, StoreCastInfoResponse
<1> QED BY <1>1, <1>7, <1>9, PlainGives, ReturnStep DEF Plain

LEMMA WritePlotStep ==
  ASSUME CallsOK, StatesOK, NEW c \in Clients, writePlot(c)
  PROVE  Step(c) /\ StatesOK' /\ UNCHANGED <<reviews, indexes>>
<1>1. /\ Serving(c, "write_plot") /\ Return(c, [plot |-> Req(c).plot])
      /\ plots' = SetState(plots, Req(c).plot, Req(c).plot)
      /\ UNCHANGED <<movieIds, movieInfos, castInfos, users, reviews, indexes>>
  BY DEF writePlot, WritePlot
<1>2. RequestOf["write_plot"] = WritePlotRequest BY DEF RequestOf
<1>3. Req(c) \in WritePlotRequest BY <1>1, <1>2, Serves
<1>4. Req(c).plot \in Movies BY <1>3 DEF WritePlotRequest
<1>6. StateOf(plots', Movies, Movies)
  <2>1. StateOf(plots, Movies, Movies) BY DEF StatesOK
  <2> QED BY <1>1, <1>4, <2>1, StoredType
<1>7. StatesOK' BY <1>1, <1>6 DEF StatesOK, StateOf, indexes, KeptMovie, KeptUser
<1>8. ReplyOf["write_plot"] = WritePlotResponse BY DEF ReplyOf
<1>9. [plot |-> Req(c).plot] \in ReplyTo(c, "write_plot")
  BY <1>4, <1>8 DEF ReplyTo, WritePlotResponse
<1> QED BY <1>1, <1>7, <1>9, PlainGives, ReturnStep DEF Plain

LEMMA ReadPlotStep ==
  ASSUME CallsOK, StatesOK, NEW c \in Clients, readPlot(c)
  PROVE  Step(c) /\ UNCHANGED state
<1>1. Serving(c, "ro_read_plot") /\ UNCHANGED state /\ ReadPlot(c, Req(c).plot)
  BY DEF readPlot, ReadPlot
<1>2. CASE ~Has(plots, Req(c).plot)
  <2>1. Panic(c) BY <1>1, <1>2 DEF ReadPlot
  <2> QED BY <1>1, <2>1, PanicStep
<1>3. CASE Has(plots, Req(c).plot)
  <2> DEFINE i == GetState(plots, Req(c).plot)
  <2>1. Return(c, [plot |-> i]) BY <1>1, <1>3 DEF ReadPlot
  <2>2. i \in Movies BY <1>3 DEF StatesOK, StateOf, Has, GetState
  <2>4. ReplyOf["ro_read_plot"] = ReadPlotResponse BY DEF ReplyOf
  <2> HIDE DEF i
  <2>5. [plot |-> i] \in ReplyTo(c, "ro_read_plot")
    BY <2>2, <2>4 DEF ReplyTo, ReadPlotResponse
  <2> QED BY <1>1, <2>1, <2>5, PlainGives, ReturnStep DEF Plain
<1> QED BY <1>2, <1>3

LEMMA ComposeStep ==
  ASSUME CallsOK, NEW c \in Clients, compose(c)
  PROVE  Step(c) /\ UNCHANGED state
<1> DEFINE f == call[c][1]
<1>1. /\ Serving(c, "compose") /\ UNCHANGED state
      /\ Compose(c, Req(c).username, Req(c).password, Req(c).title)
  BY DEF compose, Compose
<1>2. /\ Req(c) \in ComposeRequest /\ f.ep = "compose"
  <2>1. RequestOf["compose"] = ComposeRequest BY DEF RequestOf
  <2> QED BY <1>1, <2>1, Serves
<1>3. Req(c).username \in Users /\ Req(c).password \in Passwords /\ Req(c).title \in Titles
  BY <1>2 DEF ComposeRequest
<1>4. ASSUME NEW e \in {"login", "get_unique_id", "ro_get_user_id", "ro_get_movie_id", "compose_review"},
             NEW q, f.at # "composed"
      PROVE  Seeks(f, e, q)
  <2>1. Frame(e, q).ep = e BY DEF Frame
  <2> HIDE DEF f
  <2>2. SameReview(Frame(e, q), f) BY <2>1 DEF SameReview
  <2>3. StageOf(f.ep, f.at) = 0 BY <1>2, <1>4 DEF StageOf
  <2>4. StageOf(e, "start") = 0 BY DEF StageOf
  <2> QED BY <1>2, <2>2, <2>3, <2>4 DEF Seeks
<1> HIDE DEF f
<1>5. ASSUME NEW r PROVE Gives(f, r) BY <1>2 DEF Gives, Readers, Uploading
<1>6. CASE At(c, "start")
  <2> DEFINE q == [username |-> Req(c).username, password |-> Req(c).password]
  <2>1. f.at = "start" /\ My(c) = <<>> BY <1>1, <1>6, Serves DEF LocalsAt, f
  <2>2. InvokeWith(c, "user", "login", q, "loggedIn", My(c))
    BY <1>1, <2>1, <1>6 DEF Compose, At, Invoke, InvokeWith
  <2>3. RequestOf["login"] = LoginRequest BY DEF RequestOf
  <2>4. q \in RequestFor(c, "login") BY <1>3, <2>3 DEF RequestFor, LoginRequest, Uploading
  <2>5. My(c) \in LocalsAt(c, "compose", "loggedIn") BY <2>1 DEF LocalsAt
  <2>6. Seeks(f, "login", q) /\ "user" \in DOMAIN Endpoints BY <1>4, <2>1 DEF Endpoints
  <2> HIDE DEF q
  <2> QED BY <1>1, <2>2, <2>4, <2>5, <2>6, SiteList, CallStep DEF f
<1>7. CASE At(c, "loggedIn") /\ Res(c).token # "OK"
  <2>1. Return(c, [ok |-> FALSE]) BY <1>1, <1>7 DEF Compose, At
  <2>2. ReplyOf["compose"] = ComposeResponse BY DEF ReplyOf
  <2>3. [ok |-> FALSE] \in ReplyTo(c, "compose") BY <2>2 DEF ReplyTo, ComposeResponse
  <2> QED BY <1>1, <1>5, <2>1, <2>3, ReturnStep DEF f
<1>8. CASE At(c, "loggedIn") /\ Res(c).token = "OK"
  <2> DEFINE q == [request |-> c]
  <2>1. f.at = "loggedIn" /\ My(c) = <<>> BY <1>1, <1>8, Serves DEF LocalsAt, f
  <2>2. InvokeWith(c, "uniqueid", "get_unique_id", q, "gotUniqueId", My(c))
    BY <1>1, <2>1, <1>8 DEF Compose, At, Invoke, InvokeWith
  <2>3. RequestOf["get_unique_id"] = GetUniqueIdRequest BY DEF RequestOf
  <2>4. q \in RequestFor(c, "get_unique_id") BY <1>3, <2>3 DEF RequestFor, GetUniqueIdRequest, Uploading
  <2>5. My(c) \in LocalsAt(c, "compose", "gotUniqueId") BY <2>1 DEF LocalsAt
  <2>6. Seeks(f, "get_unique_id", q) /\ "uniqueid" \in DOMAIN Endpoints BY <1>4, <2>1 DEF Endpoints
  <2> HIDE DEF q
  <2> QED BY <1>1, <2>2, <2>4, <2>5, <2>6, SiteList, CallStep DEF f
<1>9. CASE At(c, "gotUniqueId")
  <2> DEFINE q == [username |-> Req(c).username]
             my == <<Res(c).review>>
  <2>1. f.at = "gotUniqueId" BY <1>1, <1>9, Serves DEF f
  <2>2. InvokeWith(c, "user", "ro_get_user_id", q, "gotUserId", my)
    BY <1>1, <2>1, <1>9 DEF Compose, At
  <2>3. RequestOf["ro_get_user_id"] = GetUserIdRequest BY DEF RequestOf
  <2>4. q \in RequestFor(c, "ro_get_user_id") BY <1>3, <2>3 DEF RequestFor, GetUserIdRequest, Uploading
  <2>5. my \in LocalsAt(c, "compose", "gotUserId")
    <3>1. Res(c) \in ReplyTo(c, "get_unique_id") BY <1>1, <1>9, Serves, SiteList
    <3>2. Res(c).review = c BY <3>1 DEF ReplyTo
    <3> QED BY <3>2 DEF LocalsAt
  <2>6. Seeks(f, "ro_get_user_id", q) /\ "user" \in DOMAIN Endpoints BY <1>4, <2>1 DEF Endpoints
  <2> HIDE DEF q, my
  <2> QED BY <1>1, <2>2, <2>4, <2>5, <2>6, SiteList, CallStep DEF f
<1>10. CASE At(c, "gotUserId")
  <2> DEFINE q == [title |-> Req(c).title]
             my == Append(My(c), Res(c).user)
  <2>1. f.at = "gotUserId" /\ My(c) = <<c>> BY <1>1, <1>10, Serves DEF f, LocalsAt
  <2>2. InvokeWith(c, "movieid", "ro_get_movie_id", q, "gotMovieId", my)
    BY <1>1, <2>1, <1>10 DEF Compose, At
  <2>3. RequestOf["ro_get_movie_id"] = GetMovieIdRequest BY DEF RequestOf
  <2>4. q \in RequestFor(c, "ro_get_movie_id") BY <1>3, <2>3 DEF RequestFor, GetMovieIdRequest, Uploading
  <2>5. my \in LocalsAt(c, "compose", "gotMovieId")
    <3>1. Res(c) \in ReplyTo(c, "ro_get_user_id") BY <1>1, <1>10, Serves, SiteList
    <3>2. ReplyOf["ro_get_user_id"] = GetUserIdResponse BY DEF ReplyOf
    <3>3. Res(c).user \in UserIds BY <3>1, <3>2 DEF ReplyTo, GetUserIdResponse
    <3>4. my = <<c, Res(c).user>> BY <2>1, AppendSecond
    <3> QED BY <3>3, <3>4 DEF LocalsAt
  <2>6. Seeks(f, "ro_get_movie_id", q) /\ "movieid" \in DOMAIN Endpoints BY <1>4, <2>1 DEF Endpoints
  <2> HIDE DEF q, my
  <2> QED BY <1>1, <2>2, <2>4, <2>5, <2>6, SiteList, CallStep DEF f
<1>11. CASE At(c, "gotMovieId")
  <2> DEFINE v == [id |-> My(c)[1], user |-> My(c)[2], movie |-> Res(c).movie]
             q == [review |-> v]
  <2>1. f.at = "gotMovieId" /\ My(c) \in {c} \X UserIds BY <1>1, <1>11, Serves DEF f, LocalsAt
  <2>2. InvokeWith(c, "composereview", "compose_review", q, "composed", My(c))
    BY <1>1, <2>1, <1>11 DEF Compose, At, Invoke, InvokeWith
  <2>3. RequestOf["compose_review"] = ComposeReviewRequest BY DEF RequestOf
  <2>4. q \in RequestFor(c, "compose_review")
    <3>1. Res(c) \in ReplyTo(c, "ro_get_movie_id") BY <1>1, <1>11, Serves, SiteList
    <3>2. ReplyOf["ro_get_movie_id"] = GetMovieIdResponse BY DEF ReplyOf
    <3>3. Res(c).movie \in Movies BY <3>1, <3>2 DEF ReplyTo, GetMovieIdResponse
    <3>4. My(c)[1] = c /\ My(c)[2] \in UserIds BY <2>1
    <3>5. v \in Review /\ v.id = c BY <3>3, <3>4 DEF Review, ReviewIds
    <3> HIDE DEF v
    <3> QED BY <2>3, <3>5 DEF RequestFor, ComposeReviewRequest, Uploading
  <2>5. My(c) \in LocalsAt(c, "compose", "composed") BY <2>1 DEF LocalsAt
  <2>6. Seeks(f, "compose_review", q) /\ "composereview" \in DOMAIN Endpoints
    BY <1>4, <2>1 DEF Endpoints
  <2> HIDE DEF q
  <2> QED BY <1>1, <2>2, <2>4, <2>5, <2>6, SiteList, CallStep DEF f
<1>12. CASE At(c, "composed")
  <2>1. Return(c, [ok |-> TRUE]) BY <1>1, <1>12 DEF Compose, At
  <2>2. ReplyOf["compose"] = ComposeResponse BY DEF ReplyOf
  <2>3. [ok |-> TRUE] \in ReplyTo(c, "compose") BY <2>2 DEF ReplyTo, ComposeResponse
  <2> QED BY <1>1, <1>5, <2>1, <2>3, ReturnStep DEF f
<1>13. \/ At(c, "start") \/ At(c, "loggedIn") \/ At(c, "gotUniqueId") \/ At(c, "gotUserId")
       \/ At(c, "gotMovieId") \/ At(c, "composed")
  BY <1>1 DEF Compose
<1> QED BY <1>1, <1>6, <1>7, <1>8, <1>9, <1>10, <1>11, <1>12, <1>13

LEMMA ComposeReviewStep ==
  ASSUME CallsOK, NEW c \in Clients, composeReview(c)
  PROVE  Step(c) /\ UNCHANGED state
<1> DEFINE f == call[c][1]
           v == Req(c).review
<1>1. Serving(c, "compose_review") /\ UNCHANGED state /\ ComposeReview(c, v)
  BY DEF composeReview, ComposeReview
<1>2. f.ep = "compose_review" /\ f.req = Req(c) BY <1>1, Serves
<1>3. v \in Review /\ v.id = c
  <2>1. RequestOf["compose_review"] = ComposeReviewRequest BY DEF RequestOf
  <2>2. Req(c) \in ComposeReviewRequest /\ Req(c) \in RequestFor(c, "compose_review")
    BY <1>1, <2>1, Serves
  <2> QED BY <2>2 DEF RequestFor, ComposeReviewRequest
<1>4. My(c) = <<>> BY <1>1, Serves DEF LocalsAt
<1>5. f.req.review = v BY <1>2
<1> HIDE DEF f, v
<1>6. \A p \in {"uploadMovie", "uploadUser", "done"} : My(c) \in LocalsAt(c, "compose_review", p)
  BY <1>4 DEF LocalsAt
<1>7. CASE At(c, "start")
  <2> DEFINE q == [review |-> v]
  <2>1. f.at = "start" BY <1>1, <1>7, Serves DEF f
  <2>2. InvokeWith(c, "reviewstorage", "store_review", q, "uploadMovie", My(c))
    BY <1>1, <1>7 DEF ComposeReview, Uploads, At, Invoke, InvokeWith
  <2>3. RequestOf["store_review"] = StoreReviewRequest BY DEF RequestOf
  <2>4. q \in RequestFor(c, "store_review") BY <1>3, <2>3 DEF RequestFor, StoreReviewRequest, Uploading
  <2>5. Frame("store_review", q).ep = "store_review" /\ Frame("store_review", q).req = q BY DEF Frame
  <2>6. SameReview(Frame("store_review", q), f) BY <1>5, <2>5 DEF SameReview
  <2>7. Seeks(f, "store_review", q) BY <1>2, <2>1, <2>6 DEF Seeks, StageOf
  <2>8. "reviewstorage" \in DOMAIN Endpoints BY DEF Endpoints
  <2> HIDE DEF q
  <2> QED BY <1>1, <1>6, <2>2, <2>4, <2>7, <2>8, SiteList, CallStep DEF f
<1>8. CASE At(c, "uploadMovie")
  <2> DEFINE q == [movie |-> v.movie, review |-> v.id]
  <2>1. f.at = "uploadMovie" BY <1>1, <1>8, Serves DEF f
  <2>2. InvokeWith(c, "moviereviews", "upload_movie_review", q, "uploadUser", My(c))
    BY <1>1, <1>8 DEF ComposeReview, Uploads, At, Invoke, InvokeWith
  <2>3. RequestOf["upload_movie_review"] = UploadMovieReviewRequest BY DEF RequestOf
  <2>4. q \in RequestFor(c, "upload_movie_review")
    BY <1>3, <2>3 DEF RequestFor, UploadMovieReviewRequest, Uploading, Review
  <2>5. Frame("upload_movie_review", q).ep = "upload_movie_review" /\ Frame("upload_movie_review", q).req = q
    BY DEF Frame
  <2>6. SameReview(Frame("upload_movie_review", q), f) BY <1>5, <2>5 DEF SameReview
  <2>7. Seeks(f, "upload_movie_review", q) BY <1>2, <2>1, <2>6 DEF Seeks, StageOf
  <2>8. "moviereviews" \in DOMAIN Endpoints BY DEF Endpoints
  <2> HIDE DEF q
  <2> QED BY <1>1, <1>6, <2>2, <2>4, <2>7, <2>8, SiteList, CallStep DEF f
<1>9. CASE At(c, "uploadUser")
  <2> DEFINE q == [user |-> v.user, review |-> v.id]
  <2>1. f.at = "uploadUser" BY <1>1, <1>9, Serves DEF f
  <2>2. InvokeWith(c, "userreviews", "upload_user_review", q, "done", My(c))
    BY <1>1, <1>9 DEF ComposeReview, Uploads, At, Invoke, InvokeWith
  <2>3. RequestOf["upload_user_review"] = UploadUserReviewRequest BY DEF RequestOf
  <2>4. q \in RequestFor(c, "upload_user_review")
    BY <1>3, <2>3 DEF RequestFor, UploadUserReviewRequest, Uploading, Review
  <2>5. Frame("upload_user_review", q).ep = "upload_user_review" /\ Frame("upload_user_review", q).req = q
    BY DEF Frame
  <2>6. SameReview(Frame("upload_user_review", q), f) BY <1>5, <2>5 DEF SameReview
  <2>7. Seeks(f, "upload_user_review", q) BY <1>2, <2>1, <2>6 DEF Seeks, StageOf
  <2>8. "userreviews" \in DOMAIN Endpoints BY DEF Endpoints
  <2> HIDE DEF q
  <2> QED BY <1>1, <1>6, <2>2, <2>4, <2>7, <2>8, SiteList, CallStep DEF f
<1>10. CASE At(c, "done")
  <2>1. Return(c, [ok |-> "OK"]) BY <1>1, <1>10 DEF ComposeReview, Uploads, At
  <2>2. ReplyOf["compose_review"] = ComposeReviewResponse BY DEF ReplyOf
  <2>3. [ok |-> "OK"] \in ReplyTo(c, "compose_review") BY <2>2 DEF ReplyTo, ComposeReviewResponse
  <2>4. f.at = "done" BY <1>1, <1>10, Serves DEF f
  <2>5. Gives(f, [ok |-> "OK"]) BY <1>2, <2>4 DEF Gives, Readers, Uploading
  <2> QED BY <1>1, <2>1, <2>3, <2>5, ReturnStep DEF f
<1>11. At(c, "start") \/ At(c, "uploadMovie") \/ At(c, "uploadUser") \/ At(c, "done")
  BY <1>1 DEF ComposeReview, Uploads
<1> QED BY <1>1, <1>7, <1>8, <1>9, <1>10, <1>11

LEMMA ReadPageStep ==
  ASSUME CallsOK, NEW c \in Clients, readPage(c)
  PROVE  Step(c) /\ UNCHANGED state
<1> DEFINE f == call[c][1]
           m == Req(c).movie
<1>1. Serving(c, "ro_read_page") /\ UNCHANGED state /\ ReadPage(c, m)
  BY DEF readPage, ReadPage
<1>2. f.ep = "ro_read_page" /\ f.req = Req(c) /\ f.res = Res(c) BY <1>1, Serves
<1>3. m \in Movies
  <2>1. RequestOf["ro_read_page"] = ReadPageRequest BY DEF RequestOf
  <2>2. Req(c) \in ReadPageRequest BY <1>1, <2>1, Serves
  <2> QED BY <2>2 DEF ReadPageRequest
<1>4. f.req.movie = m BY <1>2
<1> HIDE DEF f, m
<1>5. ASSUME NEW e \in {"ro_read_movie_info", "ro_read_cast_infos", "ro_read_plot"}, NEW q
      PROVE  Seeks(f, e, q)
  <2>1. Frame(e, q).ep = e BY DEF Frame
  <2>2. SameReview(Frame(e, q), f) BY <2>1 DEF SameReview
  <2> QED BY <1>2, <2>2 DEF Seeks, StageOf
<1>6. CASE At(c, "start")
  <2> DEFINE q == [movie |-> m]
  <2>1. My(c) = <<>> BY <1>1, <1>6, Serves DEF LocalsAt
  <2>2. InvokeWith(c, "movieinfo", "ro_read_movie_info", q, "gotInfo", My(c))
    BY <1>1, <1>6 DEF ReadPage, At, Invoke, InvokeWith
  <2>3. RequestOf["ro_read_movie_info"] = ReadMovieInfoRequest BY DEF RequestOf
  <2>4. q \in RequestFor(c, "ro_read_movie_info")
    BY <1>3, <2>3 DEF RequestFor, ReadMovieInfoRequest, Uploading
  <2>5. My(c) \in LocalsAt(c, "ro_read_page", "gotInfo") BY <2>1 DEF LocalsAt
  <2>6. Seeks(f, "ro_read_movie_info", q) /\ "movieinfo" \in DOMAIN Endpoints BY <1>5 DEF Endpoints
  <2> HIDE DEF q
  <2> QED BY <1>1, <2>2, <2>4, <2>5, <2>6, SiteList, CallStep DEF f
<1>7. CASE At(c, "gotInfo")
  <2> DEFINE q == [casts |-> Res(c).info.casts]
             my == <<Res(c).info>>
  <2>1. Res(c).info \in MovieInfo
    <3>1. Res(c) \in ReplyTo(c, "ro_read_movie_info") BY <1>1, <1>7, Serves, SiteList
    <3>2. ReplyOf["ro_read_movie_info"] = ReadMovieInfoResponse BY DEF ReplyOf
    <3> QED BY <3>1, <3>2 DEF ReplyTo, ReadMovieInfoResponse
  <2>2. InvokeWith(c, "castinfo", "ro_read_cast_infos", q, "gotCasts", my)
    BY <1>1, <1>7 DEF ReadPage, At
  <2>3. RequestOf["ro_read_cast_infos"] = ReadCastInfosRequest BY DEF RequestOf
  <2>4. q \in RequestFor(c, "ro_read_cast_infos")
    <3>1. Res(c).info.casts \in Seq(Casts) BY <2>1 DEF MovieInfo
    <3> QED BY <2>3, <3>1 DEF RequestFor, ReadCastInfosRequest, Uploading
  <2>5. my \in LocalsAt(c, "ro_read_page", "gotCasts") BY <2>1 DEF LocalsAt
  <2>6. Seeks(f, "ro_read_cast_infos", q) /\ "castinfo" \in DOMAIN Endpoints BY <1>5 DEF Endpoints
  <2> HIDE DEF q, my
  <2> QED BY <1>1, <2>2, <2>4, <2>5, <2>6, SiteList, CallStep DEF f
<1>8. CASE At(c, "gotCasts")
  <2> DEFINE q == [plot |-> My(c)[1].plot]
             my == Append(My(c), Res(c).infos)
  <2>1. Res(c).infos \in Seq(CastInfo)
    <3>1. Res(c) \in ReplyTo(c, "ro_read_cast_infos") BY <1>1, <1>8, Serves, SiteList
    <3>2. ReplyOf["ro_read_cast_infos"] = ReadCastInfosResponse BY DEF ReplyOf
    <3> QED BY <3>1, <3>2 DEF ReplyTo, ReadCastInfosResponse
  <2>2. InvokeWith(c, "plot", "ro_read_plot", q, "gotPlot", my)
    BY <1>1, <1>8 DEF ReadPage, At
  <2>3. RequestOf["ro_read_plot"] = ReadPlotRequest BY DEF RequestOf
  <2>7. PICK info \in MovieInfo : My(c) = <<info>>
    <3>1. My(c) \in LocalsAt(c, "ro_read_page", "gotCasts") BY <1>1, <1>8, Serves
    <3> QED BY <3>1 DEF LocalsAt
  <2>4. q \in RequestFor(c, "ro_read_plot")
    <3>1. My(c)[1] = info BY <2>7
    <3>2. My(c)[1].plot \in Movies BY <3>1 DEF MovieInfo
    <3> QED BY <2>3, <3>2 DEF RequestFor, ReadPlotRequest, Uploading
  <2>5. my \in LocalsAt(c, "ro_read_page", "gotPlot")
    <3>1. my = <<info, Res(c).infos>> BY <2>7, AppendSecond
    <3> QED BY <2>1, <3>1 DEF LocalsAt
  <2>6. Seeks(f, "ro_read_plot", q) /\ "plot" \in DOMAIN Endpoints BY <1>5 DEF Endpoints
  <2> HIDE DEF q, my
  <2> QED BY <1>1, <2>2, <2>4, <2>5, <2>6, SiteList, CallStep DEF f
<1>9. CASE At(c, "gotPlot")
  <2> DEFINE q == [movie |-> m]
             my == Append(My(c), Res(c).plot)
  <2>1. Res(c).plot \in Movies
    <3>1. Res(c) \in ReplyTo(c, "ro_read_plot") BY <1>1, <1>9, Serves, SiteList
    <3>2. ReplyOf["ro_read_plot"] = ReadPlotResponse BY DEF ReplyOf
    <3> QED BY <3>1, <3>2 DEF ReplyTo, ReadPlotResponse
  <2>2. InvokeWith(c, "moviereviews", "ro_read_movie_reviews", q, "gotReviews", my)
    BY <1>1, <1>9 DEF ReadPage, At
  <2>3. RequestOf["ro_read_movie_reviews"] = ReadMovieReviewsRequest BY DEF RequestOf
  <2>4. q \in RequestFor(c, "ro_read_movie_reviews")
    BY <1>3, <2>3 DEF RequestFor, ReadMovieReviewsRequest, Uploading
  <2>5. my \in LocalsAt(c, "ro_read_page", "gotReviews")
    <3>1. My(c) \in MovieInfo \X Seq(CastInfo)
      <4>1. My(c) \in LocalsAt(c, "ro_read_page", "gotPlot") BY <1>1, <1>9, Serves
      <4> QED BY <4>1 DEF LocalsAt
    <3>2. PICK info \in MovieInfo, casts \in Seq(CastInfo) : My(c) = <<info, casts>> BY <3>1
    <3>3. my = <<info, casts, Res(c).plot>> BY <3>2, AppendThird
    <3> QED BY <2>1, <3>3 DEF LocalsAt
  <2>6. Seeks(f, "ro_read_movie_reviews", q)
    <3>1. Frame("ro_read_movie_reviews", q).ep = "ro_read_movie_reviews"
          /\ Frame("ro_read_movie_reviews", q).req = q
      BY DEF Frame
    <3>2. SameReview(Frame("ro_read_movie_reviews", q), f) BY <1>4, <3>1 DEF SameReview
    <3> QED BY <1>2, <3>2 DEF Seeks, StageOf
  <2>7. "moviereviews" \in DOMAIN Endpoints BY DEF Endpoints
  <2> HIDE DEF q, my
  <2> QED BY <1>1, <2>2, <2>4, <2>5, <2>6, <2>7, SiteList, CallStep DEF f
<1>10. CASE At(c, "gotReviews")
  <2> DEFINE page == [info |-> My(c)[1], casts |-> My(c)[2], plot |-> My(c)[3],
                      reviews |-> Res(c).reviews]
             r == [page |-> page]
  <2>1. Return(c, r) BY <1>1, <1>10 DEF ReadPage, At
  <2>2. Res(c).reviews \in Seq(Review \cup {NoReview})
    <3>1. Res(c) \in ReplyTo(c, "ro_read_movie_reviews") BY <1>1, <1>10, Serves, SiteList
    <3>2. ReplyOf["ro_read_movie_reviews"] = ReadMovieReviewsResponse BY DEF ReplyOf
    <3> QED BY <3>1, <3>2 DEF ReplyTo, ReadMovieReviewsResponse
  <2>3. My(c)[1] \in MovieInfo /\ My(c)[2] \in Seq(CastInfo) /\ My(c)[3] \in Movies
    <3>1. My(c) \in LocalsAt(c, "ro_read_page", "gotReviews") BY <1>1, <1>10, Serves
    <3>2. My(c) \in MovieInfo \X Seq(CastInfo) \X Movies BY <3>1 DEF LocalsAt
    <3>3. PICK i \in MovieInfo, s \in Seq(CastInfo), x \in Movies : My(c) = <<i, s, x>> BY <3>2
    <3> QED BY <3>3
  <2>4. page \in Page BY <2>2, <2>3 DEF Page
  <2>5. r.page = page /\ page.reviews = Res(c).reviews OBVIOUS
  <2> HIDE DEF page
  <2>6. r \in ReplyTo(c, "ro_read_page")
    <3>1. ReplyOf["ro_read_page"] = ReadPageResponse BY DEF ReplyOf
    <3> QED BY <2>4, <3>1 DEF ReplyTo, ReadPageResponse
  <2> HIDE DEF r
  <2>7. f.at = "gotReviews" BY <1>1, <1>10, Serves DEF f
  <2>8. Gives(f, r) BY <1>2, <2>5, <2>7 DEF Gives, Readers, Uploading
  <2> QED BY <1>1, <2>1, <2>6, <2>8, ReturnStep DEF f
<1>11. \/ At(c, "start") \/ At(c, "gotInfo") \/ At(c, "gotCasts") \/ At(c, "gotPlot")
       \/ At(c, "gotReviews")
  BY <1>1 DEF ReadPage
<1> QED BY <1>1, <1>6, <1>7, <1>8, <1>9, <1>10, <1>11

\* The steps that change the reviews and the indexes.
Stored(c) ==
  /\ call[c][1].ep = "store_review" /\ reviews' = SetState(reviews, c, call[c][1].req.review)
  /\ UNCHANGED indexes
MovieIndexed(c) ==
  LET f == call[c][1] IN
  /\ f.ep = "upload_movie_review" /\ f.at = "loaded" /\ UNCHANGED <<reviews, userReviews>>
  /\ movieReviews' = SetState(movieReviews, f.req.movie,
                              Append(DropOldest(f.my, MaxKept), [review |-> c]))
  /\ Appends(c, "movie", f.req.movie, c)
UserIndexed(c) ==
  LET f == call[c][1] IN
  /\ f.ep = "upload_user_review" /\ f.at = "loaded" /\ UNCHANGED <<reviews, movieReviews>>
  /\ userReviews' = SetState(userReviews, f.req.user,
                             Append(DropOldest(f.my, MaxKept), [review |-> c]))
  /\ Appends(c, "user", f.req.user, c)

\* A handler f that changes neither.
Quiet(f) == f.ep # "store_review" /\ (f.ep \in Uploading => f.at = "start")

\* What a handler answers, whatever it is.
Returns(c) == \E r \in ReplyTo(c, call[c][1].ep) : Return(c, r)

LEMMA StoreReviewStep ==
  ASSUME CallsOK, StatesOK, NEW c \in Clients, storeReview(c)
  PROVE  Step(c) /\ StatesOK' /\ Stored(c) /\ Returns(c)
<1> DEFINE f == call[c][1]
           v == Req(c).review
<1>1. /\ Serving(c, "store_review") /\ Return(c, [review |-> v.id])
      /\ reviews' = SetState(reviews, v.id, v) /\ UNCHANGED <<catalogue, users, indexes>>
  BY DEF storeReview, StoreReview
<1>2. f.ep = "store_review" /\ f.req = Req(c) BY <1>1, Serves
<1>3. v \in Review /\ v.id = c
  <2>1. RequestOf["store_review"] = StoreReviewRequest BY DEF RequestOf
  <2>2. Req(c) \in StoreReviewRequest /\ Req(c) \in RequestFor(c, "store_review")
    BY <1>1, <2>1, Serves
  <2> QED BY <2>2 DEF RequestFor, StoreReviewRequest
<1>4. v = f.req.review BY <1>2
<1> HIDE DEF f, v
<1>5. reviews' = SetState(reviews, c, v) BY <1>1, <1>3
<1>6. StateOf(reviews', ReviewIds, Review) /\ \A r \in DOMAIN reviews' : reviews'[r].id = r
  <2>1. StateOf(reviews, ReviewIds, Review) /\ \A r \in DOMAIN reviews : reviews[r].id = r
    BY DEF StatesOK
  <2>2. c \in ReviewIds BY DEF ReviewIds
  <2>3. StateOf(reviews', ReviewIds, Review) BY <1>3, <1>5, <2>1, <2>2, StoredType
  <2>4. /\ DOMAIN reviews' = DOMAIN reviews \cup {c} /\ reviews'[c] = v
        /\ \A r \in DOMAIN reviews : r # c => reviews'[r] = reviews[r]
    <3>1. /\ DOMAIN SetState(reviews, c, v) = DOMAIN reviews \cup {c}
          /\ SetState(reviews, c, v)[c] = v
          /\ \A r \in DOMAIN reviews : r # c => SetState(reviews, c, v)[r] = reviews[r]
      BY DEF SetState
    <3> QED BY <1>5, <3>1
  <2> QED BY <1>3, <2>1, <2>3, <2>4
<1>7. StatesOK' BY <1>1, <1>6 DEF StatesOK, StateOf, catalogue, indexes, KeptMovie, KeptUser
<1>8. ReplyOf["store_review"] = StoreReviewResponse BY DEF ReplyOf
<1>9. [review |-> v.id] \in ReplyTo(c, "store_review")
  BY <1>3, <1>8 DEF ReplyTo, StoreReviewResponse, ReviewIds
<1>10. Step(c) BY <1>1, <1>9, PlainGives, ReturnStep
<1>11. Stored(c) BY <1>1, <1>2, <1>4, <1>5 DEF Stored, f
<1>12. Returns(c) BY <1>1, <1>2, <1>9 DEF Returns, f
<1> QED BY <1>7, <1>10, <1>11, <1>12

LEMMA ReadReviewsStep ==
  ASSUME CallsOK, StatesOK, NEW c \in Clients, readReviews(c)
  PROVE  Step(c) /\ UNCHANGED state
<1> DEFINE f == call[c][1]
           ids == Req(c).reviews
           n == Len(My(c)) + 1
           v == IF Has(reviews, ids[n]) THEN GetState(reviews, ids[n]) ELSE NoReview
<1>1. Serving(c, "ro_read_reviews") /\ UNCHANGED state /\ ReadReviews(c, ids)
  BY DEF readReviews, ReadReviews
<1>2. f.ep = "ro_read_reviews" /\ f.req = Req(c) /\ f.my = My(c) /\ Head(call[c]) = f BY <1>1, Serves
<1>3. ids \in Seq(ReviewIds)
  <2>1. RequestOf["ro_read_reviews"] = ReadReviewsRequest BY DEF RequestOf
  <2>2. Req(c) \in ReadReviewsRequest BY <1>1, <2>1, Serves
  <2> QED BY <2>2 DEF ReadReviewsRequest
<1>4. My(c) \in Seq(Found) BY <1>1, Serves DEF LocalsAt
<1>5. f.at \in PlaceNames /\ Place("ro_read_reviews", f.at) /\ ~Waits("ro_read_reviews", f.at)
  <2>1. f \in Frames(c) BY <1>1, Serves
  <2>2. f.at \in PlaceNames /\ Place("ro_read_reviews", f.at) BY <1>2, <2>1, FrameParts
  <2>3. \A e : <<"ro_read_reviews", f.at, e>> \notin Sites BY DEF Sites
  <2> QED BY <2>2, <2>3 DEF Waits
<1>6. f.req.reviews = ids BY <1>2
<1>7. CASE GetBulkStateDefault(c, reviews, ids, NoReview)
  <2>1. n <= Len(ids) /\ Goto(c, f.at, Append(My(c), v)) BY <1>2, <1>7 DEF GetBulkStateDefault
  <2>2. n \in DOMAIN ids
    <3>1. Len(ids) \in Nat /\ DOMAIN ids = 1 .. Len(ids) /\ Len(My(c)) \in Nat
      BY <1>3, <1>4, LenProperties
    <3>2. \A a, b \in Nat : a + 1 <= b => a + 1 \in 1 .. b OBVIOUS
    <3> QED BY <2>1, <3>1, <3>2
  <2>3. v \in Found
    <3>1. StateOf(reviews, ReviewIds, Review) BY DEF StatesOK
    <3> QED BY <3>1 DEF StateOf, Has, GetState, Found
  <2>4. GoesTo(f, f.at, Append(My(c), v))
    <3>1. f.my = My(c) /\ n = Len(f.my) + 1 BY <1>2
    <3>2. "ro_read_reviews" \notin Uploading BY DEF Uploading
    <3> HIDE DEF f, ids
    <3> QED BY <1>2, <1>6, <2>2, <3>1, <3>2 DEF GoesTo
  <2>5. Append(My(c), v) \in LocalsAt(c, "ro_read_reviews", f.at)
    <3> HIDE DEF v, f
    <3>1. Append(My(c), v) \in Seq(Found) BY <1>4, <2>3, AppendProperties
    <3> QED BY <3>1 DEF LocalsAt
  <2> HIDE DEF v, n
  <2> QED BY <1>1, <1>5, <2>1, <2>4, <2>5, GotoStep
<1>8. CASE AllRead(c, ids) /\ Return(c, [reviews |-> My(c)])
  <2>1. ReplyOf["ro_read_reviews"] = ReadReviewsResponse BY DEF ReplyOf
  <2>2. [reviews |-> My(c)] \in ReplyTo(c, "ro_read_reviews")
    BY <1>4, <2>1 DEF ReplyTo, ReadReviewsResponse, Found
  <2>3. Gives(f, [reviews |-> My(c)])
    <3>1. f.my = My(c) BY <1>2
    <3> HIDE DEF f
    <3> QED BY <1>2, <3>1 DEF Gives, Readers, Uploading
  <2> QED BY <1>1, <1>8, <2>2, <2>3, ReturnStep
<1> QED BY <1>1, <1>7, <1>8 DEF ReadReviews

LEMMA ReadCastInfosStep ==
  ASSUME CallsOK, StatesOK, NEW c \in Clients, readCastInfos(c)
  PROVE  Step(c) /\ UNCHANGED state
<1> DEFINE f == call[c][1]
           names == Req(c).casts
           n == Len(My(c)) + 1
           v == IF Has(castInfos, names[n]) THEN GetState(castInfos, names[n]) ELSE [cast |-> "none"]
<1>1. Serving(c, "ro_read_cast_infos") /\ UNCHANGED state /\ ReadCastInfos(c, names)
  BY DEF readCastInfos, ReadCastInfos
<1>2. f.ep = "ro_read_cast_infos" /\ Head(call[c]) = f BY <1>1, Serves
<1>4. My(c) \in Seq(CastInfo) BY <1>1, Serves DEF LocalsAt
<1>5. f.at \in PlaceNames /\ Place("ro_read_cast_infos", f.at) /\ ~Waits("ro_read_cast_infos", f.at)
  <2>1. f \in Frames(c) BY <1>1, Serves
  <2>2. f.at \in PlaceNames /\ Place("ro_read_cast_infos", f.at) BY <1>2, <2>1, FrameParts
  <2>3. \A e : <<"ro_read_cast_infos", f.at, e>> \notin Sites BY DEF Sites
  <2> QED BY <2>2, <2>3 DEF Waits
<1>7. CASE GetBulkStateDefault(c, castInfos, names, [cast |-> "none"])
  <2>1. Goto(c, f.at, Append(My(c), v)) BY <1>2, <1>7 DEF GetBulkStateDefault
  <2>3. v \in CastInfo
    <3>1. StateOf(castInfos, Casts, CastInfo) BY DEF StatesOK
    <3>2. [cast |-> "none"] \in CastInfo BY DEF CastInfo
    <3> QED BY <3>1, <3>2 DEF StateOf, Has, GetState
  <2>4. GoesTo(f, f.at, Append(My(c), v))
    <3> HIDE DEF f
    <3> QED BY <1>2 DEF GoesTo
  <2>5. Append(My(c), v) \in LocalsAt(c, "ro_read_cast_infos", f.at)
    <3> HIDE DEF v, f
    <3>1. Append(My(c), v) \in Seq(CastInfo) BY <1>4, <2>3, AppendProperties
    <3> QED BY <3>1 DEF LocalsAt
  <2> HIDE DEF v
  <2> QED BY <1>1, <1>5, <2>1, <2>4, <2>5, GotoStep
<1>8. CASE AllRead(c, names) /\ Return(c, [infos |-> My(c)])
  <2>1. ReplyOf["ro_read_cast_infos"] = ReadCastInfosResponse BY DEF ReplyOf
  <2>2. [infos |-> My(c)] \in ReplyTo(c, "ro_read_cast_infos")
    BY <1>4, <2>1 DEF ReplyTo, ReadCastInfosResponse
  <2>3. Gives(f, [infos |-> My(c)])
    <3> HIDE DEF f
    <3> QED BY <1>2 DEF Gives, Readers, Uploading
  <2> QED BY <1>1, <1>8, <2>2, <2>3, ReturnStep
<1> QED BY <1>1, <1>7, <1>8 DEF ReadCastInfos

\* The lists of the indexes.
LEMMA Lists ==
  ASSUME StatesOK
  PROVE  /\ \A m : getMovieReviews(m) \in KeptMovie
         /\ \A u : getUserReviews(u) \in KeptUser
<1>1. <<>> \in KeptMovie /\ <<>> \in KeptUser
  BY MovieAssumption, EmptySeq DEF KeptMovie, KeptUser
<1> QED BY <1>1 DEF StatesOK, StateOf, getMovieReviews, getUserReviews, Has, GetState

LEMMA UploadMovieReviewStep ==
  ASSUME CallsOK, StatesOK, NEW c \in Clients, uploadMovieReview(c)
  PROVE  /\ Step(c) /\ StatesOK'
         /\ \/ UNCHANGED <<reviews, indexes>> /\ Quiet(call[c][1])
            \/ MovieIndexed(c) /\ Returns(c)
<1> DEFINE f == call[c][1]
           m == Req(c).movie
<1>1. Serving(c, "upload_movie_review") /\ UploadMovieReview(c, m, Req(c).review)
  BY DEF uploadMovieReview
<1>2. f.ep = "upload_movie_review" /\ f.req = Req(c) /\ f.my = My(c) BY <1>1, Serves
<1>3. m \in Movies /\ Req(c).review = c
  <2>1. RequestOf["upload_movie_review"] = UploadMovieReviewRequest BY DEF RequestOf
  <2>2. Req(c) \in UploadMovieReviewRequest /\ Req(c) \in RequestFor(c, "upload_movie_review")
    BY <1>1, <2>1, Serves
  <2> QED BY <2>2 DEF UploadMovieReviewRequest, RequestFor, Uploading
<1>4. f.req.movie = m BY <1>2
<1>5. CASE At(c, "start")
  <2>1. /\ Goto(c, "loaded", getMovieReviews(m))
        /\ UNCHANGED <<catalogue, users, reviews, indexes>>
    BY <1>1, <1>5 DEF UploadMovieReview, At, indexes
  <2>2. GoesTo(f, "loaded", getMovieReviews(m))
    <3> HIDE DEF f, m
    <3> QED BY <1>2, <1>4 DEF GoesTo, Uploading
  <2>3. getMovieReviews(m) \in LocalsAt(c, "upload_movie_review", "loaded") BY Lists DEF LocalsAt
  <2>4. /\ "loaded" \in PlaceNames /\ Place("upload_movie_review", "loaded")
        /\ ~Waits("upload_movie_review", "loaded")
    <3>1. \A e : <<"upload_movie_review", "loaded", e>> \notin Sites BY DEF Sites
    <3> QED BY <3>1 DEF PlaceNames, Place, Waits, Uploading
  <2> HIDE DEF m
  <2>5. Step(c) BY <1>1, <2>1, <2>2, <2>3, <2>4, GotoStep
  <2>6. StatesOK' BY <2>1, StatesStay DEF state
  <2>7. f.at = "start" BY <1>1, <1>5, Serves
  <2>8. Quiet(f)
    <3> HIDE DEF f
    <3> QED BY <1>2, <2>7 DEF Quiet, Uploading
  <2> QED BY <2>1, <2>5, <2>6, <2>8
<1>6. CASE At(c, "loaded")
  <2> DEFINE new == Append(DropOldest(My(c), MaxKept), [review |-> c])
  <2>1. /\ Return(c, [review |-> m]) /\ movieReviews' = SetState(movieReviews, m, new)
        /\ Appends(c, "movie", m, c) /\ UNCHANGED <<catalogue, users, reviews, userReviews>>
    BY <1>1, <1>3, <1>6 DEF UploadMovieReview, At
  <2>2. My(c) \in KeptMovie BY <1>1, <1>6, Serves DEF LocalsAt
  <2>3. new \in KeptMovie
    <3>1. [review |-> c] \in MovieReview BY DEF MovieReview, ReviewIds
    <3>2. My(c) \in Seq(MovieReview) /\ Len(My(c)) <= MaxKept /\ MaxKept \in Nat \ {0}
      BY <2>2, MovieAssumption DEF KeptMovie
    <3> QED BY <3>1, <3>2, KeptList DEF KeptMovie
  <2>4. MovieIndexed(c)
    <3>1. f.at = "loaded" BY <1>1, <1>6, Serves
    <3> QED BY <1>2, <1>4, <2>1, <3>1 DEF MovieIndexed
  <2> HIDE DEF new
  <2>5. StatesOK'
    <3>1. StateOf(movieReviews, Movies, KeptMovie) BY DEF StatesOK
    <3>2. StateOf(movieReviews', Movies, KeptMovie) BY <1>3, <2>1, <2>3, <3>1, StoredType
    <3> QED BY <2>1, <3>2 DEF StatesOK, StateOf, catalogue, KeptMovie, KeptUser
  <2>6. ReplyOf["upload_movie_review"] = UploadMovieReviewResponse BY DEF ReplyOf
  <2>7. [review |-> m] \in ReplyTo(c, "upload_movie_review")
    BY <1>3, <2>6 DEF ReplyTo, UploadMovieReviewResponse
  <2>8. Gives(f, [review |-> m])
    <3>1. f.at = "loaded" BY <1>1, <1>6, Serves
    <3> HIDE DEF f
    <3> QED BY <1>2, <3>1 DEF Gives, Readers
  <2>9. Step(c) BY <1>1, <2>1, <2>7, <2>8, ReturnStep
  <2>10. Returns(c) BY <1>2, <2>1, <2>7 DEF Returns
  <2> QED BY <2>4, <2>5, <2>9, <2>10
<1> QED BY <1>1, <1>5, <1>6 DEF UploadMovieReview

LEMMA UploadUserReviewStep ==
  ASSUME CallsOK, StatesOK, NEW c \in Clients, uploadUserReview(c)
  PROVE  /\ Step(c) /\ StatesOK'
         /\ \/ UNCHANGED <<reviews, indexes>> /\ Quiet(call[c][1])
            \/ UserIndexed(c) /\ Returns(c)
<1> DEFINE f == call[c][1]
           m == Req(c).user
<1>1. Serving(c, "upload_user_review") /\ UploadUserReview(c, m, Req(c).review)
  BY DEF uploadUserReview
<1>2. f.ep = "upload_user_review" /\ f.req = Req(c) /\ f.my = My(c) BY <1>1, Serves
<1>3. m \in UserIds /\ Req(c).review = c
  <2>1. RequestOf["upload_user_review"] = UploadUserReviewRequest BY DEF RequestOf
  <2>2. Req(c) \in UploadUserReviewRequest /\ Req(c) \in RequestFor(c, "upload_user_review")
    BY <1>1, <2>1, Serves
  <2> QED BY <2>2 DEF UploadUserReviewRequest, RequestFor, Uploading
<1>4. f.req.user = m BY <1>2
<1>5. CASE At(c, "start")
  <2>1. /\ Goto(c, "loaded", getUserReviews(m))
        /\ UNCHANGED <<catalogue, users, reviews, indexes>>
    BY <1>1, <1>5 DEF UploadUserReview, At, indexes
  <2>2. GoesTo(f, "loaded", getUserReviews(m))
    <3> HIDE DEF f, m
    <3> QED BY <1>2, <1>4 DEF GoesTo, Uploading
  <2>3. getUserReviews(m) \in LocalsAt(c, "upload_user_review", "loaded") BY Lists DEF LocalsAt
  <2>4. /\ "loaded" \in PlaceNames /\ Place("upload_user_review", "loaded")
        /\ ~Waits("upload_user_review", "loaded")
    <3>1. \A e : <<"upload_user_review", "loaded", e>> \notin Sites BY DEF Sites
    <3> QED BY <3>1 DEF PlaceNames, Place, Waits, Uploading
  <2> HIDE DEF m
  <2>5. Step(c) BY <1>1, <2>1, <2>2, <2>3, <2>4, GotoStep
  <2>6. StatesOK' BY <2>1, StatesStay DEF state
  <2>7. f.at = "start" BY <1>1, <1>5, Serves
  <2>8. Quiet(f)
    <3> HIDE DEF f
    <3> QED BY <1>2, <2>7 DEF Quiet, Uploading
  <2> QED BY <2>1, <2>5, <2>6, <2>8
<1>6. CASE At(c, "loaded")
  <2> DEFINE new == Append(DropOldest(My(c), MaxKept), [review |-> c])
  <2>1. /\ Return(c, [review |-> m]) /\ userReviews' = SetState(userReviews, m, new)
        /\ Appends(c, "user", m, c) /\ UNCHANGED <<catalogue, users, reviews, movieReviews>>
    BY <1>1, <1>3, <1>6 DEF UploadUserReview, At
  <2>2. My(c) \in KeptUser BY <1>1, <1>6, Serves DEF LocalsAt
  <2>3. new \in KeptUser
    <3>1. [review |-> c] \in UserReview BY DEF UserReview, ReviewIds
    <3>2. My(c) \in Seq(UserReview) /\ Len(My(c)) <= MaxKept /\ MaxKept \in Nat \ {0}
      BY <2>2, MovieAssumption DEF KeptUser
    <3> QED BY <3>1, <3>2, KeptList DEF KeptUser
  <2>4. UserIndexed(c)
    <3>1. f.at = "loaded" BY <1>1, <1>6, Serves
    <3> QED BY <1>2, <1>4, <2>1, <3>1 DEF UserIndexed
  <2> HIDE DEF new
  <2>5. StatesOK'
    <3>1. StateOf(userReviews, UserIds, KeptUser) BY DEF StatesOK
    <3>2. StateOf(userReviews', UserIds, KeptUser) BY <1>3, <2>1, <2>3, <3>1, StoredType
    <3> QED BY <2>1, <3>2 DEF StatesOK, StateOf, catalogue, KeptMovie, KeptUser
  <2>6. ReplyOf["upload_user_review"] = UploadUserReviewResponse BY DEF ReplyOf
  <2>7. [review |-> m] \in ReplyTo(c, "upload_user_review")
    BY <1>3, <2>6 DEF ReplyTo, UploadUserReviewResponse
  <2>8. Gives(f, [review |-> m])
    <3>1. f.at = "loaded" BY <1>1, <1>6, Serves
    <3> HIDE DEF f
    <3> QED BY <1>2, <3>1 DEF Gives, Readers
  <2>9. Step(c) BY <1>1, <2>1, <2>7, <2>8, ReturnStep
  <2>10. Returns(c) BY <1>2, <2>1, <2>7 DEF Returns
  <2> QED BY <2>4, <2>5, <2>9, <2>10
<1> QED BY <1>1, <1>5, <1>6 DEF UploadUserReview

LEMMA IdsOf ==
  ASSUME NEW list \in Seq([review : ReviewIds])
  PROVE  /\ Ids(list) \in Seq(ReviewIds) /\ Len(Ids(list)) = Len(list)
         /\ DOMAIN Ids(list) = DOMAIN list /\ DOMAIN list = 1 .. Len(list)
         /\ \A i \in DOMAIN list : Ids(list)[i] = list[i].review
<1>1. Len(list) \in Nat /\ DOMAIN list = 1 .. Len(list) /\ \A i \in 1 .. Len(list) : list[i] \in [review : ReviewIds]
  BY LenProperties, ElementOfSeq
<1>2. \A i \in 1 .. Len(list) : list[i].review \in ReviewIds BY <1>1
<1>3. Ids(list) = [i \in 1 .. Len(list) |-> list[i].review] BY <1>1 DEF Ids
<1>4. Ids(list) \in Seq(ReviewIds) BY <1>1, <1>2, <1>3, IsASeq
<1>5. DOMAIN Ids(list) = 1 .. Len(list) BY <1>3
<1>6. Len(Ids(list)) = Len(list) BY <1>1, <1>4, <1>5, LenProperties
<1> QED BY <1>1, <1>3, <1>4, <1>5, <1>6

LEMMA ReadIndexedStep ==
  ASSUME CallsOK, NEW c \in Clients, NEW e \in Readers, Serving(c, e), NEW list \in Seq([review : ReviewIds]),
         \/ e = "ro_read_movie_reviews" /\ list = getMovieReviews(Req(c).movie)
         \/ e = "ro_read_user_reviews" /\ list = getUserReviews(Req(c).user),
         ReadIndexed(c, list)
  PROVE  Step(c) /\ UNCHANGED state
<1> DEFINE f == call[c][1]
           q == [reviews |-> Ids(list)]
<1>1. f.ep = e /\ f.req = Req(c) /\ f.res = Res(c) BY Serves
<1>2. UNCHANGED state BY DEF ReadIndexed
<1>3. <<e, "gotReviews", "ro_read_reviews">> \in Sites BY SiteList DEF Readers
<1>4. CASE At(c, "start")
  <2>1. InvokeWith(c, "reviewstorage", "ro_read_reviews", q, "gotReviews", My(c))
    BY <1>4 DEF ReadIndexed, At, Invoke, InvokeWith
  <2>2. My(c) = <<>> BY <1>4, Serves DEF LocalsAt, Readers
  <2>3. My(c) \in LocalsAt(c, e, "gotReviews") BY <2>2 DEF LocalsAt, Readers
  <2>4. RequestOf["ro_read_reviews"] = ReadReviewsRequest BY DEF RequestOf
  <2>5. q \in RequestFor(c, "ro_read_reviews")
    BY <2>4, IdsOf DEF ReadReviewsRequest, RequestFor, Uploading
  <2>6. Frame("ro_read_reviews", q).ep = "ro_read_reviews" BY DEF Frame
  <2>7. q.reviews = Ids(list) OBVIOUS
  <2>8. /\ e = "ro_read_movie_reviews" => list = getMovieReviews(f.req.movie)
        /\ e = "ro_read_user_reviews" => list = getUserReviews(f.req.user)
    BY <1>1
  <2> HIDE DEF f, q
  <2>9. Seeks(f, "ro_read_reviews", q)
    <3>1. SameReview(Frame("ro_read_reviews", q), f) BY <2>6 DEF SameReview
    <3>2. StageOf("ro_read_reviews", "start") = 0 /\ StageOf(f.ep, f.at) = 0
      BY <1>1 DEF StageOf, Readers
    <3> QED BY <1>1, <2>7, <2>8, <3>1, <3>2 DEF Seeks
  <2>10. "reviewstorage" \in DOMAIN Endpoints BY DEF Endpoints
  <2> QED BY <1>2, <1>3, <2>1, <2>3, <2>5, <2>9, <2>10, CallStep DEF f
<1>5. CASE At(c, "gotReviews")
  <2>1. Return(c, Res(c)) BY <1>5 DEF ReadIndexed, At
  <2>2. Res(c) \in ReplyTo(c, "ro_read_reviews") BY <1>3, <1>5, Serves
  <2>3. /\ ReplyOf["ro_read_reviews"] = ReadReviewsResponse
        /\ ReplyOf["ro_read_movie_reviews"] = ReadMovieReviewsResponse
        /\ ReplyOf["ro_read_user_reviews"] = ReadUserReviewsResponse
    BY DEF ReplyOf
  <2>4. Res(c) \in ReplyTo(c, e)
    BY <2>2, <2>3 DEF ReplyTo, Readers, ReadReviewsResponse, ReadMovieReviewsResponse, ReadUserReviewsResponse
  <2>5. f.at = "gotReviews" BY <1>5, Serves
  <2>6. Gives(f, Res(c))
    <3>1. f.res.reviews = Res(c).reviews BY <1>1
    <3> HIDE DEF f
    <3> QED BY <1>1, <2>5, <3>1 DEF Gives, Readers, Uploading
  <2> QED BY <1>2, <2>1, <2>4, <2>6, ReturnStep
<1> QED BY <1>4, <1>5 DEF ReadIndexed

LEMMA ReadMovieReviewsStep ==
  ASSUME CallsOK, StatesOK, NEW c \in Clients, readMovieReviews(c)
  PROVE  Step(c) /\ UNCHANGED state
<1>1. Serving(c, "ro_read_movie_reviews") /\ ReadIndexed(c, getMovieReviews(Req(c).movie))
  BY DEF readMovieReviews, ReadMovieReviews
<1>2. getMovieReviews(Req(c).movie) \in Seq([review : ReviewIds])
  BY Lists DEF KeptMovie, MovieReview
<1>3. "ro_read_movie_reviews" \in Readers BY DEF Readers
<1> QED BY <1>1, <1>2, <1>3, ReadIndexedStep

LEMMA ReadUserReviewsStep ==
  ASSUME CallsOK, StatesOK, NEW c \in Clients, readUserReviews(c)
  PROVE  Step(c) /\ UNCHANGED state
<1>1. Serving(c, "ro_read_user_reviews") /\ ReadIndexed(c, getUserReviews(Req(c).user))
  BY DEF readUserReviews, ReadUserReviews
<1>2. getUserReviews(Req(c).user) \in Seq([review : ReviewIds])
  BY Lists DEF KeptUser, UserReview
<1>3. "ro_read_user_reviews" \in Readers BY DEF Readers
<1> QED BY <1>1, <1>2, <1>3, ReadIndexedStep

-----------------------------------------------------------------------------
(* Clients, services that begin to listen, and the initial values. *)

\* A request of a client, to one of the endpoints it uses.
Asked(c) == \E e \in DOMAIN ResponseOf : \E q \in RequestFor(c, e) : Asks(c, e, q)

LEMMA AsksStep ==
  ASSUME CallsOK, NEW c \in Clients, NEW e \in DOMAIN ResponseOf, NEW q \in RequestFor(c, e),
         Asks(c, e, q)
  PROVE  /\ CallsOK' /\ UNCHANGED answer /\ answer[c].ep = "none" /\ call[c] = <<>>
         /\ call'[c] # <<>> /\ call'[c][1] = Frame(e, q)
         /\ \A d \in Clients : d # c => call'[d] = call[d]
<1> DEFINE f == Frame(e, q)
<1>1. /\ call[c] = <<>> /\ answer[c].ep = "none" /\ UNCHANGED <<up, answer>>
      /\ call' = [call EXCEPT ![c] = <<f>>]
  BY DEF Asks, Idle
<1>2. f \in Frames(c) /\ f \in Heads(c) /\ f.ep = e
  <2>1. e \in Eps BY Replies
  <2> QED BY <2>1, FrameStarts
<1>3. f \in Bottoms(c) BY <1>2 DEF Bottoms
<1> HIDE DEF f
<1>4. <<f>> \in Calls(c) /\ <<f>> # <<>> /\ <<f>>[1] = f
  <2>1. <<f>> \in Seq(Frames(c)) /\ Len(<<f>>) = 1 /\ <<f>>[1] = f BY <1>2
  <2> QED BY <1>2, <1>3, <2>1 DEF Calls, Stacks
<1>5. call = [d \in Clients |-> call[d]] /\ \A d \in Clients : call[d] \in Calls(d) BY DEF CallsOK
<1>6. /\ call' = [d \in Clients |-> call'[d]] /\ call'[c] = <<f>>
      /\ \A d \in Clients : d # c => call'[d] = call[d]
  BY <1>1, <1>5
<1>7. DOMAIN call' = Clients /\ \A d \in Clients : call'[d] \in Calls(d) BY <1>4, <1>5, <1>6
<1>8. CallsOK' BY <1>1, <1>6, <1>7 DEF CallsOK
<1> QED BY <1>1, <1>4, <1>6, <1>8 DEF f

LEMMA ClientAsks ==
  ASSUME StatesOK, NEW c \in Clients, Client(c)
  PROVE  Asked(c) /\ UNCHANGED state
<1>1. UNCHANGED state BY DEF Client
<1>2. ASSUME NEW e \in DOMAIN ResponseOf, NEW q \in RequestOf[e], AsksServed(c, e, q)
      PROVE  Asked(c)
  <2>1. e \notin {"compose_review", "store_review"} /\ e \notin Uploading BY Names DEF Uploading
  <2>2. q \in RequestFor(c, e) BY <2>1 DEF RequestFor
  <2> QED BY <1>2, <2>2 DEF Asked, AsksServed
<1>3. ASSUME NEW q \in ComposeRequest, AsksServed(c, "compose", q) PROVE Asked(c)
  <2>1. q \in RequestOf["compose"] BY DEF RequestOf
  <2> QED BY <1>2, <1>3, <2>1, Names
<1>4. ASSUME NEW q \in RegisterUserRequest, AsksServed(c, "register_user", q) PROVE Asked(c)
  <2>1. q \in RequestOf["register_user"] BY DEF RequestOf
  <2> QED BY <1>2, <1>4, <2>1, Names
<1>5. ASSUME NEW q \in RegisterMovieIdRequest, AsksServed(c, "register_movie_id", q) PROVE Asked(c)
  <2>1. q \in RequestOf["register_movie_id"] BY DEF RequestOf
  <2> QED BY <1>2, <1>5, <2>1, Names
<1>6. ASSUME NEW m \in Movies, AsksServed(c, "ro_read_page", [movie |-> m]) PROVE Asked(c)
  <2>1. [movie |-> m] \in RequestOf["ro_read_page"]
    <3>1. RequestOf["ro_read_page"] = ReadPageRequest BY DEF RequestOf
    <3> QED BY <3>1 DEF ReadPageRequest
  <2> QED BY <1>2, <1>6, <2>1, Names
<1>7. ASSUME NEW m \in Movies, AsksServed(c, "write_plot", [plot |-> m]) PROVE Asked(c)
  <2>1. [plot |-> m] \in RequestOf["write_plot"]
    <3>1. RequestOf["write_plot"] = WritePlotRequest BY DEF RequestOf
    <3> QED BY <3>1 DEF WritePlotRequest
  <2> QED BY <1>2, <1>7, <2>1, Names
<1>8. ASSUME NEW m \in Movies,
             AsksServed(c, "store_movie_info", [movie |-> m, casts |-> <<>>, plot |-> m])
      PROVE  Asked(c)
  <2>1. [movie |-> m, casts |-> <<>>, plot |-> m] \in RequestOf["store_movie_info"]
    <3>1. RequestOf["store_movie_info"] = StoreMovieInfoRequest BY DEF RequestOf
    <3>2. <<>> \in Seq(Casts) BY EmptySeq
    <3> QED BY <3>1, <3>2 DEF StoreMovieInfoRequest
  <2> QED BY <1>2, <1>8, <2>1, Names
<1>9. ASSUME NEW a \in Casts \ KnownCasts, AsksServed(c, "store_cast_info", [cast |-> a])
      PROVE  Asked(c)
  <2>1. [cast |-> a] \in RequestOf["store_cast_info"]
    <3>1. RequestOf["store_cast_info"] = StoreCastInfoRequest BY DEF RequestOf
    <3> QED BY <3>1 DEF StoreCastInfoRequest
  <2> QED BY <1>2, <1>9, <2>1, Names
<1>10. ASSUME NEW u \in DOMAIN users, AsksServed(c, "ro_read_user_reviews", [user |-> users[u].id])
       PROVE  Asked(c)
  <2>1. [user |-> users[u].id] \in RequestOf["ro_read_user_reviews"]
    <3>1. RequestOf["ro_read_user_reviews"] = ReadUserReviewsRequest BY DEF RequestOf
    <3>2. users[u] \in User BY DEF StatesOK, StateOf
    <3>3. users[u].id \in UserIds BY <3>2 DEF User
    <3> QED BY <3>1, <3>3 DEF ReadUserReviewsRequest
  <2> QED BY <1>2, <1>10, <2>1, Names
<1> QED BY <1>1, <1>3, <1>4, <1>5, <1>6, <1>7, <1>8, <1>9, <1>10 DEF Client

LEMMA InitialValues ==
  /\ StateOf(populateMovieIds, Titles, Movies) /\ StateOf(populateMovieInfos, Movies, MovieInfo)
  /\ StateOf(populateCasts, Casts, CastInfo) /\ StateOf(populatePlots, Movies, Movies)
  /\ StateOf(populateUsers, Users, User)
<1> DEFINE Entry == [movie : Movies, title : Titles, cast : Seq(Casts)]
<1>1. /\ Len(Catalog) \in Nat /\ DOMAIN Catalog = 1 .. Len(Catalog)
      /\ \A i \in DOMAIN Catalog : Catalog[i] \in Entry
  <2>1. Catalog \in Seq(Entry) BY MovieAssumption
  <2> HIDE DEF Entry
  <2> QED BY <2>1, LenProperties, ElementOfSeq
<1>2. \A i \in DOMAIN Catalog : /\ Catalog[i].movie \in Movies /\ Catalog[i].title \in Titles
                                /\ Catalog[i].cast \in Seq(Casts)
  BY <1>1
<1>3. StateOf(populateMovieIds, Titles, Movies)
  <2> SUFFICES ASSUME NEW t \in {Catalog[i].title : i \in DOMAIN Catalog}
               PROVE  t \in Titles /\ populateMovieIds[t] \in Movies
    BY DEF StateOf, populateMovieIds
  <2> DEFINE Of == {i \in DOMAIN Catalog : Catalog[i].title = t}
             Last(i) == /\ Catalog[i].title = t
                        /\ \A j \in DOMAIN Catalog : Catalog[j].title = t => j <= i
             last == CHOOSE i \in DOMAIN Catalog : Last(i)
  <2>1. Of \in SUBSET Int /\ Of # {} /\ Of \subseteq DOMAIN Catalog BY <1>1
  <2>2. IsFiniteSet(Of)
    <3>1. IsFiniteSet(DOMAIN Catalog) BY <1>1, FS_Interval
    <3> QED BY <2>1, <3>1, FS_Subset
  <2>3. \E i \in DOMAIN Catalog : Last(i)
    <3>1. Max(Of) \in Of /\ \A y \in Of : y <= Max(Of)
      <4> HIDE DEF Of
      <4> QED BY <2>1, <2>2, MaxExists
    <3> QED BY <3>1
  <2>4. last \in DOMAIN Catalog BY <2>3
  <2>5. populateMovieIds[t] = Catalog[last].movie BY DEF populateMovieIds
  <2> HIDE DEF last
  <2> QED BY <1>2, <2>4, <2>5
<1>4. StateOf(populateMovieInfos, Movies, MovieInfo)
  <2> SUFFICES ASSUME NEW m \in {Catalog[i].movie : i \in DOMAIN Catalog}
               PROVE  m \in Movies /\ populateMovieInfos[m] \in MovieInfo
    BY DEF StateOf, populateMovieInfos
  <2> DEFINE entry == CHOOSE i \in DOMAIN Catalog : Catalog[i].movie = m
  <2>1. entry \in DOMAIN Catalog OBVIOUS
  <2>2. populateMovieInfos[m] = [movie |-> m, casts |-> Catalog[entry].cast, plot |-> m]
    BY DEF populateMovieInfos
  <2> HIDE DEF entry
  <2> QED BY <1>2, <2>1, <2>2 DEF MovieInfo
<1>5. StateOf(populateCasts, Casts, CastInfo) BY MovieAssumption DEF StateOf, populateCasts, CastInfo
<1>6. StateOf(populatePlots, Movies, Movies) BY <1>2 DEF StateOf, populatePlots
<1>7. StateOf(populateUsers, Users, User)
  BY MovieAssumption DEF StateOf, populateUsers, User, UserIds, hash
<1> QED BY <1>3, <1>4, <1>5, <1>6, <1>7

LEMMA InitOK == Init => CallsOK /\ StatesOK
<1> SUFFICES ASSUME Init PROVE CallsOK /\ StatesOK OBVIOUS
<1>1. StatesOK
  <2>1. \A K, V : StateOf(<<>>, K, V) BY DEF StateOf
  <2> QED BY <2>1, InitialValues DEF Init, StatesOK
<1> DEFINE a == [ep |-> "none", req |-> <<>>, ok |-> FALSE, res |-> <<>>]
<1>2. call = [c \in Clients |-> <<>>] /\ answer = [c \in Clients |-> a]
  BY DEF Init, InitServices
<1>3. \A c : <<>> \in Calls(c) BY EmptySeq DEF Calls, Stacks
<1>4. a \in Answers BY DEF Answers, Results
<1>5. a.ok = FALSE OBVIOUS
<1> HIDE DEF a
<1>6. CallsOK BY <1>2, <1>3, <1>4, <1>5 DEF CallsOK
<1> QED BY <1>1, <1>6

\* What a step of a handler does to the reviews and the indexes.
Handled(c) ==
  /\ call[c] # <<>> /\ Step(c)
  /\ \/ UNCHANGED <<reviews, indexes>> /\ Quiet(call[c][1])
     \/ (Stored(c) \/ MovieIndexed(c) \/ UserIndexed(c)) /\ Returns(c)

LEMMA HandleStep ==
  ASSUME CallsOK, StatesOK, NEW c \in Clients, Handle(c)
  PROVE  Handled(c) /\ StatesOK'
<1>1. call[c] # <<>>
  BY DEF Handle, compose, composeReview, getUniqueId, registerUser, login, getUserId,
         registerMovieId, getMovieId, storeReview, readReviews, uploadMovieReview, readMovieReviews,
         uploadUserReview, readUserReviews, storeMovieInfo, readMovieInfo, storeCastInfo,
         readCastInfos, writePlot, readPlot, readPage, Serving
<1>2. ASSUME Step(c), UNCHANGED state, Quiet(call[c][1]) PROVE Handled(c) /\ StatesOK'
  <2>1. UNCHANGED <<reviews, indexes>> BY <1>2 DEF state
  <2> QED BY <1>1, <1>2, <2>1, StatesStay DEF Handled
<1>8. ASSUME NEW e, Serving(c, e), e \notin {"store_review"} \cup Uploading PROVE Quiet(call[c][1])
  BY <1>8, Serves DEF Quiet
<1>3. CASE \/ compose(c) \/ composeReview(c) \/ getUniqueId(c) \/ login(c) \/ getUserId(c)
           \/ getMovieId(c) \/ readReviews(c) \/ readMovieReviews(c) \/ readUserReviews(c)
           \/ readMovieInfo(c) \/ readCastInfos(c) \/ readPlot(c) \/ readPage(c)
  <2>1. Quiet(call[c][1])
    BY <1>3, <1>8 DEF Uploading, compose, composeReview, getUniqueId, login, getUserId, getMovieId,
         readReviews, readMovieReviews, readUserReviews, readMovieInfo, readCastInfos, readPlot, readPage
  <2> QED BY <1>2, <1>3, <2>1, ComposeStep, ComposeReviewStep, GetUniqueIdStep, LoginStep, GetUserIdStep,
     GetMovieIdStep, ReadReviewsStep, ReadMovieReviewsStep, ReadUserReviewsStep,
     ReadMovieInfoStep, ReadCastInfosStep, ReadPlotStep, ReadPageStep
<1>4. CASE \/ registerUser(c) \/ registerMovieId(c) \/ storeMovieInfo(c) \/ storeCastInfo(c)
           \/ writePlot(c)
  <2>1. Quiet(call[c][1])
    BY <1>4, <1>8 DEF Uploading, registerUser, registerMovieId, storeMovieInfo, storeCastInfo, writePlot
  <2> QED BY <1>1, <1>4, <2>1, RegisterUserStep, RegisterMovieIdStep, StoreMovieInfoStep, StoreCastInfoStep,
     WritePlotStep DEF Handled
<1>5. CASE storeReview(c) BY <1>1, <1>5, StoreReviewStep DEF Handled
<1>6. CASE uploadMovieReview(c) BY <1>1, <1>6, UploadMovieReviewStep DEF Handled
<1>7. CASE uploadUserReview(c) BY <1>1, <1>7, UploadUserReviewStep DEF Handled
<1> QED BY <1>3, <1>4, <1>5, <1>6, <1>7 DEF Handle

LEMMA NextCases ==
  ASSUME CallsOK, StatesOK, [Next]_vars
  PROVE  /\ CallsOK' /\ StatesOK'
         /\ \/ UNCHANGED <<call, answer, reviews, indexes>>
            \/ \E c \in Clients : Asked(c) /\ UNCHANGED <<reviews, indexes>>
            \/ \E c \in Clients : Handled(c)
<1>1. ASSUME NEW s \in Late, Start(s)
      PROVE  CallsOK' /\ StatesOK' /\ UNCHANGED <<call, answer, reviews, indexes>>
  <2>1. UNCHANGED <<call, answer>> /\ UNCHANGED state BY <1>1 DEF Start, Listen
  <2>2. UNCHANGED <<call, answer, reviews, indexes>> BY <2>1 DEF state
  <2> QED BY <2>1, <2>2, StatesStay DEF CallsOK
<1>2. ASSUME NEW c \in Clients, Client(c)
      PROVE  CallsOK' /\ StatesOK' /\ Asked(c) /\ UNCHANGED <<reviews, indexes>>
  <2>1. Asked(c) /\ UNCHANGED state BY <1>2, ClientAsks
  <2>2. PICK e \in DOMAIN ResponseOf : \E q \in RequestFor(c, e) : Asks(c, e, q) BY <2>1 DEF Asked
  <2>3. CallsOK' BY <2>2, AsksStep
  <2>4. UNCHANGED <<reviews, indexes>> BY <2>1 DEF state
  <2> QED BY <2>1, <2>3, <2>4, StatesStay
<1>3. ASSUME NEW c \in Clients, Handle(c) PROVE CallsOK' /\ StatesOK' /\ Handled(c)
  <2>1. Handled(c) /\ StatesOK' BY <1>3, HandleStep
  <2>2. call[c] # <<>> /\ Step(c) BY <2>1 DEF Handled
  <2> QED BY <2>1, <2>2, StepOK
<1>4. ASSUME UNCHANGED vars PROVE CallsOK' /\ StatesOK' /\ UNCHANGED <<call, answer, reviews, indexes>>
  <2>1. UNCHANGED <<call, answer>> /\ UNCHANGED state BY <1>4 DEF vars, svars
  <2>2. UNCHANGED <<call, answer, reviews, indexes>> BY <2>1 DEF state
  <2> QED BY <2>1, <2>2, StatesStay DEF CallsOK
<1> QED BY <1>1, <1>2, <1>3, <1>4 DEF Next

LEMMA AlwaysOK == Spec => [](CallsOK /\ StatesOK)
<1>1. (CallsOK /\ StatesOK) /\ [Next]_vars => (CallsOK /\ StatesOK)' BY NextCases
<1> QED BY InitOK, <1>1, PTL DEF Spec

(* Every request and response has the fields its endpoint declares and     *)
(* every service holds well-formed values (the handlers of                 *)
(* src/app/internal/movie, whatever their interleaving).                   *)
THEOREM Typed == Spec => []TypeOK
<1>1. CallsOK /\ StatesOK => TypeOK
  <2> SUFFICES ASSUME CallsOK, StatesOK PROVE TypeOK OBVIOUS
  <2>1. /\ StateOf(movieIds, Titles, Movies) /\ StateOf(movieInfos, Movies, MovieInfo)
        /\ StateOf(castInfos, Casts, CastInfo) /\ StateOf(plots, Movies, Movies)
        /\ StateOf(users, Users, User) /\ StateOf(reviews, ReviewIds, Review)
        /\ StateOf(movieReviews, Movies, Seq(MovieReview))
        /\ StateOf(userReviews, UserIds, Seq(UserReview))
    BY DEF StatesOK, StateOf, KeptMovie, KeptUser
  <2>2. ASSUME NEW c \in Clients
        PROVE  /\ \A f \in Handlers(c) : f.req \in RequestOf[f.ep]
               /\ ~Idle(c) /\ Head(call[c]).at \in DOMAIN ResponseAt
                    => Res(c) \in ResponseAt[Head(call[c]).at]
               /\ answer[c].ok => answer[c].res \in ResponseOf[answer[c].ep]
    <3>1. answer[c].ok => answer[c].res \in ResponseOf[answer[c].ep] BY DEF CallsOK
    <3>2. call[c] \in Seq(Frames(c)) BY DEF CallsOK, Calls, Stacks
    <3>3. \A f \in Handlers(c) : f.req \in RequestOf[f.ep]
      BY <3>2, LenProperties, ElementOfSeq, FrameParts DEF Handlers
    <3>4. ASSUME ~Idle(c), Head(call[c]).at \in DOMAIN ResponseAt
          PROVE  Res(c) \in ResponseAt[Head(call[c]).at]
      <4> DEFINE f == Head(call[c])
      <4>1. call[c] # <<>> BY <3>4 DEF Idle
      <4>2. f \in Heads(c) /\ f \in Frames(c) BY <4>1, StackOf
      <4>3. Place(f.ep, f.at) /\ f.at # "start" /\ f.at # "loaded" BY <3>4, <4>2, FrameParts, Names
      <4>4. PICK callee \in Eps : <<f.ep, f.at, callee>> \in Sites BY <4>3 DEF Place, Waits
      <4>5. f.res \in ReplyOf[callee] BY <4>2, <4>4 DEF Heads, ReplyTo
      <4>6. ReplyOf[callee] = ResponseAt[f.at] BY <4>4, Replies
      <4> QED BY <4>5, <4>6 DEF Res
    <3> QED BY <3>1, <3>3, <3>4
  <2> QED BY <2>1, <2>2 DEF TypeOK
<1> QED BY <1>1, AlwaysOK, PTL

-----------------------------------------------------------------------------
(* What was appended to the indexes. *)

Kinds == {"movie", "user"}
InIndex(kind, key, r) == r \in Elements(Uploaded(kind, key))
OfMovie(m, r) == r \in DOMAIN reviews /\ reviews[r].movie = m
OfUser(u, r) == r \in DOMAIN reviews /\ reviews[r].user = u

\* Only stored reviews are appended, under their movie and their user.
LogOK ==
  /\ log = [kind \in Kinds |-> log[kind]]
  /\ \A m \in Movies : /\ Uploaded("movie", m) \in Seq(Clients)
                       /\ \A r \in Clients : InIndex("movie", m, r) => OfMovie(m, r)
  /\ \A u \in UserIds : /\ Uploaded("user", u) \in Seq(Clients)
                        /\ \A r \in Clients : InIndex("user", u, r) => OfUser(u, r)

LEMMA ElementsAppended ==
  ASSUME NEW S, NEW s \in Seq(S), NEW x \in S
  PROVE  Elements(Append(s, x)) = Elements(s) \cup {x}
<1> DEFINE t == Append(s, x)
<1>1. /\ Len(s) \in Nat /\ DOMAIN s = 1 .. Len(s) BY LenProperties
<1>2. /\ t \in Seq(S) /\ Len(t) = Len(s) + 1 /\ t[Len(s) + 1] = x
      /\ \A i \in 1 .. Len(s) : t[i] = s[i]
  BY AppendProperties
<1>3. DOMAIN t = 1 .. Len(s) + 1 BY <1>2, LenProperties
<1> HIDE DEF t
<1>4. \A n \in Nat : 1 .. n + 1 = (1 .. n) \cup {n + 1} OBVIOUS
<1>5. DOMAIN t = DOMAIN s \cup {Len(s) + 1} BY <1>1, <1>3, <1>4
<1>6. Elements(t) = Elements(s) \cup {x} BY <1>1, <1>2, <1>5 DEF Elements
<1> QED BY <1>6 DEF t

LEMMA Logged ==
  ASSUME LogOK, NEW c \in Clients, NEW kind \in Kinds, NEW key, Uploaded(kind, key) \in Seq(Clients),
         Appends(c, kind, key, c)
  PROVE  /\ log' = [k \in Kinds |-> log'[k]] /\ raced \subseteq raced'
         /\ Uploaded(kind, key)' = Append(Uploaded(kind, key), c)
         /\ Uploaded(kind, key)' \in Seq(Clients)
         /\ \A k \in Kinds : \A y : k # kind \/ y # key => Uploaded(k, y)' = Uploaded(k, y)
         /\ \A r : InIndex(kind, key, r)' <=> InIndex(kind, key, r) \/ r = c
         /\ \A k \in Kinds : \A y, r : k # kind \/ y # key => (InIndex(k, y, r)' <=> InIndex(k, y, r))
<1> DEFINE u == Uploaded(kind, key)
           new == SetState(log[kind], key, Append(u, c))
<1>1. log = [k \in Kinds |-> log[k]] BY DEF LogOK
<1>2. log' = [log EXCEPT ![kind] = new]
  <2>1. u = IF Has(log[kind], key) THEN log[kind][key] ELSE <<>> BY DEF Uploaded
  <2> QED BY <1>1, <2>1 DEF Appends
<1>3. raced \subseteq raced' BY DEF Appends
<1>4. /\ log' = [k \in Kinds |-> log'[k]] /\ log'[kind] = new
      /\ \A k \in Kinds : k # kind => log'[k] = log[k]
  <2> HIDE DEF new
  <2> QED BY <1>1, <1>2
<1>5. /\ DOMAIN new = DOMAIN log[kind] \cup {key} /\ new[key] = Append(u, c)
      /\ \A y \in DOMAIN log[kind] : y # key => new[y] = log[kind][y]
  <2> HIDE DEF u
  <2> QED BY DEF SetState
<1> HIDE DEF new, u
<1>6. Uploaded(kind, key)' = Append(u, c) BY <1>4, <1>5 DEF Uploaded, Has
<1>7. \A k \in Kinds : \A y : k # kind \/ y # key => Uploaded(k, y)' = Uploaded(k, y)
  <2> SUFFICES ASSUME NEW k \in Kinds, NEW y, k # kind \/ y # key
               PROVE  Uploaded(k, y)' = Uploaded(k, y)
    OBVIOUS
  <2>1. CASE k # kind BY <1>4, <2>1 DEF Uploaded
  <2>2. CASE k = kind /\ y # key
    <3>1. y \in DOMAIN log'[kind] <=> y \in DOMAIN log[kind] BY <1>4, <1>5, <2>2
    <3>2. y \in DOMAIN log[kind] => log'[kind][y] = log[kind][y] BY <1>4, <1>5, <2>2
    <3> QED BY <2>2, <3>1, <3>2 DEF Uploaded, Has
  <2> QED BY <2>1, <2>2
<1>8. u \in Seq(Clients) BY DEF u
<1>9. Elements(Append(u, c)) = Elements(u) \cup {c} /\ Append(u, c) \in Seq(Clients)
  BY <1>8, ElementsAppended, AppendProperties
<1>10. \A r : InIndex(kind, key, r)' <=> InIndex(kind, key, r) \/ r = c
  BY <1>6, <1>9 DEF InIndex, u
<1>11. \A k \in Kinds : \A y, r : k # kind \/ y # key => (InIndex(k, y, r)' <=> InIndex(k, y, r))
  BY <1>7 DEF InIndex
<1> QED BY <1>3, <1>4, <1>6, <1>7, <1>9, <1>10, <1>11 DEF u

\* Everything that is known of the reviews of the other clients stays.
OnlyOf(c) ==
  /\ \A r \in Clients \ {c} : r \in DOMAIN reviews' <=> r \in DOMAIN reviews
  /\ \A r \in Clients \ {c} : \A m \in Movies : InIndex("movie", m, r)' <=> InIndex("movie", m, r)
  /\ \A r \in Clients \ {c} : \A u \in UserIds : InIndex("user", u, r)' <=> InIndex("user", u, r)
Grown == \A r \in DOMAIN reviews : r \in DOMAIN reviews' /\ reviews'[r] = reviews[r]

\* The innermost handler after each kind of step.
LEMMA WentHead ==
  ASSUME CallsOK, NEW c \in Clients, call[c] # <<>>, NEW place \in PlaceNames,
         NEW my \in LocalsAt(c, call[c][1].ep, place), Went(c, place, my)
  PROVE  /\ call'[c] # <<>> /\ answer'[c] = answer[c]
         /\ call'[c][1].ep = call[c][1].ep /\ call'[c][1].req = call[c][1].req
         /\ call'[c][1].at = place /\ call'[c][1].my = my /\ call'[c][1].res = call[c][1].res
         /\ Len(call[c]) # 1 => call'[c][2] = call[c][2]
<1> DEFINE f == call[c][1]
<1>1. f \in Frames(c) /\ Len(call[c]) \in Nat /\ Len(call[c]) >= 1 BY StackOf
<1>2. f = [ep |-> f.ep, req |-> f.req, at |-> f.at, my |-> f.my, res |-> f.res] BY <1>1, FrameParts
<1> DEFINE g == Gone(f, place, my)
<1>3. g.ep = f.ep /\ g.req = f.req /\ g.at = place /\ g.my = my /\ g.res = f.res
  <2> HIDE DEF f
  <2> QED BY <1>2 DEF Gone
<1>4. call'[c][1] = g /\ Len(call'[c]) = Len(call[c]) /\ answer'[c] = answer[c]
      /\ \A i \in 2 .. Len(call[c]) : call'[c][i] = call[c][i]
  BY DEF Went
<1>5. call'[c] # <<>> BY <1>1, <1>4
<1>6. Len(call[c]) # 1 => 2 \in 2 .. Len(call[c])
  <2>1. \A n \in Nat : n >= 1 /\ n # 1 => 2 \in 2 .. n OBVIOUS
  <2> QED BY <1>1, <2>1
<1> HIDE DEF f, g
<1>7. Len(call[c]) # 1 => call'[c][2] = call[c][2] BY <1>4, <1>6
<1>8. call'[c][1].ep = f.ep /\ call'[c][1].req = f.req /\ call'[c][1].at = place
      /\ call'[c][1].my = my /\ call'[c][1].res = f.res
  BY <1>3, <1>4
<1> QED BY <1>4, <1>5, <1>7, <1>8 DEF f

LEMMA DeeperHead ==
  ASSUME CallsOK, NEW c \in Clients, call[c] # <<>>, NEW place, NEW e, NEW q, NEW my,
         Deeper(c, e, q, place, my)
  PROVE  /\ call'[c] # <<>> /\ answer'[c] = answer[c]
         /\ call'[c][1] = Frame(e, q)
         /\ call'[c][1].ep = e /\ call'[c][1].req = q /\ call'[c][1].at = "start"
         /\ call'[c][1].my = <<>> /\ call'[c][1].res = <<>>
         /\ call'[c][2].ep = call[c][1].ep /\ call'[c][2].req = call[c][1].req
<1> DEFINE f == call[c][1]
           g == Gone(f, place, my)
<1>1. f \in Frames(c) /\ Len(call[c]) \in Nat /\ Len(call[c]) >= 1 BY StackOf
<1>2. f = [ep |-> f.ep, req |-> f.req, at |-> f.at, my |-> f.my, res |-> f.res] BY <1>1, FrameParts
<1>3. g.ep = f.ep /\ g.req = f.req
  <2> HIDE DEF f
  <2> QED BY <1>2 DEF Gone
<1>4. /\ call'[c][1] = Frame(e, q) /\ call'[c][2] = g /\ answer'[c] = answer[c]
      /\ Len(call'[c]) = Len(call[c]) + 1
  BY DEF Deeper
<1> HIDE DEF f, g
<1>5. call'[c] # <<>> BY <1>1, <1>4
<1>6. /\ Frame(e, q).ep = e /\ Frame(e, q).req = q /\ Frame(e, q).at = "start"
      /\ Frame(e, q).my = <<>> /\ Frame(e, q).res = <<>>
  BY DEF Frame
<1>7. call'[c][2].ep = f.ep /\ call'[c][2].req = f.req BY <1>3, <1>4
<1> QED BY <1>4, <1>5, <1>6, <1>7 DEF f

LEMMA BackHead ==
  ASSUME CallsOK, NEW c \in Clients, call[c] # <<>>, NEW r, Back(c, r)
  PROVE  /\ call'[c] # <<>> /\ answer'[c] = answer[c] /\ SameReview(call[c][1], call[c][2])
         /\ <<call[c][2].ep, call[c][2].at, call[c][1].ep>> \in Sites /\ call[c][2] \in Frames(c)
         /\ call'[c][1].ep = call[c][2].ep /\ call'[c][1].req = call[c][2].req
         /\ call'[c][1].at = call[c][2].at /\ call'[c][1].my = call[c][2].my /\ call'[c][1].res = r
<1> DEFINE f == call[c][2]
           g == Answered(f, r)
<1>1. Len(call[c]) \in Nat /\ Len(call[c]) > 1 BY StackOf DEF Back
<1>2. /\ f \in Frames(c) /\ SameReview(call[c][1], f)
      /\ <<f.ep, f.at, call[c][1].ep>> \in Sites
  BY <1>1, SecondOf
<1>3. f = [ep |-> f.ep, req |-> f.req, at |-> f.at, my |-> f.my, res |-> f.res] BY <1>2, FrameParts
<1>4. g.ep = f.ep /\ g.req = f.req /\ g.at = f.at /\ g.my = f.my /\ g.res = r
  <2> HIDE DEF f
  <2> QED BY <1>3 DEF Answered
<1>5. call'[c][1] = g /\ answer'[c] = answer[c] /\ Len(call'[c]) = Len(call[c]) - 1
  BY DEF Back
<1> HIDE DEF f, g
<1>6. call'[c] # <<>> BY <1>1, <1>5
<1>7. call'[c][1].ep = f.ep /\ call'[c][1].req = f.req /\ call'[c][1].at = f.at
      /\ call'[c][1].my = f.my /\ call'[c][1].res = r
  BY <1>4, <1>5
<1> QED BY <1>2, <1>5, <1>6, <1>7 DEF f

\* A handler that no client asks returns to the one that waits for it.
LEMMA ReturnBack ==
  ASSUME CallsOK, NEW c \in Clients, call[c] # <<>>, Returns(c), call[c][1].ep \notin DOMAIN ResponseOf
  PROVE  Others(c) /\ \E r \in ReplyTo(c, call[c][1].ep) : Back(c, r)
<1>1. PICK r \in ReplyTo(c, call[c][1].ep) : Return(c, r) BY DEF Returns
<1>2. Len(call[c]) # 1 BY SecondIfCallee
<1> QED BY <1>1, <1>2, Returning

\* What is stored, and what is appended.
LEMMA StoredChange ==
  ASSUME CallsOK, StatesOK, LogOK, NEW c \in Clients, call[c] # <<>>, Stored(c), c \notin DOMAIN reviews
  PROVE  /\ OnlyOf(c) /\ Grown /\ LogOK' /\ UNCHANGED indexes
         /\ DOMAIN reviews' = DOMAIN reviews \cup {c} /\ reviews'[c] = call[c][1].req.review
<1>1. PICK v : v = call[c][1].req.review OBVIOUS
<1>2. reviews' = SetState(reviews, c, v) /\ UNCHANGED indexes BY <1>1 DEF Stored
<1>3. /\ DOMAIN reviews' = DOMAIN reviews \cup {c} /\ reviews'[c] = v
      /\ \A r \in DOMAIN reviews : r # c => reviews'[r] = reviews[r]
  BY <1>2 DEF SetState
<1>4. Grown BY <1>3 DEF Grown
<1>5. UNCHANGED log BY <1>2 DEF indexes
<1>6. \A r \in Clients \ {c} : r \in DOMAIN reviews' <=> r \in DOMAIN reviews BY <1>3
<1>7. \A kind, key, r : InIndex(kind, key, r)' <=> InIndex(kind, key, r)
  BY <1>5 DEF InIndex, Uploaded
<1>8. OnlyOf(c) BY <1>6, <1>7 DEF OnlyOf
<1>9. (\A m, r : OfMovie(m, r) => OfMovie(m, r)') /\ (\A u, r : OfUser(u, r) => OfUser(u, r)')
  BY <1>4 DEF Grown, OfMovie, OfUser
<1>10. LogOK' BY <1>5, <1>7, <1>9 DEF LogOK, Uploaded
<1> QED BY <1>1, <1>2, <1>3, <1>4, <1>8, <1>10

LEMMA MovieChange ==
  ASSUME StatesOK, LogOK, NEW c \in Clients, MovieIndexed(c), NEW m \in Movies,
         m = call[c][1].req.movie, OfMovie(m, c)
  PROVE  /\ OnlyOf(c) /\ Grown /\ LogOK' /\ UNCHANGED <<reviews, userReviews>>
         /\ movieReviews' = SetState(movieReviews, m, Append(DropOldest(call[c][1].my, MaxKept), [review |-> c]))
         /\ Appends(c, "movie", m, c) /\ raced \subseteq raced'
         /\ InIndex("movie", m, c)' /\ \A u \in UserIds : UNCHANGED Uploaded("user", u)
         /\ Uploaded("movie", m)' = Append(Uploaded("movie", m), c)
         /\ \A y \in Movies \ {m} : UNCHANGED Uploaded("movie", y)
<1>1. /\ UNCHANGED <<reviews, userReviews>> /\ Appends(c, "movie", m, c)
      /\ movieReviews' = SetState(movieReviews, m, Append(DropOldest(call[c][1].my, MaxKept), [review |-> c]))
  BY DEF MovieIndexed
<1>2. Uploaded("movie", m) \in Seq(Clients) /\ "movie" \in Kinds /\ "user" \in Kinds
  BY DEF LogOK, Kinds
<1>3. /\ log' = [k \in Kinds |-> log'[k]] /\ raced \subseteq raced'
      /\ Uploaded("movie", m)' = Append(Uploaded("movie", m), c)
      /\ Uploaded("movie", m)' \in Seq(Clients)
      /\ \A k \in Kinds : \A y : k # "movie" \/ y # m => Uploaded(k, y)' = Uploaded(k, y)
      /\ \A r : InIndex("movie", m, r)' <=> InIndex("movie", m, r) \/ r = c
      /\ \A k \in Kinds : \A y, r : k # "movie" \/ y # m => (InIndex(k, y, r)' <=> InIndex(k, y, r))
  BY <1>1, <1>2, Logged
<1>4. Grown BY <1>1 DEF Grown
<1>5. (\A y, r : OfMovie(y, r)' <=> OfMovie(y, r)) /\ (\A u, r : OfUser(u, r)' <=> OfUser(u, r))
  BY <1>1 DEF OfMovie, OfUser
<1>6. \A u, r : /\ InIndex("user", u, r)' <=> InIndex("user", u, r)
                /\ Uploaded("user", u)' = Uploaded("user", u)
  BY <1>2, <1>3
<1>7. \A y, r : y # m => /\ InIndex("movie", y, r)' <=> InIndex("movie", y, r)
                         /\ Uploaded("movie", y)' = Uploaded("movie", y)
  BY <1>2, <1>3
<1>8. OnlyOf(c) BY <1>1, <1>3, <1>6, <1>7 DEF OnlyOf
<1>9. LogOK' BY <1>3, <1>5, <1>6, <1>7 DEF LogOK
<1> QED BY <1>1, <1>3, <1>4, <1>6, <1>7, <1>8, <1>9

LEMMA UserChange ==
  ASSUME StatesOK, LogOK, NEW c \in Clients, UserIndexed(c), NEW u \in UserIds,
         u = call[c][1].req.user, OfUser(u, c)
  PROVE  /\ OnlyOf(c) /\ Grown /\ LogOK' /\ UNCHANGED <<reviews, movieReviews>>
         /\ userReviews' = SetState(userReviews, u, Append(DropOldest(call[c][1].my, MaxKept), [review |-> c]))
         /\ Appends(c, "user", u, c) /\ raced \subseteq raced'
         /\ InIndex("user", u, c)' /\ \A m \in Movies : UNCHANGED Uploaded("movie", m)
         /\ Uploaded("user", u)' = Append(Uploaded("user", u), c)
         /\ \A y \in UserIds \ {u} : UNCHANGED Uploaded("user", y)
<1>1. /\ UNCHANGED <<reviews, movieReviews>> /\ Appends(c, "user", u, c)
      /\ userReviews' = SetState(userReviews, u, Append(DropOldest(call[c][1].my, MaxKept), [review |-> c]))
  BY DEF UserIndexed
<1>2. Uploaded("user", u) \in Seq(Clients) /\ "movie" \in Kinds /\ "user" \in Kinds
  BY DEF LogOK, Kinds
<1>3. /\ log' = [k \in Kinds |-> log'[k]] /\ raced \subseteq raced'
      /\ Uploaded("user", u)' = Append(Uploaded("user", u), c)
      /\ Uploaded("user", u)' \in Seq(Clients)
      /\ \A k \in Kinds : \A y : k # "user" \/ y # u => Uploaded(k, y)' = Uploaded(k, y)
      /\ \A r : InIndex("user", u, r)' <=> InIndex("user", u, r) \/ r = c
      /\ \A k \in Kinds : \A y, r : k # "user" \/ y # u => (InIndex(k, y, r)' <=> InIndex(k, y, r))
  BY <1>1, <1>2, Logged
<1>4. Grown BY <1>1 DEF Grown
<1>5. (\A y, r : OfMovie(y, r)' <=> OfMovie(y, r)) /\ (\A y, r : OfUser(y, r)' <=> OfUser(y, r))
  BY <1>1 DEF OfMovie, OfUser
<1>6. \A m, r : /\ InIndex("movie", m, r)' <=> InIndex("movie", m, r)
                /\ Uploaded("movie", m)' = Uploaded("movie", m)
  BY <1>2, <1>3
<1>7. \A y, r : y # u => /\ InIndex("user", y, r)' <=> InIndex("user", y, r)
                         /\ Uploaded("user", y)' = Uploaded("user", y)
  BY <1>2, <1>3
<1>8. OnlyOf(c) BY <1>1, <1>3, <1>6, <1>7 DEF OnlyOf
<1>9. LogOK' BY <1>3, <1>5, <1>6, <1>7 DEF LogOK
<1> QED BY <1>1, <1>3, <1>4, <1>6, <1>7, <1>8, <1>9

-----------------------------------------------------------------------------
(* How far the review that a client composes has come. *)

\* From the place where the request of c is, one knows whether its review is
\* stored and which indexes have it.
Progressed(c) ==
  /\ call[c] # <<>> =>
       /\ Stage(c) = 0 <=> c \notin DOMAIN reviews
       /\ Stage(c) \in {2, 3} => InIndex("movie", reviews[c].movie, c)
       /\ Stage(c) = 3 => InIndex("user", reviews[c].user, c)
       /\ Stage(c) # 0 /\ call[c][1].ep = "compose_review" => call[c][1].req.review = reviews[c]
       /\ call[c][1].ep \in Uploading => call[c][2].req.review = reviews[c]
  /\ call[c] = <<>> /\ answer[c].ep = "none" => c \notin DOMAIN reviews
  /\ c \in DOMAIN reviews =>
       /\ InIndex("user", reviews[c].user, c) => InIndex("movie", reviews[c].movie, c)
       /\ call[c] = <<>> /\ answer[c].ok => InIndex("user", reviews[c].user, c)
ProgressOK == \A c \in Clients : Progressed(c)

\* What waits for an endpoint.
LEMMA WaitsFor ==
  ASSUME NEW e, NEW p, NEW d, <<e, p, d>> \in Sites
  PROVE  /\ d = "store_review" => e = "compose_review" /\ p = "uploadMovie"
         /\ d = "upload_movie_review" => e = "compose_review" /\ p = "uploadUser"
         /\ d = "upload_user_review" => e = "compose_review" /\ p = "done"
         /\ d = "ro_read_movie_reviews" => e = "ro_read_page" /\ p = "gotReviews"
         /\ d = "ro_read_reviews" => e \in Readers /\ p = "gotReviews"
         /\ d \notin {"store_review"} \cup Uploading =>
              /\ e \notin {"compose_review"} \cup Uploading
              /\ StageOf(e, p) = IF d = "compose_review" THEN 3 ELSE 0
         /\ d \notin {"ro_read_reviews", "ro_read_movie_reviews"} =>
              e \notin Readers /\ ~(e = "ro_read_page" /\ p = "gotReviews")
         /\ d # "compose" /\ e \notin Uploading \cup {"ro_read_reviews", "store_review"}
<1>1. CASE e = "compose"
  <2>1. \/ p = "loggedIn" /\ d = "login"
        \/ p = "gotUniqueId" /\ d = "get_unique_id"
        \/ p = "gotUserId" /\ d = "ro_get_user_id"
        \/ p = "gotMovieId" /\ d = "ro_get_movie_id"
        \/ p = "composed" /\ d = "compose_review"
    BY <1>1 DEF Sites
  <2> QED BY <1>1, <2>1 DEF Uploading, Readers, StageOf
<1>2. CASE e = "compose_review"
  <2>1. \/ p = "uploadMovie" /\ d = "store_review"
        \/ p = "uploadUser" /\ d = "upload_movie_review"
        \/ p = "done" /\ d = "upload_user_review"
    BY <1>2 DEF Sites
  <2> QED BY <1>2, <2>1 DEF Uploading, Readers
<1>3. CASE e = "ro_read_page"
  <2>1. \/ p = "gotInfo" /\ d = "ro_read_movie_info"
        \/ p = "gotCasts" /\ d = "ro_read_cast_infos"
        \/ p = "gotPlot" /\ d = "ro_read_plot"
        \/ p = "gotReviews" /\ d = "ro_read_movie_reviews"
    BY <1>3 DEF Sites
  <2> QED BY <1>3, <2>1 DEF Uploading, Readers, StageOf
<1>4. CASE e \notin {"compose", "compose_review", "ro_read_page"}
  <2>1. e \in Readers /\ p = "gotReviews" /\ d = "ro_read_reviews" BY <1>4 DEF Sites, Readers
  <2> QED BY <1>4, <2>1 DEF Uploading, Readers, StageOf
<1> QED BY <1>1, <1>2, <1>3, <1>4

LEMMA ProgressOthers ==
  ASSUME StatesOK, NEW c \in Clients, OnlyOf(c), Grown, NEW d \in Clients, d # c,
         call'[d] = call[d], answer'[d] = answer[d], Progressed(d)
  PROVE  Progressed(d)'
<1>1. d \in DOMAIN reviews' <=> d \in DOMAIN reviews BY DEF OnlyOf
<1>2. d \in DOMAIN reviews => reviews'[d] = reviews[d] BY DEF Grown
<1>3. d \in DOMAIN reviews => reviews[d].movie \in Movies /\ reviews[d].user \in UserIds
  BY DEF StatesOK, StateOf, Review
<1>4. ASSUME d \in DOMAIN reviews
      PROVE  /\ InIndex("movie", reviews[d].movie, d)' <=> InIndex("movie", reviews[d].movie, d)
             /\ InIndex("user", reviews[d].user, d)' <=> InIndex("user", reviews[d].user, d)
  <2>1. PICK m \in Movies : m = reviews[d].movie BY <1>3, <1>4
  <2>2. PICK u \in UserIds : u = reviews[d].user BY <1>3, <1>4
  <2>3. /\ InIndex("movie", m, d)' <=> InIndex("movie", m, d)
        /\ InIndex("user", u, d)' <=> InIndex("user", u, d)
    BY DEF OnlyOf
  <2>4. reviews'[d].movie = m /\ reviews'[d].user = u BY <1>2, <1>4, <2>1, <2>2
  <2> QED BY <2>1, <2>2, <2>3, <2>4 DEF InIndex
<1>5. Stage(d)' = Stage(d) BY DEF Stage
<1>6. CASE d \notin DOMAIN reviews
  <2>1. call[d] # <<>> => Stage(d) = 0 /\ call[d][1].ep \notin Uploading
    <3>1. call[d] # <<>> => Stage(d) = 0 BY <1>6 DEF Progressed
    <3>2. call[d][1].ep \in Uploading => Stage(d) # 0 BY DEF Stage, StageOf, Uploading
    <3> QED BY <3>1, <3>2
  <2> QED BY <1>1, <1>5, <1>6, <2>1 DEF Progressed
<1>7. CASE d \in DOMAIN reviews
  <2>1. d \in DOMAIN reviews' /\ reviews'[d] = reviews[d] BY <1>1, <1>2, <1>7
  <2> QED BY <1>4, <1>5, <1>7, <2>1 DEF Progressed
<1> QED BY <1>6, <1>7

LEMMA ProgressAsked ==
  ASSUME CallsOK, NEW c \in Clients, Asked(c), UNCHANGED <<reviews, indexes>>, Progressed(c)
  PROVE  Progressed(c)'
<1>1. PICK e \in DOMAIN ResponseOf : \E q \in RequestFor(c, e) : Asks(c, e, q) BY DEF Asked
<1>2. PICK q \in RequestFor(c, e) : Asks(c, e, q) BY <1>1
<1>3. /\ UNCHANGED answer /\ answer[c].ep = "none" /\ call[c] = <<>> /\ call'[c] # <<>>
      /\ call'[c][1] = Frame(e, q)
  BY <1>2, AsksStep
<1>4. Frame(e, q).ep = e /\ Frame(e, q).at = "start" BY DEF Frame
<1>5. e \notin {"compose_review"} \cup Uploading /\ StageOf(e, "start") = 0
  BY Names DEF Uploading, StageOf
<1>6. c \notin DOMAIN reviews BY <1>3 DEF Progressed
<1>7. Stage(c)' = 0 BY <1>3, <1>4, <1>5 DEF Stage
<1> QED BY <1>3, <1>4, <1>5, <1>6, <1>7 DEF Progressed

LEMMA ProgressQuiet ==
  ASSUME CallsOK, NEW c \in Clients, call[c] # <<>>, Step(c), UNCHANGED <<reviews, indexes>>,
         Quiet(call[c][1]), Progressed(c)
  PROVE  Progressed(c)'
<1> DEFINE f == call[c][1]
<1>1. Outcome(c) BY StepOK
<1>2. \A kind, key, r : InIndex(kind, key, r)' <=> InIndex(kind, key, r)
  BY DEF InIndex, Uploaded, indexes
<1>3. \A r : /\ InIndex("movie", reviews[r].movie, r)' <=> InIndex("movie", reviews[r].movie, r)
             /\ InIndex("user", reviews[r].user, r)' <=> InIndex("user", reviews[r].user, r)
  BY DEF InIndex, Uploaded, indexes
<1>4. Bottom(c).ep # "none" /\ Bottom(c).ep \in DOMAIN ResponseOf BY StackOf, Names DEF Bottom, Bottoms
<1>5. CASE Over(c, FALSE, <<>>)
  <2>1. call'[c] = <<>> /\ answer'[c].ok = FALSE /\ answer'[c].ep # "none" BY <1>4, <1>5 DEF Over
  <2> QED BY <1>3, <2>1 DEF Progressed
<1>6. ASSUME NEW r, Len(call[c]) = 1, Over(c, TRUE, r) PROVE Progressed(c)'
  <2>1. call'[c] = <<>> /\ answer'[c].ep # "none" BY <1>4, <1>6 DEF Over
  <2>2. f.ep \in DOMAIN ResponseOf BY <1>4, <1>6 DEF Bottom
  <2>3. Stage(c) \in {0, 3} BY <2>2, Names DEF Stage, StageOf
  <2>4. c \in DOMAIN reviews => InIndex("user", reviews[c].user, c) BY <2>3 DEF Progressed
  <2> QED BY <1>3, <2>1, <2>4 DEF Progressed
<1>7. ASSUME NEW r, Gives(f, r), Back(c, r) PROVE Progressed(c)'
  <2>1. /\ call'[c] # <<>> /\ <<call[c][2].ep, call[c][2].at, f.ep>> \in Sites
        /\ call'[c][1].ep = call[c][2].ep /\ call'[c][1].at = call[c][2].at
    BY <1>7, BackHead
  <2>2. f.ep \notin {"store_review"} \cup Uploading BY <1>7 DEF Gives, Quiet
  <2>3. /\ call[c][2].ep \notin {"compose_review"} \cup Uploading /\ f.ep # "compose"
        /\ StageOf(call[c][2].ep, call[c][2].at) = IF f.ep = "compose_review" THEN 3 ELSE 0
    BY <2>1, <2>2, WaitsFor
  <2>4. f.ep = "compose_review" => f.at = "done" BY <1>7 DEF Gives
  <2>5. Stage(c) = IF f.ep = "compose_review" THEN 3 ELSE 0
    BY <2>2, <2>3, <2>4 DEF Stage, StageOf, Uploading
  <2>6. Stage(c)' = Stage(c) BY <2>1, <2>3, <2>5 DEF Stage
  <2> QED BY <1>3, <2>1, <2>3, <2>6 DEF Progressed
<1>8. ASSUME NEW place \in PlaceNames, NEW my \in LocalsAt(c, f.ep, place), GoesTo(f, place, my),
             Went(c, place, my)
      PROVE  Progressed(c)'
  <2>1. f.ep \in Uploading \cup {"ro_read_reviews", "ro_read_cast_infos"} BY <1>8 DEF GoesTo
  <2>2. Len(call[c]) # 1 BY <2>1, Names, SecondIfCallee DEF Uploading
  <2>3. /\ call'[c] # <<>> /\ call'[c][1].ep = f.ep /\ call'[c][1].at = place
        /\ call'[c][2] = call[c][2]
    BY <1>8, <2>2, WentHead
  <2>4. \A p : StageOf(f.ep, p) = StageOf(f.ep, f.at) BY <2>1 DEF StageOf, Uploading
  <2>5. Stage(c)' = Stage(c) BY <2>3, <2>4 DEF Stage
  <2>6. f.ep # "compose_review" BY <2>1 DEF Uploading
  <2> QED BY <1>3, <2>3, <2>5, <2>6 DEF Progressed
<1>9. ASSUME NEW place \in PlaceNames, NEW e \in Eps, NEW my, NEW q \in RequestFor(c, e),
             <<f.ep, place, e>> \in Sites, Seeks(f, e, q), Deeper(c, e, q, place, my)
      PROVE  Progressed(c)'
  <2>1. /\ call'[c] # <<>> /\ call'[c][1].ep = e /\ call'[c][1].at = "start"
        /\ call'[c][2].req = f.req
    BY <1>9, DeeperHead
  <2>2. StageOf(e, "start") = Stage(c) BY <1>9 DEF Seeks, Stage
  <2>3. Stage(c)' = Stage(c) BY <2>1, <2>2 DEF Stage
  <2>4. e = "compose_review" => Stage(c) = 0 BY <2>2 DEF StageOf
  <2>5. e \in Uploading => f.ep = "compose_review" /\ Stage(c) # 0
    BY <1>9, <2>2, WaitsFor DEF Uploading, StageOf
  <2>6. e \in Uploading => call'[c][2].req.review = reviews[c] BY <2>1, <2>5 DEF Progressed
  <2> QED BY <1>3, <2>1, <2>3, <2>4, <2>6 DEF Progressed
<1> QED BY <1>1, <1>5, <1>6, <1>7, <1>8, <1>9 DEF Outcome

\* What an upload indexes is stored, under the movie or the user it names.
LEMMA UploadsStored ==
  ASSUME CallsOK, StatesOK, NEW c \in Clients, call[c] # <<>>, Returns(c), Progressed(c),
         call[c][1].ep \in Uploading
  PROVE  /\ c \in DOMAIN reviews /\ reviews[c].movie \in Movies /\ reviews[c].user \in UserIds
         /\ call[c][1].ep = "upload_movie_review" => call[c][1].req.movie = reviews[c].movie
         /\ call[c][1].ep = "upload_user_review" =>
              call[c][1].req.user = reviews[c].user /\ InIndex("movie", reviews[c].movie, c)
         /\ call'[c] # <<>> /\ call'[c][1].ep = "compose_review" /\ call'[c][1].req.review = reviews[c]
         /\ call'[c][1].at = IF call[c][1].ep = "upload_movie_review" THEN "uploadUser" ELSE "done"
<1>1. call[c][1].ep \notin DOMAIN ResponseOf BY Names DEF Uploading
<1>2. PICK r \in ReplyTo(c, call[c][1].ep) : Back(c, r) BY <1>1, ReturnBack
<1>3. /\ call'[c] # <<>> /\ SameReview(call[c][1], call[c][2])
      /\ <<call[c][2].ep, call[c][2].at, call[c][1].ep>> \in Sites
      /\ call'[c][1].ep = call[c][2].ep /\ call'[c][1].req = call[c][2].req
      /\ call'[c][1].at = call[c][2].at
  BY <1>2, BackHead
<1>4. /\ call[c][1].ep = "upload_movie_review" => Stage(c) = 1
      /\ call[c][1].ep = "upload_user_review" => Stage(c) = 2
  BY DEF Stage, StageOf
<1>5. c \in DOMAIN reviews /\ call[c][2].req.review = reviews[c]
  BY <1>4 DEF Progressed, Uploading
<1>6. reviews[c].movie \in Movies /\ reviews[c].user \in UserIds BY <1>5 DEF StatesOK, StateOf, Review
<1>7. call[c][1].ep = "upload_user_review" => InIndex("movie", reviews[c].movie, c)
  BY <1>4 DEF Progressed
<1>8. /\ call[c][2].ep = "compose_review"
      /\ call[c][2].at = IF call[c][1].ep = "upload_movie_review" THEN "uploadUser" ELSE "done"
  BY <1>3, WaitsFor DEF Uploading
<1> QED BY <1>3, <1>5, <1>6, <1>7, <1>8 DEF SameReview

LEMMA ProgressStored ==
  ASSUME CallsOK, StatesOK, LogOK, NEW c \in Clients, call[c] # <<>>, Stored(c), Returns(c),
         Progressed(c)
  PROVE  c \notin DOMAIN reviews /\ Progressed(c)'
<1>1. call[c][1].ep = "store_review" BY DEF Stored
<1>2. Stage(c) = 0 BY <1>1 DEF Stage, StageOf, Uploading
<1>3. c \notin DOMAIN reviews BY <1>2 DEF Progressed
<1>4. UNCHANGED indexes /\ c \in DOMAIN reviews' /\ reviews'[c] = call[c][1].req.review
  BY <1>3, StoredChange
<1>5. call[c][1].ep \notin DOMAIN ResponseOf BY <1>1, Names
<1>6. PICK r \in ReplyTo(c, call[c][1].ep) : Back(c, r) BY <1>5, ReturnBack
<1>7. /\ call'[c] # <<>> /\ SameReview(call[c][1], call[c][2])
      /\ <<call[c][2].ep, call[c][2].at, call[c][1].ep>> \in Sites
      /\ call'[c][1].ep = call[c][2].ep /\ call'[c][1].req = call[c][2].req
      /\ call'[c][1].at = call[c][2].at
  BY <1>6, BackHead
<1>8. call[c][2].ep = "compose_review" /\ call[c][2].at = "uploadMovie" BY <1>1, <1>7, WaitsFor
<1>9. call'[c][1].req.review = reviews'[c] BY <1>1, <1>4, <1>7 DEF SameReview
<1>10. Stage(c)' = 1 BY <1>7, <1>8 DEF Stage, StageOf
<1>11. PICK u \in UserIds : u = reviews'[c].user
  <2>1. RequestOf["store_review"] = StoreReviewRequest BY DEF RequestOf
  <2>2. call[c][1] \in Frames(c) BY StackOf
  <2>3. call[c][1].req \in StoreReviewRequest BY <1>1, <2>1, <2>2, FrameParts
  <2>4. reviews'[c] \in Review BY <1>4, <2>3 DEF StoreReviewRequest
  <2> QED BY <2>4 DEF Review
<1>12. ~InIndex("user", u, c) BY <1>3 DEF LogOK, OfUser
<1>13. ~InIndex("user", u, c)' BY <1>4, <1>12 DEF InIndex, Uploaded, indexes
<1>14. ~InIndex("user", reviews[c].user, c)' BY <1>11, <1>13 DEF InIndex
<1> QED BY <1>3, <1>4, <1>7, <1>8, <1>9, <1>10, <1>14 DEF Progressed, Uploading

LEMMA ProgressMovie ==
  ASSUME CallsOK, StatesOK, LogOK, NEW c \in Clients, call[c] # <<>>, MovieIndexed(c), Returns(c),
         Progressed(c)
  PROVE  /\ Progressed(c)'
         /\ \E m \in Movies : m = call[c][1].req.movie /\ OfMovie(m, c)
<1>1. call[c][1].ep = "upload_movie_review" BY DEF MovieIndexed
<1>2. /\ c \in DOMAIN reviews /\ reviews[c].movie \in Movies
      /\ call[c][1].req.movie = reviews[c].movie
      /\ call'[c] # <<>> /\ call'[c][1].ep = "compose_review" /\ call'[c][1].req.review = reviews[c]
      /\ call'[c][1].at = "uploadUser"
  BY <1>1, UploadsStored DEF Uploading
<1>3. PICK m \in Movies : m = reviews[c].movie BY <1>2
<1>4. m = call[c][1].req.movie /\ OfMovie(m, c) BY <1>2, <1>3 DEF OfMovie
<1>5. InIndex("movie", m, c)' /\ UNCHANGED reviews BY <1>4, MovieChange
<1>6. InIndex("movie", reviews[c].movie, c)' BY <1>3, <1>5 DEF InIndex
<1>7. Stage(c)' = 2 BY <1>2 DEF Stage, StageOf
<1> QED BY <1>2, <1>4, <1>5, <1>6, <1>7 DEF Progressed, Uploading

LEMMA ProgressUser ==
  ASSUME CallsOK, StatesOK, LogOK, NEW c \in Clients, call[c] # <<>>, UserIndexed(c), Returns(c),
         Progressed(c)
  PROVE  /\ Progressed(c)'
         /\ \E u \in UserIds : u = call[c][1].req.user /\ OfUser(u, c)
<1>1. call[c][1].ep = "upload_user_review" BY DEF UserIndexed
<1>2. /\ c \in DOMAIN reviews /\ reviews[c].movie \in Movies /\ reviews[c].user \in UserIds
      /\ call[c][1].req.user = reviews[c].user /\ InIndex("movie", reviews[c].movie, c)
      /\ call'[c] # <<>> /\ call'[c][1].ep = "compose_review" /\ call'[c][1].req.review = reviews[c]
      /\ call'[c][1].at = "done"
  BY <1>1, UploadsStored DEF Uploading
<1>3. PICK u \in UserIds : u = reviews[c].user BY <1>2
<1>4. PICK m \in Movies : m = reviews[c].movie BY <1>2
<1>5. u = call[c][1].req.user /\ OfUser(u, c) BY <1>2, <1>3 DEF OfUser
<1>6. InIndex("user", u, c)' /\ UNCHANGED reviews /\ UNCHANGED Uploaded("movie", m)
  BY <1>5, UserChange
<1>7. InIndex("movie", m, c)' BY <1>2, <1>4, <1>6 DEF InIndex
<1>8. InIndex("user", reviews[c].user, c)' /\ InIndex("movie", reviews[c].movie, c)'
  BY <1>3, <1>4, <1>6, <1>7 DEF InIndex
<1>9. Stage(c)' = 3 BY <1>2 DEF Stage, StageOf
<1> QED BY <1>2, <1>5, <1>6, <1>8, <1>9 DEF Progressed, Uploading

\* A step adds to the reviews and to what is known of c's alone.
LEMMA ProgressHandled ==
  ASSUME CallsOK, StatesOK, LogOK, ProgressOK, NEW c \in Clients, Handled(c)
  PROVE  Grown /\ LogOK' /\ ProgressOK'
<1>1. Progressed(c) /\ call[c] # <<>> /\ Step(c) BY DEF ProgressOK, Handled
<1>2. OnlyOf(c) /\ Grown /\ LogOK' /\ Progressed(c)'
  <2>1. CASE UNCHANGED <<reviews, indexes>> /\ Quiet(call[c][1])
    <3>1. Progressed(c)' BY <1>1, <2>1, ProgressQuiet
    <3>2. \A kind, key : Uploaded(kind, key)' = Uploaded(kind, key) BY <2>1 DEF Uploaded, indexes
    <3>3. \A kind, key, r : InIndex(kind, key, r)' <=> InIndex(kind, key, r)
      BY <2>1 DEF InIndex, Uploaded, indexes
    <3>4. LogOK' BY <2>1, <3>2, <3>3 DEF LogOK, OfMovie, OfUser, indexes
    <3>5. OnlyOf(c) BY <2>1, <3>3 DEF OnlyOf
    <3> QED BY <2>1, <3>1, <3>4, <3>5 DEF Grown
  <2>2. CASE Stored(c) /\ Returns(c) BY <1>1, <2>2, ProgressStored, StoredChange
  <2>3. CASE MovieIndexed(c) /\ Returns(c)
    <3>1. Progressed(c)' BY <1>1, <2>3, ProgressMovie
    <3>2. PICK m \in Movies : m = call[c][1].req.movie /\ OfMovie(m, c) BY <1>1, <2>3, ProgressMovie
    <3> QED BY <2>3, <3>1, <3>2, MovieChange
  <2>4. CASE UserIndexed(c) /\ Returns(c)
    <3>1. Progressed(c)' BY <1>1, <2>4, ProgressUser
    <3>2. PICK u \in UserIds : u = call[c][1].req.user /\ OfUser(u, c) BY <1>1, <2>4, ProgressUser
    <3> QED BY <2>4, <3>1, <3>2, UserChange
  <2> QED BY <2>1, <2>2, <2>3, <2>4 DEF Handled
<1>3. Others(c) BY <1>1, StepOK
<1>4. ASSUME NEW d \in Clients, d # c PROVE Progressed(d)'
  <2>1. call'[d] = call[d] /\ answer'[d] = answer[d] BY <1>3, <1>4 DEF Others
  <2>2. Progressed(d) BY DEF ProgressOK
  <2> QED BY <1>2, <1>4, <2>1, <2>2, ProgressOthers
<1> QED BY <1>2, <1>4 DEF ProgressOK

-----------------------------------------------------------------------------
(* What the indexes name is stored, and what is read by an index is of its *)
(* movie or of its user.                                                   *)

MovieList(m, list) == \A i \in DOMAIN list : OfMovie(m, list[i].review)
UserList(u, list) == \A i \in DOMAIN list : OfUser(u, list[i].review)
IndexFound ==
  /\ \A m \in Movies : MovieList(m, getMovieReviews(m))
  /\ \A u \in UserIds : UserList(u, getUserReviews(u))

\* What a handler f that g waits for has read.
FrameFound(f, g) ==
  /\ f.ep = "upload_movie_review" /\ f.at = "loaded" => MovieList(f.req.movie, f.my)
  /\ f.ep = "upload_user_review" /\ f.at = "loaded" => UserList(f.req.user, f.my)
  /\ f.ep = "ro_read_reviews" /\ g.ep = "ro_read_movie_reviews" =>
       /\ \A i \in DOMAIN f.req.reviews : OfMovie(g.req.movie, f.req.reviews[i])
       /\ \A i \in DOMAIN f.my : f.my[i].movie = g.req.movie
  /\ f.ep = "ro_read_reviews" /\ g.ep = "ro_read_user_reviews" =>
       /\ \A i \in DOMAIN f.req.reviews : OfUser(g.req.user, f.req.reviews[i])
       /\ \A i \in DOMAIN f.my : f.my[i].user = g.req.user
  /\ f.ep \in {"ro_read_movie_reviews", "ro_read_page"} /\ f.at = "gotReviews" =>
       \A i \in DOMAIN f.res.reviews : f.res.reviews[i].movie = f.req.movie
  /\ f.ep = "ro_read_user_reviews" /\ f.at = "gotReviews" =>
       \A i \in DOMAIN f.res.reviews : f.res.reviews[i].user = f.req.user
HeadFound(c) == call[c] # <<>> => FrameFound(call[c][1], call[c][2])

AnswerFound(c) == answer[c].ok =>
  /\ answer[c].ep = "ro_read_page" =>
       \A r \in Elements(answer[c].res.page.reviews) : r.movie = answer[c].req.movie
  /\ answer[c].ep = "ro_read_user_reviews" =>
       \A r \in Elements(answer[c].res.reviews) : r.user = answer[c].req.user

FoundInv == IndexFound /\ \A c \in Clients : HeadFound(c) /\ AnswerFound(c)

LEMMA FoundGrows ==
  ASSUME Grown
  PROVE  /\ \A m, r : OfMovie(m, r) => OfMovie(m, r)'
         /\ \A u, r : OfUser(u, r) => OfUser(u, r)'
         /\ \A m, list : MovieList(m, list) => MovieList(m, list)'
         /\ \A u, list : UserList(u, list) => UserList(u, list)'
         /\ \A f, g : FrameFound(f, g) => FrameFound(f, g)'
<1>1. (\A m, r : OfMovie(m, r) => OfMovie(m, r)') /\ (\A u, r : OfUser(u, r) => OfUser(u, r)')
  BY DEF Grown, OfMovie, OfUser
<1>2. /\ \A m, list : MovieList(m, list) => MovieList(m, list)'
      /\ \A u, list : UserList(u, list) => UserList(u, list)'
  BY <1>1 DEF MovieList, UserList
<1>3. \A f, g : FrameFound(f, g) => FrameFound(f, g)' BY <1>1, <1>2 DEF FrameFound
<1> QED BY <1>1, <1>2, <1>3

\* An answer that is given back.
LEMMA FoundBack ==
  ASSUME NEW f, NEW g, NEW r, FrameFound(f, g), Gives(f, r), SameReview(f, g),
         <<g.ep, g.at, f.ep>> \in Sites, NEW h, h.ep = g.ep, h.at = g.at, h.req = g.req, h.res = r
  PROVE  \A x : FrameFound(h, x)
<1>1. /\ g.ep \notin Uploading \cup {"ro_read_reviews"}
      /\ f.ep = "ro_read_movie_reviews" => g.ep = "ro_read_page"
      /\ f.ep = "ro_read_reviews" => g.ep \in Readers
      /\ f.ep \notin {"ro_read_reviews", "ro_read_movie_reviews"} =>
           g.ep \notin Readers /\ ~(g.ep = "ro_read_page" /\ g.at = "gotReviews")
  BY WaitsFor
<1>2. ASSUME h.ep \in {"ro_read_movie_reviews", "ro_read_page"}, h.at = "gotReviews"
      PROVE  \A i \in DOMAIN h.res.reviews : h.res.reviews[i].movie = h.req.movie
  <2>1. CASE f.ep = "ro_read_reviews"
    <3>1. g.ep = "ro_read_movie_reviews" BY <1>1, <1>2, <2>1 DEF Readers
    <3>2. r.reviews = f.my BY <2>1 DEF Gives
    <3> QED BY <2>1, <3>1, <3>2 DEF FrameFound
  <2>2. CASE f.ep = "ro_read_movie_reviews"
    <3>1. f.at = "gotReviews" /\ r.reviews = f.res.reviews BY <2>2 DEF Gives, Readers
    <3>2. f.req.movie = g.req.movie BY <2>2 DEF SameReview
    <3> QED BY <2>2, <3>1, <3>2 DEF FrameFound
  <2> QED BY <1>1, <1>2, <2>1, <2>2 DEF Readers
<1>3. ASSUME h.ep = "ro_read_user_reviews", h.at = "gotReviews"
      PROVE  \A i \in DOMAIN h.res.reviews : h.res.reviews[i].user = h.req.user
  <2>1. f.ep = "ro_read_reviews" BY <1>1, <1>3 DEF Readers
  <2>2. r.reviews = f.my BY <2>1 DEF Gives
  <2> QED BY <1>3, <2>1, <2>2 DEF FrameFound
<1> QED BY <1>1, <1>2, <1>3 DEF FrameFound, Uploading

\* The next review that is read.
LEMMA FoundRead ==
  ASSUME StatesOK, NEW c \in Clients, NEW f \in Frames(c), f.ep = "ro_read_reviews", NEW g,
         FrameFound(f, g), NEW place, NEW my, GoesTo(f, place, my)
  PROVE  /\ g.ep = "ro_read_movie_reviews" => \A i \in DOMAIN my : my[i].movie = g.req.movie
         /\ g.ep = "ro_read_user_reviews" => \A i \in DOMAIN my : my[i].user = g.req.user
<1> DEFINE n == Len(f.my) + 1
           id == f.req.reviews[n]
           v == IF Has(reviews, id) THEN GetState(reviews, id) ELSE NoReview
<1>1. n \in DOMAIN f.req.reviews /\ my = Append(f.my, v) BY DEF GoesTo
<1>2. f.my \in Seq(Found) BY FrameParts DEF LocalsAt
<1>3. v \in Found BY DEF Found, StatesOK, StateOf, Has, GetState
<1>4. Len(f.my) \in Nat /\ DOMAIN f.my = 1 .. Len(f.my) BY <1>2, LenProperties
<1> HIDE DEF v
<1>5. /\ my \in Seq(Found) /\ Len(my) = n /\ my[n] = v
      /\ \A i \in 1 .. Len(f.my) : my[i] = f.my[i]
  BY <1>1, <1>2, <1>3, AppendProperties
<1>6. DOMAIN my = 1 .. n BY <1>5, LenProperties
<1>7. \A i \in DOMAIN my : i = n \/ i \in DOMAIN f.my BY <1>4, <1>6
<1>8. \A i \in DOMAIN my : my[i] = v \/ (i \in DOMAIN f.my /\ my[i] = f.my[i]) BY <1>4, <1>5, <1>7
<1>9. ASSUME g.ep = "ro_read_movie_reviews" PROVE v.movie = g.req.movie
  <2>1. OfMovie(g.req.movie, id) BY <1>1, <1>9 DEF FrameFound
  <2> QED BY <2>1 DEF v, OfMovie, Has, GetState
<1>10. ASSUME g.ep = "ro_read_user_reviews" PROVE v.user = g.req.user
  <2>1. OfUser(g.req.user, id) BY <1>1, <1>10 DEF FrameFound
  <2> QED BY <2>1 DEF v, OfUser, Has, GetState
<1> HIDE DEF n, id
<1> QED BY <1>8, <1>9, <1>10 DEF FrameFound

\* The request of a read of an index.
LEMMA FoundAsked ==
  ASSUME StatesOK, IndexFound, NEW c \in Clients, NEW f \in Frames(c), NEW e, NEW q, Seeks(f, e, q)
  PROVE  /\ f.ep = "ro_read_movie_reviews" =>
              \A i \in DOMAIN q.reviews : OfMovie(f.req.movie, q.reviews[i])
         /\ f.ep = "ro_read_user_reviews" =>
              \A i \in DOMAIN q.reviews : OfUser(f.req.user, q.reviews[i])
<1>1. ASSUME f.ep = "ro_read_movie_reviews"
      PROVE  \A i \in DOMAIN q.reviews : OfMovie(f.req.movie, q.reviews[i])
  <2> DEFINE list == getMovieReviews(f.req.movie)
  <2>1. RequestOf["ro_read_movie_reviews"] = ReadMovieReviewsRequest BY DEF RequestOf
  <2>2. f.req \in ReadMovieReviewsRequest BY <1>1, <2>1, FrameParts
  <2>3. f.req.movie \in Movies BY <2>2 DEF ReadMovieReviewsRequest
  <2>4. MovieList(f.req.movie, list) BY <2>3 DEF IndexFound
  <2>5. list \in Seq([review : ReviewIds]) BY Lists DEF KeptMovie, MovieReview
  <2>6. q.reviews = Ids(list) BY <1>1 DEF Seeks
  <2> HIDE DEF list
  <2>7. DOMAIN Ids(list) = DOMAIN list /\ \A i \in DOMAIN list : Ids(list)[i] = list[i].review
    BY <2>5, IdsOf
  <2> QED BY <2>4, <2>6, <2>7 DEF MovieList
<1>2. ASSUME f.ep = "ro_read_user_reviews"
      PROVE  \A i \in DOMAIN q.reviews : OfUser(f.req.user, q.reviews[i])
  <2> DEFINE list == getUserReviews(f.req.user)
  <2>1. RequestOf["ro_read_user_reviews"] = ReadUserReviewsRequest BY DEF RequestOf
  <2>2. f.req \in ReadUserReviewsRequest BY <1>2, <2>1, FrameParts
  <2>3. f.req.user \in UserIds BY <2>2 DEF ReadUserReviewsRequest
  <2>4. UserList(f.req.user, list) BY <2>3 DEF IndexFound
  <2>5. list \in Seq([review : ReviewIds]) BY Lists DEF KeptUser, UserReview
  <2>6. q.reviews = Ids(list) BY <1>2 DEF Seeks
  <2> HIDE DEF list
  <2>7. DOMAIN Ids(list) = DOMAIN list /\ \A i \in DOMAIN list : Ids(list)[i] = list[i].review
    BY <2>5, IdsOf
  <2> QED BY <2>4, <2>6, <2>7 DEF UserList
<1> QED BY <1>1, <1>2

LEMMA FoundGoes ==
  ASSUME StatesOK, IndexFound, NEW c \in Clients, NEW f \in Frames(c), NEW g, FrameFound(f, g),
         NEW place, NEW my, GoesTo(f, place, my),
         NEW h, h.ep = f.ep, h.req = f.req, h.at = place, h.my = my
  PROVE  FrameFound(h, g)
<1>1. f.ep \in Uploading \cup {"ro_read_reviews", "ro_read_cast_infos"} BY DEF GoesTo
<1>2. CASE f.ep = "upload_movie_review"
  <2>1. RequestOf["upload_movie_review"] = UploadMovieReviewRequest BY DEF RequestOf
  <2>2. f.req \in UploadMovieReviewRequest BY <1>2, <2>1, FrameParts
  <2>3. f.req.movie \in Movies BY <2>2 DEF UploadMovieReviewRequest
  <2>4. MovieList(f.req.movie, my) BY <1>2, <2>3 DEF GoesTo, IndexFound
  <2> QED BY <1>2, <2>4 DEF FrameFound
<1>3. CASE f.ep = "upload_user_review"
  <2>1. RequestOf["upload_user_review"] = UploadUserReviewRequest BY DEF RequestOf
  <2>2. f.req \in UploadUserReviewRequest BY <1>3, <2>1, FrameParts
  <2>3. f.req.user \in UserIds BY <2>2 DEF UploadUserReviewRequest
  <2>4. UserList(f.req.user, my) BY <1>3, <2>3 DEF GoesTo, IndexFound
  <2> QED BY <1>3, <2>4 DEF FrameFound
<1>4. CASE f.ep = "ro_read_reviews"
  <2>1. /\ g.ep = "ro_read_movie_reviews" => \A i \in DOMAIN my : my[i].movie = g.req.movie
        /\ g.ep = "ro_read_user_reviews" => \A i \in DOMAIN my : my[i].user = g.req.user
    BY <1>4, FoundRead
  <2> QED BY <1>4, <2>1 DEF FrameFound
<1>5. CASE f.ep = "ro_read_cast_infos" BY <1>5 DEF FrameFound
<1> QED BY <1>1, <1>2, <1>3, <1>4, <1>5 DEF Uploading

\* A step of c leaves what its handlers have read, and what it answers, right.
LEMMA FoundStep ==
  ASSUME CallsOK, StatesOK, IndexFound, Grown, NEW c \in Clients, call[c] # <<>>, Step(c),
         HeadFound(c)
  PROVE  HeadFound(c)' /\ AnswerFound(c)'
<1>1. Outcome(c) BY StepOK
<1>2. answer[c].ok = FALSE
  <2>1. answer[c].ep = "none" /\ "none" \notin DOMAIN ResponseOf BY StackOf, Names
  <2>2. answer[c].ok \in BOOLEAN BY DEF CallsOK, Answers
  <2> QED BY <2>1, <2>2 DEF CallsOK
<1>3. PICK f \in Frames(c) : f = call[c][1] BY StackOf
<1>4. PICK g : g = call[c][2] OBVIOUS
<1>5. FrameFound(f, g) BY <1>3, <1>4 DEF HeadFound
<1>6. ASSUME NEW h, NEW x, call'[c][1] = h, call'[c][2] = x, FrameFound(h, x) PROVE HeadFound(c)'
  <2>1. FrameFound(h, x)' BY <1>6, FoundGrows
  <2> QED BY <1>6, <2>1 DEF HeadFound
<1>7. CASE Over(c, FALSE, <<>>)
  <2>1. call'[c] = <<>> /\ answer'[c].ok = FALSE BY <1>7 DEF Over
  <2> QED BY <2>1 DEF HeadFound, AnswerFound
<1>8. ASSUME NEW r, Gives(f, r), Len(call[c]) = 1, Over(c, TRUE, r)
      PROVE  HeadFound(c)' /\ AnswerFound(c)'
  <2>1. Bottom(c) = f BY <1>3, <1>8 DEF Bottom
  <2>2. call'[c] = <<>> /\ answer'[c].ep = f.ep /\ answer'[c].req = f.req /\ answer'[c].res = r
    BY <1>8, <2>1 DEF Over
  <2>3. f.ep = "ro_read_page" => \A y \in Elements(r.page.reviews) : y.movie = f.req.movie
    BY <1>5, <1>8 DEF Gives, FrameFound, Elements
  <2>4. f.ep = "ro_read_user_reviews" => \A y \in Elements(r.reviews) : y.user = f.req.user
    BY <1>5, <1>8 DEF Gives, FrameFound, Elements, Readers
  <2> QED BY <2>2, <2>3, <2>4 DEF HeadFound, AnswerFound
<1>9. ASSUME NEW r, Gives(f, r), Back(c, r) PROVE HeadFound(c)' /\ AnswerFound(c)'
  <2>1. /\ answer'[c] = answer[c] /\ SameReview(f, g) /\ <<g.ep, g.at, f.ep>> \in Sites
        /\ call'[c][1].ep = g.ep /\ call'[c][1].req = g.req
        /\ call'[c][1].at = g.at /\ call'[c][1].res = r
    BY <1>3, <1>4, <1>9, BackHead
  <2>2. PICK h : h = call'[c][1] OBVIOUS
  <2>3. PICK x : x = call'[c][2] OBVIOUS
  <2>4. FrameFound(h, x) BY <1>5, <1>9, <2>1, <2>2, FoundBack
  <2> QED BY <1>2, <1>6, <2>1, <2>2, <2>3, <2>4 DEF AnswerFound
<1>10. ASSUME NEW place \in PlaceNames, NEW my \in LocalsAt(c, f.ep, place), GoesTo(f, place, my),
              Went(c, place, my)
       PROVE  HeadFound(c)' /\ AnswerFound(c)'
  <2>1. f.ep \in Uploading \cup {"ro_read_reviews", "ro_read_cast_infos"} BY <1>10 DEF GoesTo
  <2>2. Len(call[c]) # 1 BY <1>3, <2>1, Names, SecondIfCallee DEF Uploading
  <2>3. /\ answer'[c] = answer[c] /\ call'[c][1].ep = f.ep /\ call'[c][1].req = f.req
        /\ call'[c][1].at = place /\ call'[c][1].my = my /\ call'[c][2] = g
    BY <1>3, <1>4, <1>10, <2>2, WentHead
  <2>4. PICK h : h = call'[c][1] OBVIOUS
  <2>5. FrameFound(h, g) BY <1>5, <1>10, <2>3, <2>4, FoundGoes
  <2> QED BY <1>2, <1>6, <2>3, <2>4, <2>5 DEF AnswerFound
<1>11. ASSUME NEW place \in PlaceNames, NEW e \in Eps, NEW my, NEW q, Seeks(f, e, q),
              <<f.ep, place, e>> \in Sites, Deeper(c, e, q, place, my)
       PROVE  HeadFound(c)' /\ AnswerFound(c)'
  <2>1. /\ answer'[c] = answer[c] /\ call'[c][1].ep = e /\ call'[c][1].req = q
        /\ call'[c][1].at = "start" /\ call'[c][1].my = <<>>
        /\ call'[c][2].ep = f.ep /\ call'[c][2].req = f.req
    BY <1>3, <1>11, DeeperHead
  <2>2. PICK h : h = call'[c][1] OBVIOUS
  <2>3. PICK x : x = call'[c][2] OBVIOUS
  <2>4. /\ f.ep = "ro_read_movie_reviews" =>
             \A i \in DOMAIN q.reviews : OfMovie(f.req.movie, q.reviews[i])
        /\ f.ep = "ro_read_user_reviews" =>
             \A i \in DOMAIN q.reviews : OfUser(f.req.user, q.reviews[i])
    BY <1>11, FoundAsked
  <2>5. FrameFound(h, x) BY <2>1, <2>2, <2>3, <2>4 DEF FrameFound
  <2> QED BY <1>2, <1>6, <2>1, <2>2, <2>3, <2>5 DEF AnswerFound
<1> QED BY <1>1, <1>3, <1>7, <1>8, <1>9, <1>10, <1>11 DEF Outcome

\* An index that a review of its movie, or of its user, is appended to.
LEMMA FoundAppended ==
  ASSUME NEW c \in Clients
  PROVE  /\ \A m, list : list \in KeptMovie /\ MovieList(m, list) /\ OfMovie(m, c) =>
              MovieList(m, Append(DropOldest(list, MaxKept), [review |-> c]))
         /\ \A u, list : list \in KeptUser /\ UserList(u, list) /\ OfUser(u, c) =>
              UserList(u, Append(DropOldest(list, MaxKept), [review |-> c]))
<1> DEFINE R == [review : ReviewIds]
           x == [review |-> c]
<1>1. x \in R /\ x.review = c BY DEF ReviewIds
<1> HIDE DEF R, x
<1>2. ASSUME NEW list \in Seq(R), Len(list) <= MaxKept, NEW j \in DOMAIN Append(DropOldest(list, MaxKept), x)
      PROVE  \/ Append(DropOldest(list, MaxKept), x)[j] = x
             \/ \E i \in DOMAIN list : Append(DropOldest(list, MaxKept), x)[j] = list[i]
  <2> DEFINE k == DropOldest(list, MaxKept)
             new == Append(k, x)
  <2>1. MaxKept \in Nat \ {0} BY MovieAssumption
  <2>2. /\ k \in Seq(R)
        /\ \/ k = list
           \/ /\ Len(list) = MaxKept /\ Len(k) = Len(list) - 1
              /\ \A i \in 1 .. Len(list) - 1 : k[i] = list[i + 1]
    BY <1>2, <2>1, DroppedOldest
  <2> HIDE DEF k
  <2>3. /\ new \in Seq(R) /\ Len(new) = Len(k) + 1 /\ new[Len(k) + 1] = x
        /\ \A i \in 1 .. Len(k) : new[i] = k[i]
    BY <1>1, <2>2, AppendProperties
  <2>4. /\ Len(k) \in Nat /\ Len(list) \in Nat /\ DOMAIN list = 1 .. Len(list)
        /\ DOMAIN new = 1 .. Len(new)
    BY <1>2, <2>2, <2>3, LenProperties
  <2>5. j \in DOMAIN new BY <1>2 DEF k
  <2> HIDE DEF new
  <2>6. j \in 1 .. Len(k) + 1 BY <2>3, <2>4, <2>5
  <2>7. CASE j = Len(k) + 1 BY <2>3, <2>7 DEF new, k
  <2>8. CASE j \in 1 .. Len(k)
    <3>1. new[j] = k[j] BY <2>3, <2>8
    <3>2. \E i \in DOMAIN list : k[j] = list[i]
      <4>1. CASE k = list BY <2>4, <2>8, <4>1
      <4>2. CASE /\ Len(list) = MaxKept /\ Len(k) = Len(list) - 1
                 /\ \A i \in 1 .. Len(list) - 1 : k[i] = list[i + 1]
        <5>1. j \in 1 .. Len(list) - 1 BY <2>8, <4>2
        <5>2. j + 1 \in 1 .. Len(list) BY <2>4, <5>1
        <5> QED BY <2>4, <4>2, <5>1, <5>2
      <4> QED BY <2>2, <4>1, <4>2
    <3> QED BY <3>1, <3>2 DEF new, k
  <2>9. \A n \in Nat : \A i \in 1 .. n + 1 : i = n + 1 \/ i \in 1 .. n OBVIOUS
  <2> QED BY <2>4, <2>6, <2>7, <2>8, <2>9
<1>3. KeptMovie = {list \in Seq(R) : Len(list) <= MaxKept} BY DEF KeptMovie, MovieReview, R
<1>4. KeptUser = {list \in Seq(R) : Len(list) <= MaxKept} BY DEF KeptUser, UserReview, R
<1>5. \A m, list : list \in KeptMovie /\ MovieList(m, list) /\ OfMovie(m, c) =>
         MovieList(m, Append(DropOldest(list, MaxKept), x))
  BY <1>1, <1>2, <1>3 DEF MovieList
<1>6. \A u, list : list \in KeptUser /\ UserList(u, list) /\ OfUser(u, c) =>
         UserList(u, Append(DropOldest(list, MaxKept), x))
  BY <1>1, <1>2, <1>4 DEF UserList
<1> QED BY <1>5, <1>6 DEF x

LEMMA FoundHandled ==
  ASSUME CallsOK, StatesOK, LogOK, ProgressOK, FoundInv, NEW c \in Clients, Handled(c)
  PROVE  FoundInv'
<1>1. call[c] # <<>> /\ Step(c) /\ Progressed(c) /\ HeadFound(c) /\ IndexFound
  BY DEF Handled, ProgressOK, FoundInv
<1>2. Grown BY ProgressHandled
<1>3. Others(c) BY <1>1, StepOK
<1>4. HeadFound(c)' /\ AnswerFound(c)' BY <1>1, <1>2, FoundStep
<1>5. ASSUME NEW d \in Clients, d # c PROVE HeadFound(d)' /\ AnswerFound(d)'
  <2>1. call'[d] = call[d] /\ answer'[d] = answer[d] BY <1>3, <1>5 DEF Others
  <2>2. HeadFound(d) /\ AnswerFound(d) BY DEF FoundInv
  <2>3. AnswerFound(d)' BY <2>1, <2>2 DEF AnswerFound
  <2>4. HeadFound(d)'
    <3>1. PICK f : f = call[d][1] OBVIOUS
    <3>2. PICK g : g = call[d][2] OBVIOUS
    <3>3. call[d] # <<>> => FrameFound(f, g) BY <2>2, <3>1, <3>2 DEF HeadFound
    <3>4. call[d] # <<>> => FrameFound(f, g)' BY <1>2, <3>3, FoundGrows
    <3> QED BY <2>1, <3>1, <3>2, <3>4 DEF HeadFound
  <2> QED BY <2>3, <2>4
<1>6. ASSUME NEW m \in Movies, UNCHANGED getMovieReviews(m) PROVE MovieList(m, getMovieReviews(m))'
  <2>1. PICK list : list = getMovieReviews(m) OBVIOUS
  <2>2. MovieList(m, list) BY <1>1, <2>1 DEF IndexFound
  <2>3. MovieList(m, list)' BY <1>2, <2>2, FoundGrows
  <2> QED BY <1>6, <2>1, <2>3 DEF MovieList
<1>7. ASSUME NEW u \in UserIds, UNCHANGED getUserReviews(u) PROVE UserList(u, getUserReviews(u))'
  <2>1. PICK list : list = getUserReviews(u) OBVIOUS
  <2>2. UserList(u, list) BY <1>1, <2>1 DEF IndexFound
  <2>3. UserList(u, list)' BY <1>2, <2>2, FoundGrows
  <2> QED BY <1>7, <2>1, <2>3 DEF UserList
<1>8. IndexFound'
  <2>1. CASE UNCHANGED <<movieReviews, userReviews>>
    <3>1. /\ \A m : UNCHANGED getMovieReviews(m)
          /\ \A u : UNCHANGED getUserReviews(u)
      BY <2>1 DEF getMovieReviews, getUserReviews
    <3> QED BY <1>6, <1>7, <3>1 DEF IndexFound
  <2>2. CASE MovieIndexed(c) /\ Returns(c)
    <3>1. PICK m \in Movies : m = call[c][1].req.movie /\ OfMovie(m, c) BY <1>1, <2>2, ProgressMovie
    <3>2. PICK list : list = call[c][1].my OBVIOUS
    <3> DEFINE new == Append(DropOldest(list, MaxKept), [review |-> c])
    <3>3. movieReviews' = SetState(movieReviews, m, new) /\ UNCHANGED userReviews
      BY <2>2, <3>1, <3>2, MovieChange
    <3>4. list \in KeptMovie /\ MovieList(m, list)
      <4>1. call[c][1].ep = "upload_movie_review" /\ call[c][1].at = "loaded" BY <2>2 DEF MovieIndexed
      <4>2. call[c][1] \in Frames(c) BY <1>1, StackOf
      <4>3. list \in KeptMovie BY <3>2, <4>1, <4>2, FrameParts DEF LocalsAt
      <4>4. MovieList(m, list) BY <1>1, <3>1, <3>2, <4>1 DEF HeadFound, FrameFound
      <4> QED BY <4>3, <4>4
    <3>5. MovieList(m, new) BY <3>1, <3>4, FoundAppended
    <3>6. PICK n : n = new OBVIOUS
    <3> HIDE DEF new
    <3>7. MovieList(m, n)' BY <1>2, <3>5, <3>6, FoundGrows
    <3>8. /\ getMovieReviews(m)' = n
          /\ \A y : y # m => UNCHANGED getMovieReviews(y)
      BY <3>3, <3>6 DEF getMovieReviews, SetState, Has, GetState
    <3>9. MovieList(m, getMovieReviews(m))' BY <3>7, <3>8 DEF MovieList
    <3>10. \A u : UNCHANGED getUserReviews(u) BY <3>3 DEF getUserReviews
    <3> QED BY <1>6, <1>7, <3>8, <3>9, <3>10 DEF IndexFound
  <2>3. CASE UserIndexed(c) /\ Returns(c)
    <3>1. PICK u \in UserIds : u = call[c][1].req.user /\ OfUser(u, c) BY <1>1, <2>3, ProgressUser
    <3>2. PICK list : list = call[c][1].my OBVIOUS
    <3> DEFINE new == Append(DropOldest(list, MaxKept), [review |-> c])
    <3>3. userReviews' = SetState(userReviews, u, new) /\ UNCHANGED movieReviews
      BY <2>3, <3>1, <3>2, UserChange
    <3>4. list \in KeptUser /\ UserList(u, list)
      <4>1. call[c][1].ep = "upload_user_review" /\ call[c][1].at = "loaded" BY <2>3 DEF UserIndexed
      <4>2. call[c][1] \in Frames(c) BY <1>1, StackOf
      <4>3. list \in KeptUser BY <3>2, <4>1, <4>2, FrameParts DEF LocalsAt
      <4>4. UserList(u, list) BY <1>1, <3>1, <3>2, <4>1 DEF HeadFound, FrameFound
      <4> QED BY <4>3, <4>4
    <3>5. UserList(u, new) BY <3>1, <3>4, FoundAppended
    <3>6. PICK n : n = new OBVIOUS
    <3> HIDE DEF new
    <3>7. UserList(u, n)' BY <1>2, <3>5, <3>6, FoundGrows
    <3>8. /\ getUserReviews(u)' = n
          /\ \A y : y # u => UNCHANGED getUserReviews(y)
      BY <3>3, <3>6 DEF getUserReviews, SetState, Has, GetState
    <3>9. UserList(u, getUserReviews(u))' BY <3>7, <3>8 DEF UserList
    <3>10. \A m : UNCHANGED getMovieReviews(m) BY <3>3 DEF getMovieReviews
    <3> QED BY <1>6, <1>7, <3>8, <3>9, <3>10 DEF IndexFound
  <2>4. (UNCHANGED <<reviews, indexes>> \/ Stored(c)) => UNCHANGED <<movieReviews, userReviews>>
    BY DEF indexes, Stored
  <2> QED BY <2>1, <2>2, <2>3, <2>4 DEF Handled
<1> QED BY <1>4, <1>5, <1>8 DEF FoundInv

-----------------------------------------------------------------------------
(* The indexes keep the newest reviews.                                    *)

LEMMA IdsAppended ==
  ASSUME NEW list \in Seq([review : ReviewIds]), Len(list) <= MaxKept, NEW c \in Clients
  PROVE  Ids(Append(DropOldest(list, MaxKept), [review |-> c])) = Append(DropOldest(Ids(list), MaxKept), c)
<1> DEFINE R == [review : ReviewIds]
           x == [review |-> c]
           k == DropOldest(list, MaxKept)
           ids == Ids(list)
<1>1. MaxKept \in Nat \ {0} /\ x \in R /\ x.review = c /\ c \in ReviewIds
  BY MovieAssumption DEF ReviewIds
<1>2. Len(list) \in Nat BY LenProperties
<1>3. /\ ids \in Seq(ReviewIds) /\ Len(ids) = Len(list) /\ DOMAIN list = 1 .. Len(list)
      /\ \A i \in DOMAIN list : ids[i] = list[i].review
  BY IdsOf
<1>4. k \in Seq(R) BY <1>1, DroppedOldest
<1>5. DropOldest(ids, MaxKept) = Ids(k)
  <2>1. CASE Len(list) >= MaxKept
    <3>1. list # <<>> /\ ids # <<>> BY <1>1, <1>3, <2>1, EmptySeq
    <3>2. /\ Tail(list) \in Seq(R) /\ Len(Tail(list)) = Len(list) - 1
          /\ \A i \in 1 .. Len(list) - 1 : Tail(list)[i] = list[i + 1]
      BY <3>1, StackParts
    <3> HIDE DEF ids
    <3>3. /\ Tail(ids) \in Seq(ReviewIds) /\ Len(Tail(ids)) = Len(list) - 1
          /\ \A i \in 1 .. Len(list) - 1 : Tail(ids)[i] = ids[i + 1]
      BY <1>3, <3>1, StackParts
    <3>4. /\ Ids(Tail(list)) \in Seq(ReviewIds) /\ Len(Ids(Tail(list))) = Len(list) - 1
          /\ DOMAIN Tail(list) = 1 .. Len(list) - 1
          /\ \A i \in DOMAIN Tail(list) : Ids(Tail(list))[i] = Tail(list)[i].review
      BY <3>2, IdsOf
    <3>5. ASSUME NEW i \in 1 .. Len(list) - 1 PROVE Ids(Tail(list))[i] = Tail(ids)[i]
      <4>1. i + 1 \in 1 .. Len(list) BY <1>2, <3>5
      <4> QED BY <1>3, <3>2, <3>3, <3>4, <3>5, <4>1
    <3>6. Ids(Tail(list)) = Tail(ids) BY <3>3, <3>4, <3>5, SeqEqual
    <3> QED BY <1>3, <2>1, <3>6 DEF DropOldest
  <2>2. CASE ~(Len(list) >= MaxKept) BY <1>3, <2>2 DEF DropOldest
  <2> QED BY <2>1, <2>2
<1> HIDE DEF k, x
<1>6. /\ Ids(k) \in Seq(ReviewIds) /\ Len(Ids(k)) = Len(k) /\ DOMAIN k = 1 .. Len(k)
      /\ \A i \in DOMAIN k : Ids(k)[i] = k[i].review
  BY <1>4, IdsOf
<1>7. /\ Append(k, x) \in Seq(R) /\ Len(Append(k, x)) = Len(k) + 1 /\ Append(k, x)[Len(k) + 1] = x
      /\ \A i \in 1 .. Len(k) : Append(k, x)[i] = k[i]
  BY <1>1, <1>4, AppendProperties
<1>8. /\ Ids(Append(k, x)) \in Seq(ReviewIds) /\ Len(Ids(Append(k, x))) = Len(k) + 1
      /\ DOMAIN Append(k, x) = 1 .. Len(k) + 1
      /\ \A i \in DOMAIN Append(k, x) : Ids(Append(k, x))[i] = Append(k, x)[i].review
  BY <1>7, IdsOf
<1> DEFINE t == Append(Ids(k), c)
<1>9. /\ t \in Seq(ReviewIds) /\ Len(t) = Len(k) + 1 /\ t[Len(k) + 1] = c
      /\ \A i \in 1 .. Len(k) : t[i] = Ids(k)[i]
  BY <1>1, <1>6, AppendProperties
<1>10. \A i \in 1 .. Len(k) + 1 : i = Len(k) + 1 \/ i \in 1 .. Len(k)
  <2>1. \A n \in Nat : \A i \in 1 .. n + 1 : i = n + 1 \/ i \in 1 .. n OBVIOUS
  <2> QED BY <1>4, <2>1, LenProperties
<1> HIDE DEF t
<1>11. \A i \in 1 .. Len(k) + 1 : Ids(Append(k, x))[i] = t[i]
  BY <1>1, <1>6, <1>7, <1>8, <1>9, <1>10
<1>12. Ids(Append(k, x)) = t BY <1>8, <1>9, <1>11, SeqEqual
<1> QED BY <1>5, <1>12 DEF t, k, x

\* An index that no two uploads have raced for has the newest of what was
\* uploaded, and whoever has read it has read what it is now.
MovieHeld(m) ==
  \/ <<"movie", m>> \in raced
  \/ /\ Ids(getMovieReviews(m)) = Newest(Uploaded("movie", m), MaxKept)
     /\ \A c \in Clients : holds(c, "movie", m) => call[c][1].my = getMovieReviews(m)
UserHeld(u) ==
  \/ <<"user", u>> \in raced
  \/ /\ Ids(getUserReviews(u)) = Newest(Uploaded("user", u), MaxKept)
     /\ \A c \in Clients : holds(c, "user", u) => call[c][1].my = getUserReviews(u)
HeldOK == (\A m \in Movies : MovieHeld(m)) /\ \A u \in UserIds : UserHeld(u)

Holder(f, kind, key) ==
  /\ f.at = "loaded"
  /\ \/ kind = "movie" /\ f.ep = "upload_movie_review" /\ f.req.movie = key
     \/ kind = "user" /\ f.ep = "upload_user_review" /\ f.req.user = key

LEMMA HoldsIs ==
  ASSUME CallsOK, CallsOK', NEW c \in Clients, NEW kind, NEW key
  PROVE  /\ holds(c, kind, key) <=> call[c] # <<>> /\ Holder(call[c][1], kind, key)
         /\ holds(c, kind, key)' <=> call'[c] # <<>> /\ Holder(call'[c][1], kind, key)
<1>1. \A s \in Calls(c) : s # <<>> => Head(s) = s[1] BY StackParts DEF Calls, Stacks
<1>2. call[c] \in Calls(c) /\ call'[c] \in Calls(c) BY DEF CallsOK
<1> QED BY <1>1, <1>2 DEF holds, Holder, Idle, Serving, At, Req

\* Nobody holds an older entry than before.
HoldersKept ==
  \A d \in Clients : \A key :
    /\ holds(d, "movie", key)' =>
         \/ holds(d, "movie", key) /\ call'[d][1] = call[d][1]
         \/ call'[d][1].my = getMovieReviews(key)
    /\ holds(d, "user", key)' =>
         \/ holds(d, "user", key) /\ call'[d][1] = call[d][1]
         \/ call'[d][1].my = getUserReviews(key)

LEMMA HeldStays ==
  ASSUME HoldersKept, raced \subseteq raced'
  PROVE  /\ \A m : MovieHeld(m) /\ UNCHANGED getMovieReviews(m) /\ UNCHANGED Uploaded("movie", m)
                     => MovieHeld(m)'
         /\ \A u : UserHeld(u) /\ UNCHANGED getUserReviews(u) /\ UNCHANGED Uploaded("user", u)
                     => UserHeld(u)'
<1>1. ASSUME NEW m, MovieHeld(m), UNCHANGED getMovieReviews(m), UNCHANGED Uploaded("movie", m)
      PROVE  MovieHeld(m)'
  <2>1. CASE <<"movie", m>> \in raced BY <2>1 DEF MovieHeld
  <2>2. CASE <<"movie", m>> \notin raced
    <3>1. PICK list : list = getMovieReviews(m) OBVIOUS
    <3>2. getMovieReviews(m)' = list BY <1>1, <3>1
    <3>3. Ids(list) = Newest(Uploaded("movie", m), MaxKept)
          /\ \A c \in Clients : holds(c, "movie", m) => call[c][1].my = list
      BY <1>1, <2>2, <3>1 DEF MovieHeld
    <3>4. \A c \in Clients : holds(c, "movie", m)' => call'[c][1].my = list
      BY <3>1, <3>3 DEF HoldersKept
    <3>5. Ids(list) = Newest(Uploaded("movie", m), MaxKept)' BY <1>1, <3>3
    <3>6. Ids(getMovieReviews(m))' = Ids(list) BY <3>2 DEF Ids
    <3> QED BY <3>2, <3>4, <3>5, <3>6 DEF MovieHeld
  <2> QED BY <2>1, <2>2
<1>2. ASSUME NEW u, UserHeld(u), UNCHANGED getUserReviews(u), UNCHANGED Uploaded("user", u)
      PROVE  UserHeld(u)'
  <2>1. CASE <<"user", u>> \in raced BY <2>1 DEF UserHeld
  <2>2. CASE <<"user", u>> \notin raced
    <3>1. PICK list : list = getUserReviews(u) OBVIOUS
    <3>2. getUserReviews(u)' = list BY <1>2, <3>1
    <3>3. Ids(list) = Newest(Uploaded("user", u), MaxKept)
          /\ \A c \in Clients : holds(c, "user", u) => call[c][1].my = list
      BY <1>2, <2>2, <3>1 DEF UserHeld
    <3>4. \A c \in Clients : holds(c, "user", u)' => call'[c][1].my = list
      BY <3>1, <3>3 DEF HoldersKept
    <3>5. Ids(list) = Newest(Uploaded("user", u), MaxKept)' BY <1>2, <3>3
    <3>6. Ids(getUserReviews(u))' = Ids(list) BY <3>2 DEF Ids
    <3> QED BY <3>2, <3>4, <3>5, <3>6 DEF UserHeld
  <2> QED BY <2>1, <2>2
<1> QED BY <1>1, <1>2

LEMMA HoldersOthers ==
  ASSUME CallsOK, CallsOK', NEW d \in Clients, call'[d] = call[d], NEW kind, NEW key
  PROVE  holds(d, kind, key)' <=> holds(d, kind, key)
BY HoldsIs

\* A step of c: what it has read is what the index is.
LEMMA HoldersStep ==
  ASSUME CallsOK, NEW c \in Clients, call[c] # <<>>, Step(c)
  PROVE  HoldersKept
<1>1. CallsOK' /\ Others(c) /\ Outcome(c) BY StepOK
<1>2. ASSUME NEW d \in Clients, d # c, NEW kind, NEW key, holds(d, kind, key)'
      PROVE  holds(d, kind, key) /\ call'[d][1] = call[d][1]
  <2>1. call'[d] = call[d] BY <1>1, <1>2 DEF Others
  <2> QED BY <1>1, <1>2, <2>1, HoldersOthers
<1>3. ASSUME NEW kind, NEW key, holds(c, kind, key)'
      PROVE  \/ kind = "movie" /\ call'[c][1].my = getMovieReviews(key)
             \/ kind = "user" /\ call'[c][1].my = getUserReviews(key)
  <2> DEFINE f == call[c][1]
  <2>1. call'[c] # <<>> /\ Holder(call'[c][1], kind, key) BY <1>1, <1>3, HoldsIs
  <2>2. call'[c][1].at = "loaded" BY <2>1 DEF Holder
  <2>3. ~Over(c, FALSE, <<>>) /\ \A r : ~Over(c, TRUE, r) BY <2>1 DEF Over
  <2>4. ASSUME NEW r, Back(c, r) PROVE FALSE
    <3>1. /\ <<call[c][2].ep, call[c][2].at, call[c][1].ep>> \in Sites
          /\ call'[c][1].at = call[c][2].at
      BY <2>4, BackHead
    <3> QED BY <2>2, <3>1, SiteNames
  <2>5. ASSUME NEW place, NEW e, NEW q, NEW my, Deeper(c, e, q, place, my) PROVE FALSE
    <3>1. call'[c][1].at = "start" BY <2>5, DeeperHead
    <3> QED BY <2>2, <3>1
  <2>6. PICK place \in PlaceNames : \E my \in LocalsAt(c, f.ep, place) :
          GoesTo(f, place, my) /\ Went(c, place, my)
    BY <1>1, <2>3, <2>4, <2>5 DEF Outcome
  <2>7. PICK my \in LocalsAt(c, f.ep, place) : GoesTo(f, place, my) /\ Went(c, place, my) BY <2>6
  <2>8. /\ call'[c][1].ep = f.ep /\ call'[c][1].req = f.req /\ call'[c][1].my = my
    BY <2>7, WentHead
  <2>9. CASE kind = "movie" /\ f.ep = "upload_movie_review" /\ f.req.movie = key
    BY <2>7, <2>8, <2>9 DEF GoesTo
  <2>10. CASE kind = "user" /\ f.ep = "upload_user_review" /\ f.req.user = key
    BY <2>7, <2>8, <2>10 DEF GoesTo
  <2> QED BY <2>1, <2>8, <2>9, <2>10 DEF Holder
<1> QED BY <1>2, <1>3 DEF HoldersKept

\* The index after an upload that did not race.
LEMMA HeldMovie ==
  ASSUME CallsOK, StatesOK, LogOK, NEW c \in Clients, call[c] # <<>>, Step(c), MovieIndexed(c),
         Returns(c), Progressed(c), HeldOK
  PROVE  HeldOK'
<1>1. PICK m \in Movies : m = call[c][1].req.movie /\ OfMovie(m, c) BY ProgressMovie
<1>2. /\ raced \subseteq raced' /\ Appends(c, "movie", m, c) /\ UNCHANGED userReviews
      /\ movieReviews' = SetState(movieReviews, m, Append(DropOldest(call[c][1].my, MaxKept), [review |-> c]))
      /\ \A u \in UserIds : UNCHANGED Uploaded("user", u)
      /\ Uploaded("movie", m)' = Append(Uploaded("movie", m), c)
      /\ \A y \in Movies \ {m} : UNCHANGED Uploaded("movie", y)
  BY <1>1, MovieChange
<1>3. HoldersKept /\ CallsOK' /\ Others(c) BY HoldersStep, StepOK
<1>4. PICK list : list = getMovieReviews(m) OBVIOUS
<1>5. list \in KeptMovie BY <1>4, Lists
<1>6. /\ \A y : y # m => UNCHANGED getMovieReviews(y)
      /\ \A u : UNCHANGED getUserReviews(u)
  BY <1>2 DEF getMovieReviews, getUserReviews, SetState, Has, GetState
<1>7. getMovieReviews(m)' = Append(DropOldest(call[c][1].my, MaxKept), [review |-> c])
  BY <1>2 DEF getMovieReviews, SetState, Has, GetState
<1>8. holds(c, "movie", m)
  <2>1. call[c][1].ep = "upload_movie_review" /\ call[c][1].at = "loaded" BY DEF MovieIndexed
  <2> QED BY <1>1, <1>3, <2>1, HoldsIs DEF Holder
<1>9. ASSUME <<"movie", m>> \notin raced' PROVE MovieHeld(m)'
  <2>1. \A d \in Clients \ {c} : ~holds(d, "movie", m)
    BY <1>2, <1>9 DEF Appends
  <2>2. <<"movie", m>> \notin raced BY <1>2, <1>9
  <2>3. call[c][1].my = list /\ Ids(list) = Newest(Uploaded("movie", m), MaxKept)
    BY <1>4, <1>8, <2>2 DEF HeldOK, MovieHeld
  <2> DEFINE new == Append(DropOldest(list, MaxKept), [review |-> c])
  <2>4. getMovieReviews(m)' = new BY <1>7, <2>3
  <2>5. Uploaded("movie", m) \in Seq(Clients) BY DEF LogOK
  <2>6. PICK old \in Seq(Clients) : old = Uploaded("movie", m) BY <2>5
  <2>7. Newest(Append(old, c), MaxKept) = Append(DropOldest(Newest(old, MaxKept), MaxKept), c)
    BY MovieAssumption, NewestAppended
  <2>8. Ids(new) = Append(DropOldest(Ids(list), MaxKept), c)
    <3>1. list \in Seq([review : ReviewIds]) /\ Len(list) <= MaxKept
      BY <1>5 DEF KeptMovie, MovieReview
    <3> QED BY <3>1, IdsAppended
  <2>9. Uploaded("movie", m)' = Append(old, c) BY <1>2, <2>6
  <2> HIDE DEF new
  <2>10. Ids(getMovieReviews(m))' = Newest(Uploaded("movie", m), MaxKept)'
    <3>1. Ids(getMovieReviews(m))' = Ids(new) BY <2>4 DEF Ids
    <3>2. Ids(new) = Newest(Append(old, c), MaxKept) BY <2>3, <2>6, <2>7, <2>8
    <3> QED BY <2>9, <3>1, <3>2
  <2>11. ~holds(c, "movie", m)'
    <3>1. call[c][1].ep = "upload_movie_review" BY DEF MovieIndexed
    <3>2. call'[c][1].at = "uploadUser" BY <3>1, UploadsStored DEF Uploading
    <3> QED BY <1>3, <3>2, HoldsIs DEF Holder
  <2>12. \A d \in Clients : ~holds(d, "movie", m)'
    BY <1>3, <2>1, <2>11, HoldersOthers DEF Others
  <2> QED BY <2>10, <2>12 DEF MovieHeld
<1>10. MovieHeld(m)' BY <1>9 DEF MovieHeld
<1>11. \A y \in Movies \ {m} : MovieHeld(y)' BY <1>2, <1>3, <1>6, HeldStays DEF HeldOK
<1>12. \A u \in UserIds : UserHeld(u)' BY <1>2, <1>3, <1>6, HeldStays DEF HeldOK
<1> QED BY <1>10, <1>11, <1>12 DEF HeldOK

LEMMA HeldUser ==
  ASSUME CallsOK, StatesOK, LogOK, NEW c \in Clients, call[c] # <<>>, Step(c), UserIndexed(c),
         Returns(c), Progressed(c), HeldOK
  PROVE  HeldOK'
<1>1. PICK u \in UserIds : u = call[c][1].req.user /\ OfUser(u, c) BY ProgressUser
<1>2. /\ raced \subseteq raced' /\ Appends(c, "user", u, c) /\ UNCHANGED movieReviews
      /\ userReviews' = SetState(userReviews, u, Append(DropOldest(call[c][1].my, MaxKept), [review |-> c]))
      /\ \A m \in Movies : UNCHANGED Uploaded("movie", m)
      /\ Uploaded("user", u)' = Append(Uploaded("user", u), c)
      /\ \A y \in UserIds \ {u} : UNCHANGED Uploaded("user", y)
  BY <1>1, UserChange
<1>3. HoldersKept /\ CallsOK' /\ Others(c) BY HoldersStep, StepOK
<1>4. PICK list : list = getUserReviews(u) OBVIOUS
<1>5. list \in KeptUser BY <1>4, Lists
<1>6. /\ \A y : y # u => UNCHANGED getUserReviews(y)
      /\ \A m : UNCHANGED getMovieReviews(m)
  BY <1>2 DEF getUserReviews, getMovieReviews, SetState, Has, GetState
<1>7. getUserReviews(u)' = Append(DropOldest(call[c][1].my, MaxKept), [review |-> c])
  BY <1>2 DEF getUserReviews, SetState, Has, GetState
<1>8. holds(c, "user", u)
  <2>1. call[c][1].ep = "upload_user_review" /\ call[c][1].at = "loaded" BY DEF UserIndexed
  <2> QED BY <1>1, <1>3, <2>1, HoldsIs DEF Holder
<1>9. ASSUME <<"user", u>> \notin raced' PROVE UserHeld(u)'
  <2>1. \A d \in Clients \ {c} : ~holds(d, "user", u)
    BY <1>2, <1>9 DEF Appends
  <2>2. <<"user", u>> \notin raced BY <1>2, <1>9
  <2>3. call[c][1].my = list /\ Ids(list) = Newest(Uploaded("user", u), MaxKept)
    BY <1>4, <1>8, <2>2 DEF HeldOK, UserHeld
  <2> DEFINE new == Append(DropOldest(list, MaxKept), [review |-> c])
  <2>4. getUserReviews(u)' = new BY <1>7, <2>3
  <2>5. Uploaded("user", u) \in Seq(Clients) BY DEF LogOK
  <2>6. PICK old \in Seq(Clients) : old = Uploaded("user", u) BY <2>5
  <2>7. Newest(Append(old, c), MaxKept) = Append(DropOldest(Newest(old, MaxKept), MaxKept), c)
    BY MovieAssumption, NewestAppended
  <2>8. Ids(new) = Append(DropOldest(Ids(list), MaxKept), c)
    <3>1. list \in Seq([review : ReviewIds]) /\ Len(list) <= MaxKept
      BY <1>5 DEF KeptUser, UserReview
    <3> QED BY <3>1, IdsAppended
  <2>9. Uploaded("user", u)' = Append(old, c) BY <1>2, <2>6
  <2> HIDE DEF new
  <2>10. Ids(getUserReviews(u))' = Newest(Uploaded("user", u), MaxKept)'
    <3>1. Ids(getUserReviews(u))' = Ids(new) BY <2>4 DEF Ids
    <3>2. Ids(new) = Newest(Append(old, c), MaxKept) BY <2>3, <2>6, <2>7, <2>8
    <3> QED BY <2>9, <3>1, <3>2
  <2>11. ~holds(c, "user", u)'
    <3>1. call[c][1].ep = "upload_user_review" BY DEF UserIndexed
    <3>2. call'[c][1].at = "done" BY <3>1, UploadsStored DEF Uploading
    <3> QED BY <1>3, <3>2, HoldsIs DEF Holder
  <2>12. \A d \in Clients : ~holds(d, "user", u)'
    BY <1>3, <2>1, <2>11, HoldersOthers DEF Others
  <2> QED BY <2>10, <2>12 DEF UserHeld
<1>10. UserHeld(u)' BY <1>9 DEF UserHeld
<1>11. \A y \in UserIds \ {u} : UserHeld(y)' BY <1>2, <1>3, <1>6, HeldStays DEF HeldOK
<1>12. \A m \in Movies : MovieHeld(m)' BY <1>2, <1>3, <1>6, HeldStays DEF HeldOK
<1> QED BY <1>10, <1>11, <1>12 DEF HeldOK

LEMMA HeldHandled ==
  ASSUME CallsOK, StatesOK, LogOK, ProgressOK, HeldOK, NEW c \in Clients, Handled(c)
  PROVE  HeldOK'
<1>1. call[c] # <<>> /\ Step(c) /\ Progressed(c) BY DEF Handled, ProgressOK
<1>2. CASE UNCHANGED indexes
  <2>1. raced \subseteq raced' BY <1>2 DEF indexes
  <2>2. /\ \A m : UNCHANGED getMovieReviews(m) /\ UNCHANGED Uploaded("movie", m)
        /\ \A u : UNCHANGED getUserReviews(u) /\ UNCHANGED Uploaded("user", u)
    BY <1>2 DEF indexes, getMovieReviews, getUserReviews, Uploaded
  <2> QED BY <1>1, <2>1, <2>2, HoldersStep, HeldStays DEF HeldOK
<1>3. CASE MovieIndexed(c) /\ Returns(c) BY <1>1, <1>3, HeldMovie
<1>4. CASE UserIndexed(c) /\ Returns(c) BY <1>1, <1>4, HeldUser
<1> QED BY <1>2, <1>3, <1>4 DEF Handled, Stored

-----------------------------------------------------------------------------
(* The inductive invariant. *)

KeptInv == CallsOK /\ StatesOK /\ LogOK /\ ProgressOK /\ FoundInv /\ HeldOK

LEMMA KeptAtFirst == Init => KeptInv
<1> SUFFICES ASSUME Init PROVE KeptInv OBVIOUS
<1>1. CallsOK /\ StatesOK BY InitOK
<1> DEFINE a == [ep |-> "none", req |-> <<>>, ok |-> FALSE, res |-> <<>>]
<1>2. /\ \A c \in Clients : call[c] = <<>> /\ answer[c] = a
      /\ reviews = <<>> /\ movieReviews = <<>> /\ userReviews = <<>>
      /\ log = [kind \in Kinds |-> <<>>]
  BY DEF Init, InitServices, Kinds
<1>3. a.ok = FALSE OBVIOUS
<1> HIDE DEF a
<1>4. \A kind \in Kinds : \A key : Uploaded(kind, key) = <<>> BY <1>2 DEF Uploaded, Has
<1>5. /\ \A m : Uploaded("movie", m) = <<>> /\ \A r : ~InIndex("movie", m, r)
      /\ \A u : Uploaded("user", u) = <<>> /\ \A r : ~InIndex("user", u, r)
  BY <1>4 DEF Kinds, InIndex, Elements
<1>6. LogOK
  <2>1. <<>> \in Seq(Clients) BY EmptySeq
  <2> QED BY <1>2, <1>5, <2>1 DEF LogOK
<1>7. ProgressOK BY <1>2, <1>3 DEF ProgressOK, Progressed
<1>8. \A m : getMovieReviews(m) = <<>> /\ getUserReviews(m) = <<>>
  BY <1>2 DEF getMovieReviews, getUserReviews, Has
<1>9. FoundInv
  BY <1>2, <1>3, <1>8 DEF FoundInv, IndexFound, MovieList, UserList, HeadFound, AnswerFound
<1>10. HeldOK
  <2>1. Ids(<<>>) = <<>> /\ Newest(<<>>, MaxKept) = <<>>
    <3>1. Len(<<>>) = 0 /\ ~(0 > MaxKept) BY MovieAssumption, EmptySeq
    <3>2. Ids(<<>>) = <<>>
      <4>1. <<>> \in Seq([review : ReviewIds]) BY EmptySeq
      <4>2. Ids(<<>>) \in Seq(ReviewIds) /\ Len(Ids(<<>>)) = 0 BY <3>1, <4>1, IdsOf
      <4> QED BY <4>2, EmptySeq
    <3> QED BY <3>1, <3>2 DEF Newest
  <2>2. \A c \in Clients : \A kind, key : ~holds(c, kind, key) BY <1>2 DEF holds, Idle
  <2> QED BY <1>5, <1>8, <2>1, <2>2 DEF HeldOK, MovieHeld, UserHeld
<1> QED BY <1>1, <1>6, <1>7, <1>9, <1>10 DEF KeptInv

\* A request that a client makes.
LEMMA KeptAsked ==
  ASSUME KeptInv, CallsOK', NEW c \in Clients, Asked(c), UNCHANGED <<reviews, indexes>>
  PROVE  LogOK' /\ ProgressOK' /\ FoundInv' /\ HeldOK'
<1> USE DEF KeptInv
<1>1. PICK e \in DOMAIN ResponseOf : \E q \in RequestFor(c, e) : Asks(c, e, q) BY DEF Asked
<1>2. PICK q \in RequestFor(c, e) : Asks(c, e, q) BY <1>1
<1>3. /\ UNCHANGED answer /\ call'[c] # <<>> /\ call'[c][1] = Frame(e, q)
      /\ \A d \in Clients : d # c => call'[d] = call[d]
  BY <1>2, AsksStep
<1>4. Frame(e, q).ep = e /\ Frame(e, q).at = "start" BY DEF Frame
<1>5. \A kind, key : Uploaded(kind, key)' = Uploaded(kind, key) BY DEF Uploaded, indexes
<1>6. \A kind, key, r : InIndex(kind, key, r)' <=> InIndex(kind, key, r)
  BY DEF InIndex, Uploaded, indexes
<1>7. LogOK' BY <1>5, <1>6 DEF LogOK, OfMovie, OfUser, indexes
<1>8. OnlyOf(c) /\ Grown BY <1>6 DEF OnlyOf, Grown
<1>9. ProgressOK'
  <2>1. Progressed(c)' BY ProgressAsked DEF ProgressOK
  <2>2. ASSUME NEW d \in Clients, d # c PROVE Progressed(d)'
    <3>1. call'[d] = call[d] /\ answer'[d] = answer[d] BY <1>3, <2>2
    <3>2. Progressed(d) BY DEF ProgressOK
    <3> QED BY <1>8, <2>2, <3>1, <3>2, ProgressOthers
  <2> QED BY <2>1, <2>2 DEF ProgressOK
<1>10. /\ \A m : UNCHANGED getMovieReviews(m)
       /\ \A u : UNCHANGED getUserReviews(u)
  BY DEF getMovieReviews, getUserReviews, indexes
<1>11. FoundInv'
  <2>1. IndexFound' BY <1>10 DEF FoundInv, IndexFound, MovieList, UserList, OfMovie, OfUser
  <2>2. ASSUME NEW d \in Clients PROVE AnswerFound(d)'
    BY <1>3 DEF FoundInv, AnswerFound
  <2>3. HeadFound(c)'
    <3>1. e \notin Uploading \cup {"ro_read_reviews"} BY Names DEF Uploading
    <3>2. \A x : FrameFound(Frame(e, q), x) BY <1>4, <3>1 DEF FrameFound, Uploading
    <3>3. \A x : FrameFound(Frame(e, q), x)' BY <1>8, <3>2, FoundGrows
    <3> QED BY <1>3, <3>3 DEF HeadFound
  <2>4. ASSUME NEW d \in Clients, d # c PROVE HeadFound(d)'
    <3>1. PICK f : f = call[d][1] OBVIOUS
    <3>2. PICK g : g = call[d][2] OBVIOUS
    <3>3. call[d] # <<>> => FrameFound(f, g) BY <3>1, <3>2 DEF FoundInv, HeadFound
    <3>4. call[d] # <<>> => FrameFound(f, g)' BY <1>8, <3>3, FoundGrows
    <3> QED BY <1>3, <2>4, <3>1, <3>2, <3>4 DEF HeadFound
  <2> QED BY <2>1, <2>2, <2>3, <2>4 DEF FoundInv
<1>12. HeldOK'
  <2>1. \A kind, key : ~holds(c, kind, key)' BY <1>3, <1>4, HoldsIs DEF Holder
  <2>2. \A d \in Clients : \A kind, key : d # c /\ holds(d, kind, key)' => holds(d, kind, key)
    BY <1>3, HoldersOthers
  <2>3. HoldersKept BY <1>3, <2>1, <2>2 DEF HoldersKept
  <2>4. raced \subseteq raced' BY DEF indexes
  <2> QED BY <1>5, <1>10, <2>3, <2>4, HeldStays DEF HeldOK
<1> QED BY <1>7, <1>9, <1>11, <1>12

LEMMA KeptStep == ASSUME KeptInv, [Next]_vars PROVE KeptInv'
<1> USE DEF KeptInv
<1>1. /\ CallsOK' /\ StatesOK'
      /\ \/ UNCHANGED <<call, answer, reviews, indexes>>
         \/ \E c \in Clients : Asked(c) /\ UNCHANGED <<reviews, indexes>>
         \/ \E c \in Clients : Handled(c)
  BY NextCases
<1>2. CASE UNCHANGED <<call, answer, reviews, indexes>>
  <2>1. /\ \A kind, key : Uploaded(kind, key)' = Uploaded(kind, key)
        /\ \A kind, key, r : InIndex(kind, key, r)' <=> InIndex(kind, key, r)
    BY <1>2 DEF InIndex, Uploaded, indexes
  <2>2. LogOK' BY <1>2, <2>1 DEF LogOK, OfMovie, OfUser, indexes
  <2>3. \A d \in Clients : \A kind, key : holds(d, kind, key)' <=> holds(d, kind, key)
    BY <1>1, <1>2, HoldersOthers
  <2>4. ProgressOK'
    <3>1. \A d \in Clients : Stage(d)' = Stage(d) BY <1>2 DEF Stage
    <3>2. \A r : /\ InIndex("movie", reviews[r].movie, r)' <=> InIndex("movie", reviews[r].movie, r)
                 /\ InIndex("user", reviews[r].user, r)' <=> InIndex("user", reviews[r].user, r)
      BY <1>2 DEF InIndex, Uploaded, indexes
    <3> QED BY <1>2, <3>1, <3>2 DEF ProgressOK, Progressed
  <2>5. Grown BY <1>2 DEF Grown
  <2>6. /\ \A m : UNCHANGED getMovieReviews(m)
        /\ \A u : UNCHANGED getUserReviews(u)
    BY <1>2 DEF getMovieReviews, getUserReviews, indexes
  <2>7. FoundInv'
    <3>1. IndexFound' BY <1>2, <2>6 DEF FoundInv, IndexFound, MovieList, UserList, OfMovie, OfUser
    <3>2. ASSUME NEW d \in Clients PROVE HeadFound(d)' /\ AnswerFound(d)'
      <4>1. PICK f : f = call[d][1] OBVIOUS
      <4>2. PICK g : g = call[d][2] OBVIOUS
      <4>3. call[d] # <<>> => FrameFound(f, g) BY <4>1, <4>2 DEF FoundInv, HeadFound
      <4>4. call[d] # <<>> => FrameFound(f, g)' BY <2>5, <4>3, FoundGrows
      <4>5. HeadFound(d)' BY <1>2, <4>1, <4>2, <4>4 DEF HeadFound
      <4>6. AnswerFound(d)' BY <1>2 DEF FoundInv, AnswerFound
      <4> QED BY <4>5, <4>6
    <3> QED BY <3>1, <3>2 DEF FoundInv
  <2>8. HeldOK'
    <3>1. HoldersKept BY <1>2, <2>3 DEF HoldersKept
    <3>2. raced \subseteq raced' BY <1>2 DEF indexes
    <3> QED BY <2>1, <2>6, <3>1, <3>2, HeldStays DEF HeldOK
  <2> QED BY <1>1, <2>2, <2>4, <2>7, <2>8
<1>3. CASE \E c \in Clients : Asked(c) /\ UNCHANGED <<reviews, indexes>> BY <1>1, <1>3, KeptAsked
<1>4. CASE \E c \in Clients : Handled(c) BY <1>1, <1>4, ProgressHandled, FoundHandled, HeldHandled
<1> QED BY <1>1, <1>2, <1>3, <1>4

LEMMA AlwaysKept == Spec => []KeptInv
<1>1. KeptInv /\ [Next]_vars => KeptInv' BY KeptStep
<1> QED BY KeptAtFirst, <1>1, PTL DEF Spec

\* What an index names, as ReviewsFound says it.
LEMMA IndexedIs ==
  ASSUME StatesOK, IndexFound
  PROVE  /\ \A m \in Movies : \A r \in Indexed(movieReviews, m) : OfMovie(m, r)
         /\ \A u \in UserIds : \A r \in Indexed(userReviews, u) : OfUser(u, r)
<1>1. \A list \in Seq([review : ReviewIds]) : \A r \in Elements(Ids(list)) :
        \E i \in DOMAIN list : r = list[i].review
  BY IdsOf DEF Elements
<1>2. /\ \A m : getMovieReviews(m) \in Seq([review : ReviewIds])
      /\ \A u : getUserReviews(u) \in Seq([review : ReviewIds])
  BY Lists DEF KeptMovie, KeptUser, MovieReview, UserReview
<1>3. ASSUME NEW m \in Movies, NEW r \in Indexed(movieReviews, m) PROVE OfMovie(m, r)
  <2>1. r \in Elements(Ids(getMovieReviews(m))) BY <1>3 DEF Indexed, getMovieReviews, GetState
  <2>2. \E i \in DOMAIN getMovieReviews(m) : r = getMovieReviews(m)[i].review BY <1>1, <1>2, <2>1
  <2> QED BY <2>2 DEF IndexFound, MovieList
<1>4. ASSUME NEW u \in UserIds, NEW r \in Indexed(userReviews, u) PROVE OfUser(u, r)
  <2>1. r \in Elements(Ids(getUserReviews(u))) BY <1>4 DEF Indexed, getUserReviews, GetState
  <2>2. \E i \in DOMAIN getUserReviews(u) : r = getUserReviews(u)[i].review BY <1>1, <1>2, <2>1
  <2> QED BY <2>2 DEF IndexFound, UserList
<1> QED BY <1>3, <1>4

(* Every review that an index names is stored, of that movie or that user, *)
(* because compose_review uploads only what store_review has answered; so  *)
(* ro_read_reviews never falls back to its empty default, and a page or a  *)
(* user's list shows no review of another movie or user                    *)
(* (reviewstorage.go, moviereviews.go, userreviews.go, page.go).           *)
THEOREM NoneMissing == Spec => []ReviewsFound
<1>1. KeptInv => ReviewsFound
  <2> SUFFICES ASSUME KeptInv PROVE ReviewsFound OBVIOUS
  <2>1. /\ \A m \in Movies : \A r \in Indexed(movieReviews, m) : OfMovie(m, r)
        /\ \A u \in UserIds : \A r \in Indexed(userReviews, u) : OfUser(u, r)
    BY IndexedIs DEF KeptInv, FoundInv
  <2>2. \A c \in Clients : AnswerFound(c) BY DEF KeptInv, FoundInv
  <2> QED BY <2>1, <2>2 DEF ReviewsFound, AnswerFound, OfMovie, OfUser, Has
<1> QED BY <1>1, AlwaysKept, PTL

(* The lists that UploadMovieReview and UploadUserReview keep never exceed *)
(* their bound, and hold the newest reviews unless two uploads have read   *)
(* and written the same entry at once; a stored review is in both indexes, *)
(* the movie's first, once the request that composed it has succeeded.     *)
THEOREM KeptNewest == Spec => []IndexesKept
<1>1. KeptInv => IndexesKept
  <2> SUFFICES ASSUME KeptInv PROVE IndexesKept OBVIOUS
  <2>1. /\ \A m : Len(getMovieReviews(m)) <= MaxKept
        /\ \A u : Len(getUserReviews(u)) <= MaxKept
    BY Lists DEF KeptInv, KeptMovie, KeptUser
  <2>2. /\ \A m \in Movies : MovieHeld(m)
        /\ \A u \in UserIds : UserHeld(u)
    BY DEF KeptInv, HeldOK
  <2>3. ASSUME NEW r \in DOMAIN reviews
        PROVE  /\ InIndex("user", reviews[r].user, r) => InIndex("movie", reviews[r].movie, r)
               /\ InIndex("user", reviews[r].user, r) \/ ~Idle(r) \/ ~answer[r].ok
    <3>1. r \in Clients BY DEF KeptInv, StatesOK, StateOf, ReviewIds
    <3>2. Progressed(r) BY <3>1 DEF KeptInv, ProgressOK
    <3> QED BY <3>2 DEF Progressed, Idle
  <2> QED BY <2>1, <2>2, <2>3 DEF IndexesKept, MovieHeld, UserHeld, InIndex
<1> QED BY <1>1, AlwaysKept, PTL
==============================================================================
