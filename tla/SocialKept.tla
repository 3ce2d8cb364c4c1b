------------------------------ MODULE SocialKept ------------------------------
(***************************************************************************)
(* The social network keeps what is composed: types, timelines that name   *)
(* stored posts and lose no new one without a race, posts that reach the   *)
(* followers of their author, and a graph that has both sides.             *)
(***************************************************************************)
EXTENDS Social, DataLemmas

-----------------------------------------------------------------------------
(* The frames of the handlers. *)

Eps == DOMAIN RequestOf
Composers == {"compose_post", "compose_post_multi"}
Stores == {"store_post", "store_post_multi"}
Writers == {"write_home_timeline", "write_user_timeline"}
Readers == {"ro_read_home_timeline", "ro_read_user_timeline"}

\* What clients ask for.
Entries ==
  Composers \cup Readers
    \cup {"insert_user", "ro_get_followees", "follow", "follow_multi", "ro_read_post"}

\* Where a handler waits, and for which endpoint.
Sites ==
  {<<"compose_post", "stored", "store_post">>,
   <<"compose_post", "wroteUser", "write_user_timeline">>,
   <<"compose_post", "wroteHome", "write_home_timeline">>,
   <<"compose_post_multi", "storedAll", "store_post_multi">>,
   <<"compose_post_multi", "wroteUser", "write_user_timeline">>,
   <<"compose_post_multi", "wroteHome", "write_home_timeline">>,
   <<"write_home_timeline", "gotFollowers", "ro_get_followers">>,
   <<"ro_read_home_timeline", "gotPosts", "ro_read_posts">>,
   <<"ro_read_user_timeline", "gotPosts", "ro_read_posts">>}

\* Where it is between a read and a write, or between two keys.
Pauses ==
  {<<"follow", "gotFollower">>, <<"follow", "wroteFollower">>, <<"follow", "gotFollowee">>,
   <<"write_home_timeline", "loaded">>, <<"write_home_timeline", "next">>,
   <<"write_user_timeline", "loaded">>}
PauseNames == {"gotFollower", "wroteFollower", "gotFollowee", "loaded", "next"}

PlaceNames == {"start"} \cup PauseNames \cup DOMAIN ResponseAt
Waits(e, p) == \E callee \in Eps : <<e, p, callee>> \in Sites
Place(e, p) == p = "start" \/ <<e, p>> \in Pauses \/ Waits(e, p)

ReplyOf ==
  [compose_post |-> {OK}, compose_post_multi |-> {OK},
   store_post |-> StorePostResponse, store_post_multi |-> StorePostMultiResponse,
   ro_read_post |-> ReadPostResponse, ro_read_posts |-> ReadPostsResponse,
   insert_user |-> {OK}, ro_get_followers |-> GetFollowersResponse,
   ro_get_followees |-> GetFolloweesResponse, follow |-> {OK}, follow_multi |-> {OK},
   ro_read_home_timeline |-> ReadHomeTimelineResponse, write_home_timeline |-> {OK},
   ro_read_user_timeline |-> ReadUserTimelineResponse, write_user_timeline |-> {OK}]

\* The posts that a request of c composes.
Batch(c) == {ids \in Seq(PostIds) : ids # <<>> /\ \A i \in DOMAIN ids : ids[i] = <<c, i>>}

RequestFor(c, e) == {q \in RequestOf[e] : e \in Writers => q.posts \in Batch(c)}
ReplyTo(c, e) == {r \in ReplyOf[e] : /\ e = "store_post" => r.post = <<c, 1>>
                                     /\ e = "store_post_multi" => r.posts \in Batch(c)}

LocalsAt(c, e, p) ==
  IF e = "follow" /\ p \in {"gotFollower", "gotFollowee"} THEN SGVertex
  ELSE IF e \in Composers /\ p \in {"wroteUser", "wroteHome"} THEN Batch(c)
  ELSE IF e = "write_home_timeline" /\ p = "loaded"
       THEN [followers : Seq(Users) \ {<<>>}, list : Seq(PostIds)]
  ELSE IF e = "write_home_timeline" /\ p = "next" THEN [followers : Seq(Users)]
  ELSE IF e = "write_user_timeline" /\ p = "loaded" THEN Seq(PostIds)
  ELSE IF e = "ro_read_posts" THEN Seq(Post)
  ELSE {<<>>}

Requests == UNION {RequestOf[e] : e \in Eps}
Locals(c) == UNION {LocalsAt(c, e, p) : e \in Eps, p \in PlaceNames}
Results == {<<>>} \cup UNION {ReplyOf[e] : e \in Eps}

Frames(c) ==
  {f \in [ep : Eps, req : Requests, at : PlaceNames, my : Locals(c), res : Results] :
     f.req \in RequestFor(c, f.ep) /\ Place(f.ep, f.at) /\ f.my \in LocalsAt(c, f.ep, f.at)}

\* The innermost handler has the response it goes on with; each other one waits
\* for the one above, which serves what it asked for.
SameUser(f, g) ==
  /\ f.ep \in Writers => f.req.user = g.req.creator
  /\ f.ep = "ro_get_followers" => f.req.user = g.req.user

Heads(c) == {f \in Frames(c) : \A e \in Eps : <<f.ep, f.at, e>> \in Sites => f.res \in ReplyTo(c, e)}
Links(c) == {l \in Frames(c) \X Frames(c) : /\ <<l[2].ep, l[2].at, l[1].ep>> \in Sites
                                            /\ SameUser(l[1], l[2])}
Bottoms(c) == {f \in Frames(c) : f.ep \in Entries}
Calls(c) == Stacks(Frames(c), Heads(c), Links(c), Bottoms(c))

Answers == [ep : Eps \cup {"none"}, req : Requests \cup {<<>>}, ok : BOOLEAN, res : Results]

CallsOK ==
  /\ DOMAIN call = Clients /\ \A c \in Clients : call[c] \in Calls(c)
  /\ call = [c \in Clients |-> call[c]]
  /\ answer \in [Clients -> Answers]
  /\ \A c \in Clients : answer[c].ep # "none" => call[c] = <<>>
  /\ \A c \in Clients : answer[c].ok => /\ answer[c].ep \in Entries
                                        /\ answer[c].res \in ReplyOf[answer[c].ep]

Kinds == {"user", "home"}
StatesOK ==
  /\ StateOf(graph, Users, SGVertex)
  /\ StateOf(posts, PostIds, Post)
  /\ StateOf(userTimelines, Users, Seq(PostIds))
  /\ StateOf(homeTimelines, Users, Seq(PostIds))
  /\ log \in [Kinds -> [Users -> Seq(PostIds)]]

-----------------------------------------------------------------------------
(* What is known of them. The predicates take the stored posts, the logs   *)
(* and the raced keys as arguments: posts are only added, logs only grow   *)
(* and what was raced stays so, and they survive all three.                *)

Extra(s) == Cardinality({i \in DOMAIN s : s[i][2] > 1})

\* Every follower who was populated and is not among those left has the post.
Fanned(c, author, left, L, R) ==
  author \in DOMAIN Populated /\ <<"graph", author>> \notin R =>
    \A g \in Elements(Populated[author].followers) :
      g \in Elements(left) \/ <<c, 1>> \in Elements(L["home"][g])
Authored(c, author, L) == <<c, 1>> \in Elements(L["user"][author])
ListOK(list, kind, u, S, L) ==
  Elements(list) \subseteq S /\ Len(list) <= MaxKept + Extra(L[kind][u])

\* Of any handler of c.
FrameOK(c, f, S, L, R) ==
  /\ f.ep \in Writers => Elements(f.req.posts) \subseteq S
  /\ f.ep \in Composers /\ f.at \in {"wroteUser", "wroteHome"} => Elements(f.my) \subseteq S
  /\ f.ep \in Composers /\ f.at = "wroteHome" => Authored(c, f.req.creator, L)
  /\ f.ep = "write_home_timeline" => Authored(c, f.req.user, L)
  /\ f.ep = "write_home_timeline" /\ f.at \in {"loaded", "next"} =>
       Fanned(c, f.req.user, f.my.followers, L, R)
  /\ f.ep = "write_home_timeline" /\ f.at = "loaded" =>
       ListOK(f.my.list, "home", Head(f.my.followers), S, L)
  /\ f.ep = "write_user_timeline" /\ f.at = "loaded" => ListOK(f.my, "user", f.req.user, S, L)

\* Of the innermost one, which goes on with a response.
TopOK(c, f, S, L, R) ==
  /\ f.ep = "compose_post" /\ f.at = "stored" => f.res.post \in S
  /\ f.ep = "compose_post_multi" /\ f.at = "storedAll" => Elements(f.res.posts) \subseteq S
  /\ f.ep \in Composers /\ f.at = "wroteUser" => Authored(c, f.req.creator, L)
  /\ f.ep \in Composers /\ f.at = "wroteHome" => Fanned(c, f.req.creator, <<>>, L, R)
  /\ f.ep = "write_home_timeline" /\ f.at = "gotFollowers" =>
       Fanned(c, f.req.user, f.res.followers, L, R)

AnswerOK(c, a, L, R) ==
  a.ok /\ a.ep \in Composers =>
    /\ a.req.creator \in Users /\ Authored(c, a.req.creator, L)
    /\ Fanned(c, a.req.creator, <<>>, L, R)

FramesOK ==
  \A c \in Clients :
    /\ \A i \in 1 .. Len(call[c]) : FrameOK(c, call[c][i], DOMAIN posts, log, raced)
    /\ call[c] # <<>> => TopOK(c, call[c][1], DOMAIN posts, log, raced)
    /\ AnswerOK(c, answer[c], log, raced)

\* A timeline is what its log ends with.
IsSuffix(line, s) ==
  Len(line) <= Len(s) /\ \A i \in 1 .. Len(line) : line[i] = s[Len(s) - Len(line) + i]
Tailed(line, s) == IsSuffix(line, s) /\ (Len(line) >= MaxKept \/ line = s)
Line(kind, u) == Timeline(IF kind = "user" THEN userTimelines ELSE homeTimelines, u)
LinesOK ==
  \A kind \in Kinds, u \in Users :
    /\ ListOK(Line(kind, u), kind, u, DOMAIN posts, log)
    /\ <<kind, u>> \notin raced => Tailed(Line(kind, u), log[kind][u])

\* Unless there was a race, a handler writes back what it read and no one else
\* has written since.
VertexOf(u) == IF Has(graph, u) THEN graph[u] ELSE NoVertex
Holder(f, kind, u) ==
  \/ /\ kind = "graph" /\ f.ep = "follow"
     /\ \/ f.at = "gotFollower" /\ f.req.follower = u
        \/ f.at = "gotFollowee" /\ f.req.followee = u
  \/ /\ kind = "home" /\ f.ep = "write_home_timeline" /\ f.at = "loaded"
     /\ Head(f.my.followers) = u
  \/ kind = "user" /\ f.ep = "write_user_timeline" /\ f.at = "loaded" /\ f.req.user = u
Copy(f, kind) == IF kind = "home" THEN f.my.list ELSE f.my
Now(kind, u) == IF kind = "graph" THEN VertexOf(u) ELSE Line(kind, u)
HeldOK ==
  \A c \in Clients, kind \in Kinds \cup {"graph"}, u \in Users :
    /\ call[c] # <<>> /\ Holder(call[c][1], kind, u) /\ <<kind, u>> \notin raced
    => Copy(call[c][1], kind) = Now(kind, u)

\* Followers who were populated stay, and a follower's side is written first.
Wrote(f) == f.ep = "follow" /\ f.at \in {"wroteFollower", "gotFollowee"}
GraphOK ==
  /\ \A u \in DOMAIN Populated : <<"graph", u>> \notin raced =>
       Has(graph, u) /\ Elements(Populated[u].followers) \subseteq Elements(graph[u].followers)
  /\ \A c \in Clients : call[c] # <<>> /\ Wrote(call[c][1])
       /\ <<"graph", call[c][1].req.follower>> \notin raced
       => call[c][1].req.followee \in Following(call[c][1].req.follower)
  /\ FollowedBothWays

KeptInv == CallsOK /\ StatesOK /\ FramesOK /\ LinesOK /\ HeldOK /\ GraphOK

-----------------------------------------------------------------------------
(* Facts about the names. *)

LEMMA Names ==
  /\ Eps = {"compose_post", "compose_post_multi", "store_post", "store_post_multi",
            "ro_read_post", "ro_read_posts", "insert_user", "ro_get_followers",
            "ro_get_followees", "follow", "follow_multi", "ro_read_home_timeline",
            "write_home_timeline", "ro_read_user_timeline", "write_user_timeline"}
  /\ DOMAIN ReplyOf = Eps
  /\ Entries = {"compose_post", "compose_post_multi", "ro_read_home_timeline",
                "ro_read_user_timeline", "insert_user", "ro_get_followees", "follow",
                "follow_multi", "ro_read_post"}
  /\ DOMAIN ResponseAt = {"stored", "storedAll", "wroteUser", "wroteHome", "gotFollowers",
                          "gotPosts"}
BY DEF Eps, RequestOf, ReplyOf, ResponseAt, Entries, Composers, Readers

LEMMA SiteNames ==
  ASSUME NEW e, NEW p, NEW callee, <<e, p, callee>> \in Sites
  PROVE  /\ e \in Eps /\ callee \in Eps /\ callee \notin Entries /\ callee # "none"
         /\ p \in DOMAIN ResponseAt /\ p \in PlaceNames /\ p # "start" /\ p \notin PauseNames
         /\ Waits(e, p) /\ \A d : <<e, p, d>> \in Sites => d = callee
<1>1. \A x, y, z : <<x, y, z>> \in Sites =>
        \/ x = "compose_post" /\ y = "stored" /\ z = "store_post"
        \/ x = "compose_post" /\ y = "wroteUser" /\ z = "write_user_timeline"
        \/ x = "compose_post" /\ y = "wroteHome" /\ z = "write_home_timeline"
        \/ x = "compose_post_multi" /\ y = "storedAll" /\ z = "store_post_multi"
        \/ x = "compose_post_multi" /\ y = "wroteUser" /\ z = "write_user_timeline"
        \/ x = "compose_post_multi" /\ y = "wroteHome" /\ z = "write_home_timeline"
        \/ x = "write_home_timeline" /\ y = "gotFollowers" /\ z = "ro_get_followers"
        \/ x = "ro_read_home_timeline" /\ y = "gotPosts" /\ z = "ro_read_posts"
        \/ x = "ro_read_user_timeline" /\ y = "gotPosts" /\ z = "ro_read_posts"
  BY DEF Sites
<1>2. e \in Eps /\ callee \in Eps BY <1>1, Names
<1>3. callee \notin Entries /\ callee # "none" BY <1>1, Names
<1>4. p # "start" /\ p \notin PauseNames BY <1>1 DEF PauseNames
<1>7. p \in DOMAIN ResponseAt BY <1>1, Names
<1>8. p \in PlaceNames BY <1>7 DEF PlaceNames
<1>5. Waits(e, p) BY <1>2 DEF Waits
<1>6. \A d : <<e, p, d>> \in Sites => d = callee BY <1>1
<1> QED BY <1>2, <1>3, <1>4, <1>5, <1>6, <1>7, <1>8

LEMMA SiteList ==
  /\ <<"compose_post", "stored", "store_post">> \in Sites
  /\ <<"compose_post", "wroteUser", "write_user_timeline">> \in Sites
  /\ <<"compose_post", "wroteHome", "write_home_timeline">> \in Sites
  /\ <<"compose_post_multi", "storedAll", "store_post_multi">> \in Sites
  /\ <<"compose_post_multi", "wroteUser", "write_user_timeline">> \in Sites
  /\ <<"compose_post_multi", "wroteHome", "write_home_timeline">> \in Sites
  /\ <<"write_home_timeline", "gotFollowers", "ro_get_followers">> \in Sites
  /\ <<"ro_read_home_timeline", "gotPosts", "ro_read_posts">> \in Sites
  /\ <<"ro_read_user_timeline", "gotPosts", "ro_read_posts">> \in Sites
BY DEF Sites

\* Nobody waits at a pause.
LEMMA PauseList ==
  /\ \A e, p : <<e, p>> \in Pauses => p \in PlaceNames /\ p \in PauseNames /\ Place(e, p) /\ ~Waits(e, p)
  /\ <<"follow", "gotFollower">> \in Pauses /\ <<"follow", "wroteFollower">> \in Pauses
  /\ <<"follow", "gotFollowee">> \in Pauses /\ <<"write_home_timeline", "loaded">> \in Pauses
  /\ <<"write_home_timeline", "next">> \in Pauses /\ <<"write_user_timeline", "loaded">> \in Pauses
<1>1. \A e, p : <<e, p>> \in Pauses => p \in PauseNames BY DEF Pauses, PauseNames
<1>2. \A e, p : p \in PauseNames => ~Waits(e, p) BY SiteNames DEF Waits
<1>3. "start" \in PlaceNames /\ ~(\E e : Waits(e, "start")) BY SiteNames DEF Waits, PlaceNames
<1> QED BY <1>1, <1>2, <1>3 DEF Pauses, PlaceNames, Place

LEMMA StartPlace ==
  \A e : "start" \in PlaceNames /\ Place(e, "start") /\ ~Waits(e, "start")
BY SiteNames DEF Waits, PlaceNames, Place

\* What waits for an endpoint.
LEMMA WaitsFor ==
  ASSUME NEW e, NEW p, NEW d, <<e, p, d>> \in Sites
  PROVE  /\ d = "store_post" => e = "compose_post" /\ p = "stored"
         /\ d = "store_post_multi" => e = "compose_post_multi" /\ p = "storedAll"
         /\ d = "write_user_timeline" => e \in Composers /\ p = "wroteUser"
         /\ d = "write_home_timeline" => e \in Composers /\ p = "wroteHome"
         /\ d = "ro_get_followers" => e = "write_home_timeline" /\ p = "gotFollowers"
         /\ d = "ro_read_posts" => e \in Readers /\ p = "gotPosts"
         /\ d \in Stores \cup Writers \cup {"ro_get_followers", "ro_read_posts"}
         /\ e \in Composers \cup Readers \cup {"write_home_timeline"}
<1>1. CASE e = "compose_post"
  <2>1. \/ p = "stored" /\ d = "store_post"
        \/ p = "wroteUser" /\ d = "write_user_timeline"
        \/ p = "wroteHome" /\ d = "write_home_timeline"
    BY <1>1 DEF Sites
  <2> QED BY <1>1, <2>1 DEF Composers, Writers, Stores
<1>2. CASE e = "compose_post_multi"
  <2>1. \/ p = "storedAll" /\ d = "store_post_multi"
        \/ p = "wroteUser" /\ d = "write_user_timeline"
        \/ p = "wroteHome" /\ d = "write_home_timeline"
    BY <1>2 DEF Sites
  <2> QED BY <1>2, <2>1 DEF Composers, Writers, Stores
<1>3. CASE e \notin Composers
  <2>1. \/ e = "write_home_timeline" /\ p = "gotFollowers" /\ d = "ro_get_followers"
        \/ e \in Readers /\ p = "gotPosts" /\ d = "ro_read_posts"
    BY <1>3 DEF Sites, Composers, Readers
  <2> QED BY <2>1
<1> QED BY <1>1, <1>2, <1>3 DEF Composers

\* What TypeOK says of a response is what its endpoint answers.
LEMMA Replies ==
  /\ \A e \in DOMAIN ResponseOf : e \in Eps /\ ResponseOf[e] = ReplyOf[e]
  /\ \A e, p, callee : <<e, p, callee>> \in Sites => ReplyOf[callee] = ResponseAt[p]
<1>1. \A e \in DOMAIN ResponseOf : e \in Eps /\ ResponseOf[e] = ReplyOf[e]
  BY Names DEF ResponseOf, ReplyOf
<1>2. ASSUME NEW e, NEW p, NEW callee, <<e, p, callee>> \in Sites
      PROVE  ReplyOf[callee] = ResponseAt[p]
  <2>1. \/ p = "stored" /\ callee = "store_post"
        \/ p = "storedAll" /\ callee = "store_post_multi"
        \/ p = "wroteUser" /\ callee = "write_user_timeline"
        \/ p = "wroteHome" /\ callee = "write_home_timeline"
        \/ p = "gotFollowers" /\ callee = "ro_get_followers"
        \/ p = "gotPosts" /\ callee = "ro_read_posts"
    BY <1>2 DEF Sites
  <2> QED BY <2>1 DEF ReplyOf, ResponseAt
<1> QED BY <1>1, <1>2
-----------------------------------------------------------------------------
(* Frames. *)

LEMMA FrameParts ==
  ASSUME NEW c, NEW f \in Frames(c)
  PROVE  /\ f.ep \in Eps /\ f.req \in RequestFor(c, f.ep) /\ f.req \in RequestOf[f.ep]
         /\ Place(f.ep, f.at) /\ f.my \in LocalsAt(c, f.ep, f.at) /\ f.at \in PlaceNames
         /\ f.req \in Requests /\ f.my \in Locals(c) /\ f.res \in Results
         /\ f = [ep |-> f.ep, req |-> f.req, at |-> f.at, my |-> f.my, res |-> f.res]
BY DEF Frames, RequestFor

\* The frame after Goto, and after a response.
Gone(f, place, my) == [f EXCEPT !.at = place, !.my = my]
Answered(f, r) == [f EXCEPT !.res = r]

LEMMA FrameStarts ==
  ASSUME NEW c, NEW e \in Eps, NEW q \in RequestFor(c, e)
  PROVE  /\ Frame(e, q) \in Frames(c) /\ Frame(e, q) \in Heads(c)
         /\ Frame(e, q).ep = e /\ Frame(e, q).req = q /\ Frame(e, q).at = "start"
         /\ Frame(e, q).my = <<>>
<1>1. Place(e, "start") /\ \A d : <<e, "start", d>> \notin Sites BY SiteNames DEF Place
<1>2. <<>> \in LocalsAt(c, e, "start")
  <2>1. <<>> \in Seq(Post) BY EmptySeq
  <2> QED BY <2>1 DEF LocalsAt
<1>3. q \in RequestOf[e] BY DEF RequestFor
<1>4. q \in Requests /\ <<>> \in Results BY <1>3 DEF Requests, Results
<1>5. <<>> \in Locals(c) /\ "start" \in PlaceNames
  <2>1. "start" \in PlaceNames BY DEF PlaceNames
  <2>2. \A p \in PlaceNames : LocalsAt(c, e, p) \subseteq Locals(c) BY DEF Locals
  <2> QED BY <1>2, <2>1, <2>2
<1>6. Frame(e, q) \in Frames(c)
  <2> DEFINE f == Frame(e, q)
  <2>1. f = [ep |-> e, req |-> q, at |-> "start", my |-> <<>>, res |-> <<>>] BY DEF Frame
  <2>2. f \in [ep : Eps, req : Requests, at : PlaceNames, my : Locals(c), res : Results]
    BY <1>4, <1>5, <2>1
  <2> HIDE DEF f
  <2>3. f \in Frames(c) BY <1>1, <1>2, <2>1, <2>2 DEF Frames
  <2> QED BY <2>3 DEF f
<1> QED BY <1>1, <1>6 DEF Frame, Heads

LEMMA FrameGoes ==
  ASSUME NEW c, NEW f \in Frames(c), NEW place \in PlaceNames, Place(f.ep, place),
         NEW my \in LocalsAt(c, f.ep, place)
  PROVE  /\ Gone(f, place, my) \in Frames(c)
         /\ Gone(f, place, my).ep = f.ep /\ Gone(f, place, my).req = f.req
         /\ Gone(f, place, my).at = place /\ Gone(f, place, my).my = my
         /\ Gone(f, place, my).res = f.res
         /\ ~Waits(f.ep, place) => Gone(f, place, my) \in Heads(c)
<1> DEFINE g == Gone(f, place, my)
<1>1. /\ f.ep \in Eps /\ f.req \in RequestFor(c, f.ep) /\ f.req \in Requests /\ f.res \in Results
      /\ f = [ep |-> f.ep, req |-> f.req, at |-> f.at, my |-> f.my, res |-> f.res]
  BY FrameParts
<1>2. g = [ep |-> f.ep, req |-> f.req, at |-> place, my |-> my, res |-> f.res]
  <2> DEFINE h == [f EXCEPT !.at = place]
  <2>1. h = [ep |-> f.ep, req |-> f.req, at |-> place, my |-> f.my, res |-> f.res] BY <1>1
  <2>2. g = [h EXCEPT !.my = my] BY DEF Gone
  <2> HIDE DEF h, g
  <2> QED BY <2>1, <2>2
<1>3. my \in Locals(c) BY <1>1 DEF Locals
<1>4. g \in Frames(c) BY <1>1, <1>2, <1>3 DEF Frames
<1>5. ~Waits(f.ep, place) => \A e \in Eps : <<f.ep, place, e>> \notin Sites BY DEF Waits
<1> QED BY <1>2, <1>4, <1>5 DEF Heads

LEMMA FrameAnswered ==
  ASSUME NEW c, NEW f \in Frames(c), NEW r \in Results
  PROVE  /\ Answered(f, r) \in Frames(c)
         /\ Answered(f, r).ep = f.ep /\ Answered(f, r).req = f.req
         /\ Answered(f, r).at = f.at /\ Answered(f, r).my = f.my /\ Answered(f, r).res = r
         /\ (\A e \in Eps : <<f.ep, f.at, e>> \in Sites => r \in ReplyTo(c, e))
              => Answered(f, r) \in Heads(c)
<1> DEFINE g == Answered(f, r)
<1>1. /\ f.ep \in Eps /\ f.req \in RequestFor(c, f.ep) /\ Place(f.ep, f.at) /\ f.at \in PlaceNames
      /\ f.my \in LocalsAt(c, f.ep, f.at) /\ f.req \in Requests /\ f.my \in Locals(c)
      /\ f = [ep |-> f.ep, req |-> f.req, at |-> f.at, my |-> f.my, res |-> f.res]
  BY FrameParts
<1>2. g = [ep |-> f.ep, req |-> f.req, at |-> f.at, my |-> f.my, res |-> r]
  BY <1>1 DEF Answered
<1>3. g \in Frames(c) BY <1>1, <1>2 DEF Frames
<1> QED BY <1>2, <1>3 DEF Heads

\* A frame with the endpoint and the request of another has its links.
LEMMA SameLinks ==
  ASSUME NEW c, NEW f \in Frames(c), NEW g \in Frames(c), g.ep = f.ep, g.req = f.req
  PROVE  /\ f \in Bottoms(c) => g \in Bottoms(c)
         /\ \A x \in Frames(c) : <<f, x>> \in Links(c) => <<g, x>> \in Links(c)
BY DEF Bottoms, Links, SameUser

-----------------------------------------------------------------------------
(* The stacks of handlers. *)

LEMMA StackOf ==
  ASSUME CallsOK, NEW c \in Clients, call[c] # <<>>
  PROVE  /\ call[c] \in Calls(c) /\ call[c] \in Seq(Frames(c)) /\ Head(call[c]) = call[c][1]
         /\ Len(call[c]) \in Nat /\ Len(call[c]) >= 1
         /\ \A i \in 1 .. Len(call[c]) : call[c][i] \in Frames(c)
         /\ call[c][1] \in Frames(c) /\ call[c][1] \in Heads(c)
         /\ call[c][Len(call[c])] \in Bottoms(c)
         /\ \A i \in 1 .. Len(call[c]) - 1 : <<call[c][i], call[c][i + 1]>> \in Links(c)
         /\ answer[c].ep = "none"
<1>1. call[c] \in Calls(c) BY DEF CallsOK
<1>2. /\ call[c] \in Seq(Frames(c)) /\ call[c][1] \in Heads(c) /\ call[c][Len(call[c])] \in Bottoms(c)
      /\ \A i \in 1 .. Len(call[c]) - 1 : <<call[c][i], call[c][i + 1]>> \in Links(c)
  BY <1>1 DEF Calls, Stacks
<1>3. /\ Len(call[c]) \in Nat /\ Len(call[c]) >= 1 /\ Head(call[c]) = call[c][1]
      /\ \A i \in 1 .. Len(call[c]) : call[c][i] \in Frames(c)
  BY <1>2, StackParts
<1> QED BY <1>1, <1>2, <1>3 DEF CallsOK

\* The one that waits for the innermost handler.
LEMMA SecondOf ==
  ASSUME CallsOK, NEW c \in Clients, call[c] # <<>>, Len(call[c]) # 1
  PROVE  /\ Len(call[c]) > 1 /\ call[c][2] \in Frames(c)
         /\ <<call[c][2].ep, call[c][2].at, call[c][1].ep>> \in Sites
         /\ SameUser(call[c][1], call[c][2])
<1>1. Len(call[c]) \in Nat /\ Len(call[c]) >= 1 BY StackOf
<1>2. /\ Len(call[c]) > 1 /\ 2 \in 1 .. Len(call[c])
      /\ 1 \in 1 .. Len(call[c]) - 1 /\ 1 + 1 = 2
  <2>1. \A n \in Nat : n >= 1 /\ n # 1 => /\ n > 1 /\ 2 \in 1 .. n
                                        /\ 1 \in 1 .. n - 1 /\ 1 + 1 = 2
    OBVIOUS
  <2> QED BY <1>1, <2>1
<1>3. \A i \in 1 .. Len(call[c]) - 1 : <<call[c][i], call[c][i + 1]>> \in Links(c) BY StackOf
<1>4. <<call[c][1], call[c][2]>> \in Links(c) BY <1>2, <1>3
<1>5. call[c][2] \in Frames(c) BY <1>2, StackOf
<1> QED BY <1>2, <1>4, <1>5 DEF Links

\* What a handler waits for is no endpoint of a client.
LEMMA SecondIfCallee ==
  ASSUME CallsOK, NEW c \in Clients, call[c] # <<>>, call[c][1].ep \notin Entries
  PROVE  Len(call[c]) # 1
BY StackOf DEF Bottoms

\* The stack of a client becomes another one.
LEMMA BecameOK ==
  ASSUME CallsOK, NEW c \in Clients, call[c] # <<>>, NEW s \in Calls(c),
         call' = [call EXCEPT ![c] = s], UNCHANGED answer
  PROVE  CallsOK' /\ call'[c] = s /\ \A d \in Clients : d # c => call'[d] = call[d]
<1>1. answer[c].ep = "none" BY StackOf
<1>2. call = [d \in Clients |-> call[d]] /\ \A d \in Clients : call[d] \in Calls(d) BY DEF CallsOK
<1>3. /\ call' = [d \in Clients |-> call'[d]] /\ call'[c] = s
      /\ \A d \in Clients : d # c => call'[d] = call[d]
  BY <1>2
<1>4. \A d \in Clients : call'[d] \in Calls(d) BY <1>2, <1>3
<1>5. DOMAIN call' = Clients BY <1>3
<1> QED BY <1>1, <1>3, <1>4, <1>5 DEF CallsOK

\* The ways a step of c changes its stack: the request is over, the innermost
\* handler goes on, calls another one, or returns.
Bottom(c) == call[c][Len(call[c])]
Over(c, ok, r) ==
  /\ call'[c] = <<>>
  /\ answer'[c] = [ep |-> Bottom(c).ep, req |-> Bottom(c).req, ok |-> ok, res |-> r]
Went(c, place, my) ==
  /\ Len(call'[c]) = Len(call[c]) /\ answer'[c] = answer[c]
  /\ call'[c][1] = Gone(call[c][1], place, my)
  /\ \A i \in 2 .. Len(call[c]) : call'[c][i] = call[c][i]
Deeper(c, e, q, place, my) ==
  /\ Len(call'[c]) = Len(call[c]) + 1 /\ answer'[c] = answer[c]
  /\ call'[c][1] = Frame(e, q) /\ call'[c][2] = Gone(call[c][1], place, my)
  /\ \A i \in 3 .. Len(call[c]) + 1 : call'[c][i] = call[c][i - 1]
Back(c, r) ==
  /\ Len(call[c]) > 1 /\ Len(call'[c]) = Len(call[c]) - 1 /\ answer'[c] = answer[c]
  /\ call'[c][1] = Answered(call[c][2], r)
  /\ \A i \in 2 .. Len(call[c]) - 1 : call'[c][i] = call[c][i + 1]
Others(c) ==
  \A d \in Clients : d # c => call'[d] = call[d] /\ answer'[d] = answer[d]

LEMMA Ends ==
  ASSUME CallsOK, NEW c \in Clients, call[c] # <<>>, NEW ok \in BOOLEAN, NEW r \in Results,
         ok => Len(call[c]) = 1 /\ r \in ReplyOf[call[c][1].ep], Ended(c, ok, r)
  PROVE  CallsOK' /\ Over(c, ok, r) /\ Others(c)
<1> DEFINE first == call[c][Len(call[c])]
           a == [ep |-> first.ep, req |-> first.req, ok |-> ok, res |-> r]
<1>1. /\ call' = [call EXCEPT ![c] = <<>>] /\ answer' = [answer EXCEPT ![c] = a]
  BY DEF Ended
<1>2. first \in Frames(c) /\ first.ep \in Entries BY StackOf DEF Bottoms
<1>3. a \in Answers BY <1>2, FrameParts DEF Answers
<1>4. ok => r \in ReplyOf[first.ep] BY <1>2, StackOf
<1>5. <<>> \in Calls(c) BY EmptySeq DEF Calls, Stacks
<1>6. /\ call = [d \in Clients |-> call[d]] /\ \A d \in Clients : call[d] \in Calls(d)
      /\ answer \in [Clients -> Answers]
  BY DEF CallsOK
<1> HIDE DEF a
<1>7. /\ call' = [d \in Clients |-> call'[d]] /\ answer' \in [Clients -> Answers]
      /\ call'[c] = <<>> /\ answer'[c] = a
      /\ \A d \in Clients : d # c => call'[d] = call[d] /\ answer'[d] = answer[d]
  BY <1>1, <1>3, <1>6
<1>8. DOMAIN call' = Clients /\ \A d \in Clients : call'[d] \in Calls(d) BY <1>5, <1>6, <1>7
<1>9. a.ok = ok /\ a.ep = first.ep /\ a.res = r BY DEF a
<1>10. CallsOK' BY <1>2, <1>4, <1>7, <1>8, <1>9 DEF CallsOK
<1>11. Over(c, ok, r) BY <1>7 DEF a, Over, Bottom
<1>12. Others(c) BY <1>7 DEF Others
<1> QED BY <1>10, <1>11, <1>12

LEMMA Goes ==
  ASSUME CallsOK, NEW c \in Clients, call[c] # <<>>, NEW place \in PlaceNames,
         Place(call[c][1].ep, place), ~Waits(call[c][1].ep, place),
         NEW my \in LocalsAt(c, call[c][1].ep, place), Goto(c, place, my)
  PROVE  CallsOK' /\ Went(c, place, my) /\ Others(c)
<1> DEFINE f == call[c][1]
           g == Gone(f, place, my)
<1>1. f \in Frames(c) /\ Head(call[c]) = f /\ call[c] \in Calls(c) /\ call[c] \in Seq(Frames(c))
  BY StackOf
<1>2. g \in Frames(c) /\ g.ep = f.ep /\ g.req = f.req /\ g \in Heads(c)
  <2> HIDE DEF f
  <2>1. Place(f.ep, place) /\ ~Waits(f.ep, place) /\ my \in LocalsAt(c, f.ep, place) BY DEF f
  <2> QED BY <1>1, <2>1, FrameGoes
<1>3. call' = [call EXCEPT ![c] = <<g>> \o Tail(@)] /\ UNCHANGED answer BY <1>1 DEF Goto, Gone
<1> HIDE DEF g
<1> DEFINE s == <<g>> \o Tail(call[c])
<1>4. s \in Calls(c)
  <2>1. g.ep = call[c][1].ep /\ g.req = call[c][1].req /\ call[c][1] \in Frames(c) BY <1>1, <1>2
  <2>2. /\ call[c][1] \in Bottoms(c) => g \in Bottoms(c)
        /\ \A x \in Frames(c) : <<call[c][1], x>> \in Links(c) => <<g, x>> \in Links(c)
    BY <1>2, <2>1, SameLinks
  <2> QED BY <1>1, <1>2, <2>2, StackReplaced DEF Calls
<1>5. Len(s) = Len(call[c]) /\ s[1] = g /\ \A i \in 2 .. Len(call[c]) : s[i] = call[c][i]
  BY <1>1, <1>2, TopReplaced
<1> HIDE DEF s
<1>6. call' = [call EXCEPT ![c] = s] BY <1>3 DEF s
<1>7. CallsOK' /\ call'[c] = s /\ \A d \in Clients : d # c => call'[d] = call[d]
  BY <1>3, <1>4, <1>6, BecameOK
<1> QED BY <1>3, <1>5, <1>7 DEF Went, Others, g

LEMMA Asking ==
  ASSUME CallsOK, NEW c \in Clients, call[c] # <<>>, NEW place, NEW e,
         <<call[c][1].ep, place, e>> \in Sites, NEW q \in RequestFor(c, e),
         NEW my \in LocalsAt(c, call[c][1].ep, place), SameUser(Frame(e, q), call[c][1]),
         NEW service, InvokeWith(c, service, e, q, place, my), <<service, e>> \in up
  PROVE  CallsOK' /\ Deeper(c, e, q, place, my) /\ Others(c)
<1> DEFINE f == call[c][1]
           g == Gone(f, place, my)
           h == Frame(e, q)
<1>1. f \in Frames(c) /\ Head(call[c]) = f /\ call[c] \in Calls(c) /\ call[c] \in Seq(Frames(c))
  BY StackOf
<1>0. place \in PlaceNames /\ Place(f.ep, place) /\ e \in Eps BY SiteNames DEF PlaceNames, Place
<1>2. g \in Frames(c) /\ g.ep = f.ep /\ g.req = f.req /\ g.at = place
  <2> HIDE DEF f
  <2>2. my \in LocalsAt(c, f.ep, place) BY DEF f
  <2> QED BY <1>0, <1>1, <2>2, FrameGoes
<1>3. h \in Frames(c) /\ h \in Heads(c) /\ h.ep = e BY <1>0, FrameStarts
<1>4. call' = [call EXCEPT ![c] = <<h, g>> \o Tail(@)] /\ UNCHANGED answer
  BY <1>1 DEF InvokeWith, performRequest, Gone
<1>5. <<h, g>> \in Links(c)
  <2>1. SameUser(h, f) OBVIOUS
  <2>2. SameUser(h, g) BY <1>2, <2>1 DEF SameUser
  <2>3. <<f.ep, place, e>> \in Sites OBVIOUS
  <2> HIDE DEF f, h, g
  <2> QED BY <1>2, <1>3, <2>2, <2>3 DEF Links
<1> HIDE DEF g, h
<1> DEFINE s == <<h, g>> \o Tail(call[c])
<1>6. s \in Calls(c)
  <2>1. g.ep = call[c][1].ep /\ g.req = call[c][1].req /\ call[c][1] \in Frames(c) BY <1>1, <1>2
  <2>2. /\ call[c][1] \in Bottoms(c) => g \in Bottoms(c)
        /\ \A x \in Frames(c) : <<call[c][1], x>> \in Links(c) => <<g, x>> \in Links(c)
    BY <1>2, <2>1, SameLinks
  <2> QED BY <1>1, <1>2, <1>3, <1>5, <2>2, StackCalls DEF Calls
<1>7. /\ Len(s) = Len(call[c]) + 1 /\ s[1] = h /\ s[2] = g
      /\ \A i \in 3 .. Len(call[c]) + 1 : s[i] = call[c][i - 1]
  BY <1>1, <1>2, <1>3, TopCalls
<1> HIDE DEF s
<1>8. call' = [call EXCEPT ![c] = s] BY <1>4 DEF s
<1>9. CallsOK' /\ call'[c] = s /\ \A d \in Clients : d # c => call'[d] = call[d]
  BY <1>4, <1>6, <1>8, BecameOK
<1> QED BY <1>4, <1>7, <1>9 DEF Deeper, Others, h, g

LEMMA Returning ==
  ASSUME CallsOK, NEW c \in Clients, call[c] # <<>>, NEW r \in ReplyTo(c, call[c][1].ep), Return(c, r)
  PROVE  /\ CallsOK' /\ Others(c)
         /\ \/ Len(call[c]) = 1 /\ Over(c, TRUE, r)
            \/ Back(c, r) /\ <<call[c][2].ep, call[c][2].at, call[c][1].ep>> \in Sites
<1> DEFINE f == call[c][2]
           g == Answered(f, r)
<1>0. call[c][1].ep \in Eps /\ r \in ReplyOf[call[c][1].ep] BY StackOf, FrameParts DEF ReplyTo
<1>1. r \in Results BY <1>0 DEF Results
<1>2. CASE Len(call[c]) = 1
  <2>1. Ended(c, TRUE, r) BY <1>2 DEF Return
  <2> QED BY <1>0, <1>1, <1>2, <2>1, Ends
<1>3. CASE Len(call[c]) # 1
  <2>1. /\ Len(call[c]) > 1 /\ call[c] \in Calls(c) /\ call[c] \in Seq(Frames(c))
        /\ f \in Frames(c) /\ call[c][1] \in Frames(c) /\ Head(call[c]) = call[c][1]
        /\ <<f.ep, f.at, call[c][1].ep>> \in Sites
    BY <1>3, StackOf, SecondOf
  <2>2. \A e \in Eps : <<f.ep, f.at, e>> \in Sites => r \in ReplyTo(c, e) BY <2>1, SiteNames
  <2>3. g \in Frames(c) /\ g.ep = f.ep /\ g.req = f.req /\ g \in Heads(c)
    <3> HIDE DEF f
    <3> QED BY <1>1, <2>1, <2>2, FrameAnswered
  <2>4. call' = [call EXCEPT ![c] = <<g>> \o Tail(Tail(@))] /\ UNCHANGED answer
    BY <1>3 DEF Return, Answered
  <2> HIDE DEF g
  <2> DEFINE s == <<g>> \o Tail(Tail(call[c]))
  <2>5. s \in Calls(c)
    <3>1. /\ f \in Bottoms(c) => g \in Bottoms(c)
          /\ \A x \in Frames(c) : <<f, x>> \in Links(c) => <<g, x>> \in Links(c)
      BY <2>1, <2>3, SameLinks
    <3> QED BY <2>1, <2>3, <3>1, StackReturns DEF Calls
  <2>6. /\ Len(s) = Len(call[c]) - 1 /\ s[1] = g
        /\ \A i \in 2 .. Len(call[c]) - 1 : s[i] = call[c][i + 1]
    <3>1. call[c] \in Seq(Frames(c)) BY <2>1
    <3>2. Len(call[c]) > 1 BY <2>1
    <3>3. g \in Frames(c) BY <2>3
    <3> DEFINE n == <<g>> \o Tail(Tail(call[c]))
    <3>4. /\ Len(n) = Len(call[c]) - 1 /\ n[1] = g
          /\ \A i \in 2 .. Len(call[c]) - 1 : n[i] = call[c][i + 1]
      BY <3>1, <3>2, <3>3, TopReturns
    <3> QED BY <3>4 DEF s
  <2> HIDE DEF s
  <2>7. call' = [call EXCEPT ![c] = s] BY <2>4 DEF s
  <2>8. CallsOK' /\ call'[c] = s /\ \A d \in Clients : d # c => call'[d] = call[d]
    BY <2>4, <2>5, <2>7, BecameOK
  <2> QED BY <2>1, <2>4, <2>6, <2>8 DEF Back, Others, g
<1> QED BY <1>2, <1>3


-----------------------------------------------------------------------------
(* What a handler f answers, and where, with what, it goes on or calls     *)
(* another one.                                                            *)

Left(f) == IF f.at = "gotFollowers" THEN f.res.followers ELSE f.my.followers

Gives(f, r) ==
  /\ f.ep \in Composers => f.at = "wroteHome"
  /\ f.ep = "write_home_timeline" => f.at \in {"gotFollowers", "next"} /\ Left(f) = <<>>
  /\ f.ep = "write_user_timeline" => f.at = "loaded"
  /\ f.ep = "store_post" => r.post \in DOMAIN posts'
  /\ f.ep = "store_post_multi" => Elements(r.posts) \subseteq DOMAIN posts'
  /\ f.ep = "ro_get_followers" =>
       Has(graph, f.req.user) /\ r.followers = graph[f.req.user].followers
  /\ f.ep = "follow" => f.at = "gotFollowee"

GoesTo(f, place, my) ==
  /\ f.ep \in {"follow", "ro_read_posts"} \cup Writers
  /\ f.ep = "follow" =>
       \/ f.at = "start" /\ place = "gotFollower" /\ my = VertexOf(f.req.follower)
       \/ f.at = "gotFollower" /\ place = "wroteFollower"
       \/ f.at = "wroteFollower" /\ place = "gotFollowee" /\ my = VertexOf(f.req.followee)
  /\ f.ep = "write_home_timeline" =>
       \/ /\ f.at \in {"gotFollowers", "next"} /\ place = "loaded" /\ Left(f) # <<>>
          /\ my.followers = Left(f) /\ my.list = Line("home", Head(Left(f)))
       \/ f.at = "loaded" /\ place = "next" /\ my.followers = Tail(f.my.followers)
  /\ f.ep = "write_user_timeline" =>
       f.at = "start" /\ place = "loaded" /\ my = Line("user", f.req.user)

Seeks(f, e, q, my) ==
  /\ SameUser(Frame(e, q), f)
  /\ e \in Writers => q.posts = my
  /\ e = "write_user_timeline" =>
       \/ f.ep = "compose_post" /\ f.at = "stored" /\ my = <<f.res.post>>
       \/ f.ep = "compose_post_multi" /\ f.at = "storedAll" /\ my = f.res.posts
  /\ e = "write_home_timeline" => f.at = "wroteUser" /\ my = f.my

Step(c) ==
  LET f == call[c][1] IN
  \/ Panic(c)
  \/ \E r \in ReplyTo(c, f.ep) : Gives(f, r) /\ Return(c, r)
  \/ \E place \in PlaceNames : \E my \in LocalsAt(c, f.ep, place) :
       /\ Place(f.ep, place) /\ ~Waits(f.ep, place)
       /\ GoesTo(f, place, my) /\ Goto(c, place, my)
  \/ \E place \in PlaceNames, e \in Eps : \E my \in LocalsAt(c, f.ep, place), q \in RequestFor(c, e) :
       /\ <<f.ep, place, e>> \in Sites /\ Seeks(f, e, q, my)
       /\ \E service \in DOMAIN Endpoints : InvokeWith(c, service, e, q, place, my)

\* What such a step comes to.
Outcome(c) ==
  LET f == call[c][1] IN
  \/ Over(c, FALSE, <<>>)
  \/ \E r \in ReplyTo(c, f.ep) : Gives(f, r) /\ Len(call[c]) = 1 /\ Over(c, TRUE, r)
  \/ \E r \in ReplyTo(c, f.ep) :
       Gives(f, r) /\ Back(c, r) /\ <<call[c][2].ep, call[c][2].at, f.ep>> \in Sites
  \/ \E place \in PlaceNames : \E my \in LocalsAt(c, f.ep, place) :
       GoesTo(f, place, my) /\ Went(c, place, my)
  \/ \E place \in PlaceNames, e \in Eps : \E my \in LocalsAt(c, f.ep, place), q \in RequestFor(c, e) :
       <<f.ep, place, e>> \in Sites /\ Seeks(f, e, q, my) /\ Deeper(c, e, q, place, my)

LEMMA StepOK ==
  ASSUME CallsOK, NEW c \in Clients, call[c] # <<>>, Step(c)
  PROVE  CallsOK' /\ Others(c) /\ Outcome(c)
<1> DEFINE f == call[c][1]
<1>1. CASE Panic(c)
  <2>1. <<>> \in Results /\ FALSE \in BOOLEAN BY DEF Results
  <2>2. Ended(c, FALSE, <<>>) BY <1>1 DEF Panic
  <2>3. CallsOK' /\ Over(c, FALSE, <<>>) /\ Others(c) BY <2>1, <2>2, Ends
  <2> QED BY <2>3 DEF Outcome
<1>2. ASSUME NEW r \in ReplyTo(c, f.ep), Gives(f, r), Return(c, r)
      PROVE  CallsOK' /\ Others(c) /\ Outcome(c)
  <2>1. /\ CallsOK' /\ Others(c)
        /\ \/ Len(call[c]) = 1 /\ Over(c, TRUE, r)
           \/ Back(c, r) /\ <<call[c][2].ep, call[c][2].at, call[c][1].ep>> \in Sites
    BY <1>2, Returning
  <2> QED BY <1>2, <2>1 DEF Outcome
<1>3. ASSUME NEW place \in PlaceNames, NEW my \in LocalsAt(c, f.ep, place),
             Place(f.ep, place), ~Waits(f.ep, place), GoesTo(f, place, my), Goto(c, place, my)
      PROVE  CallsOK' /\ Others(c) /\ Outcome(c)
  <2>1. CallsOK' /\ Went(c, place, my) /\ Others(c) BY <1>3, Goes
  <2> QED BY <1>3, <2>1 DEF Outcome
<1>4. ASSUME NEW place \in PlaceNames, NEW e \in Eps, NEW my \in LocalsAt(c, f.ep, place),
             NEW q \in RequestFor(c, e), <<f.ep, place, e>> \in Sites, Seeks(f, e, q, my),
             NEW service \in DOMAIN Endpoints, InvokeWith(c, service, e, q, place, my)
      PROVE  CallsOK' /\ Others(c) /\ Outcome(c)
  <2>1. CASE <<service, e>> \in up
    <3>1. SameUser(Frame(e, q), call[c][1]) BY <1>4 DEF Seeks
    <3>2. CallsOK' /\ Deeper(c, e, q, place, my) /\ Others(c) BY <1>4, <2>1, <3>1, Asking
    <3> QED BY <1>4, <3>2 DEF Outcome
  <2>2. CASE <<service, e>> \notin up
    <3>1. Panic(c) BY <1>4, <2>2 DEF InvokeWith, performRequest
    <3> QED BY <1>1, <3>1
  <2> QED BY <2>1, <2>2
<1> QED BY <1>1, <1>2, <1>3, <1>4 DEF Step

-----------------------------------------------------------------------------
(* Each handler takes such steps, and keeps the values of its service well *)
(* formed.                                                                 *)

LEMMA Serves ==
  ASSUME CallsOK, NEW c \in Clients, NEW e, Serving(c, e)
  PROVE  /\ call[c] # <<>> /\ e \in Eps /\ call[c][1].ep = e /\ Head(call[c]) = call[c][1]
         /\ Req(c) \in RequestOf[e] /\ Req(c) \in RequestFor(c, e) /\ call[c][1].req = Req(c)
         /\ call[c][1].my = My(c) /\ call[c][1].res = Res(c)
         /\ call[c][1] \in Frames(c) /\ My(c) \in LocalsAt(c, e, call[c][1].at)
         /\ \A p : At(c, p) => call[c][1].at = p /\ My(c) \in LocalsAt(c, e, p)
         /\ \A p, callee : At(c, p) /\ <<e, p, callee>> \in Sites => Res(c) \in ReplyTo(c, callee)
<1>1. call[c] # <<>> /\ Head(call[c]).ep = e BY DEF Serving
<1>2. Head(call[c]) = call[c][1] /\ call[c][1] \in Frames(c) /\ call[c][1] \in Heads(c)
  BY <1>1, StackOf
<1>3. \A p, callee : <<e, p, callee>> \in Sites => callee \in Eps BY SiteNames
<1> QED BY <1>1, <1>2, <1>3, FrameParts DEF Req, My, At, Res, Heads

LEMMA CallStep ==
  ASSUME CallsOK, NEW c \in Clients, NEW e, Serving(c, e), NEW place, NEW callee,
         <<e, place, callee>> \in Sites, NEW q \in RequestFor(c, callee),
         NEW my \in LocalsAt(c, e, place), Seeks(call[c][1], callee, q, my),
         NEW service \in DOMAIN Endpoints, InvokeWith(c, service, callee, q, place, my)
  PROVE  Step(c)
<1>1. call[c][1].ep = e BY Serves
<1>2. place \in PlaceNames /\ callee \in Eps BY SiteNames
<1> QED BY <1>1, <1>2 DEF Step

LEMMA ReturnStep ==
  ASSUME CallsOK, NEW c \in Clients, NEW e, Serving(c, e), NEW r \in ReplyTo(c, e),
         Gives(call[c][1], r), Return(c, r)
  PROVE  Step(c)
<1>1. call[c][1].ep = e BY Serves
<1> QED BY <1>1 DEF Step

LEMMA GotoStep ==
  ASSUME CallsOK, NEW c \in Clients, NEW e, Serving(c, e), NEW place \in PlaceNames,
         Place(e, place), ~Waits(e, place), NEW my \in LocalsAt(c, e, place),
         GoesTo(call[c][1], place, my), Goto(c, place, my)
  PROVE  Step(c)
<1>1. call[c][1].ep = e BY Serves
<1> QED BY <1>1 DEF Step

LEMMA PanicStep == ASSUME NEW c, Panic(c) PROVE Step(c)
BY DEF Step

LEMMA StatesStay == ASSUME StatesOK, UNCHANGED state PROVE StatesOK'
BY DEF StatesOK, StateOf, state

\* What is read of the services.
LEMMA Reads ==
  ASSUME StatesOK
  PROVE  /\ \A u \in Users : VertexOf(u) \in SGVertex
         /\ \A kind, u : Line(kind, u) \in Seq(PostIds)
         /\ \A u : Line("user", u) = Timeline(userTimelines, u)
         /\ \A u : Line("home", u) = Timeline(homeTimelines, u)
<1>1. /\ StateOf(graph, Users, SGVertex)
      /\ StateOf(userTimelines, Users, Seq(PostIds)) /\ StateOf(homeTimelines, Users, Seq(PostIds))
  BY DEF StatesOK
<1>2. NoVertex \in SGVertex
  <2>1. <<>> \in Seq(Users) BY EmptySeq
  <2> QED BY <2>1 DEF NoVertex, SGVertex
<1>3. \A u : Has(graph, u) => graph[u] \in SGVertex BY <1>1 DEF StateOf, Has
<1>4. \A u : VertexOf(u) \in SGVertex BY <1>2, <1>3 DEF VertexOf
<1>5. <<>> \in Seq(PostIds) BY EmptySeq
<1>6. /\ \A u : Timeline(userTimelines, u) \in Seq(PostIds)
      /\ \A u : Timeline(homeTimelines, u) \in Seq(PostIds)
  BY <1>1, <1>5 DEF StateOf, Timeline, Has, GetState
<1> QED BY <1>4, <1>6 DEF Line

\* What is kept where.
Calm(f) ==
  /\ f.ep \notin {"insert_user", "follow_multi"} \cup Stores
  /\ f.ep \in Writers => f.at # "loaded"
  /\ f.ep = "follow" => f.at \notin {"gotFollower", "gotFollowee"}

Stored(c) ==
  /\ call[c][1].ep \in Stores
  /\ DOMAIN posts \subseteq DOMAIN posts'
  /\ UNCHANGED <<graph, userTimelines, homeTimelines, log, raced>>

\* A vertex is written, and what it was read as.
VertexIs(f, u, v) ==
  \/ /\ f.ep = "follow" /\ f.at = "gotFollower" /\ u = f.req.follower
     /\ v = [f.my EXCEPT !.followees = Append(@, f.req.followee)]
  \/ /\ f.ep = "follow" /\ f.at = "gotFollowee" /\ u = f.req.followee
     /\ v = AddFollower(f.my, f.req.follower)
  \/ f.ep = "insert_user" /\ v = NoVertex /\ (Has(graph, u) => <<"graph", u>> \in raced')
  \/ f.ep = "follow_multi" /\ <<"graph", u>> \in raced'
Vertexed(c, u, v) ==
  /\ VertexIs(call[c][1], u, v)
  /\ graph' = SetState(graph, u, v)
  /\ raced \subseteq raced'
  /\ call[c][1].ep = "follow" => raced' = raced \cup Races(c, "graph", u)
  /\ Races(c, "graph", u) \subseteq raced'
  /\ UNCHANGED <<posts, userTimelines, homeTimelines, log>>

\* The posts of a request are written to a timeline.
Lined(c, kind, u) ==
  /\ LET f == call[c][1] IN
       /\ f.at = "loaded"
       /\ \/ f.ep = "write_home_timeline" /\ kind = "home" /\ u = Head(f.my.followers)
          \/ f.ep = "write_user_timeline" /\ kind = "user" /\ u = f.req.user
       /\ Line(kind, u)' = Written(Copy(f, kind), f.req.posts)
       /\ Appends(c, kind, u, f.req.posts)
  /\ \A k \in Kinds, w \in Users : <<k, w>> # <<kind, u>> => Line(k, w)' = Line(k, w)
  /\ UNCHANGED <<graph, posts>>

Changed(c) ==
  \/ UNCHANGED state /\ Calm(call[c][1])
  \/ Stored(c)
  \/ \E u \in Users : \E v \in SGVertex : Vertexed(c, u, v)
  \/ \E kind \in Kinds : \E u \in Users : Lined(c, kind, u)

-----------------------------------------------------------------------------
(* The handlers of the social graph. *)

LEMMA GetFollowersStep ==
  ASSUME CallsOK, StatesOK, NEW c \in Clients, GetFollowersHandler(c)
  PROVE  Step(c) /\ UNCHANGED state
<1> DEFINE f == call[c][1]
           u == Req(c).user
           r == [followers |-> graph[u].followers]
<1>1. Serving(c, "ro_get_followers") /\ UNCHANGED state /\ GetFollowers(c, u)
  BY DEF GetFollowersHandler, GetFollowers
<1>2. f.ep = "ro_get_followers" /\ f.req = Req(c) BY <1>1, Serves
<1>3. CASE ~Has(graph, u)
  <2>1. Panic(c) BY <1>1, <1>3 DEF GetFollowers
  <2> QED BY <1>1, <2>1, PanicStep
<1>4. CASE Has(graph, u)
  <2>1. Return(c, r) BY <1>1, <1>4 DEF GetFollowers, GetState
  <2>2. graph[u] \in SGVertex BY <1>4 DEF StatesOK, StateOf, Has
  <2>3. ReplyOf["ro_get_followers"] = GetFollowersResponse BY DEF ReplyOf
  <2>4. r \in ReplyTo(c, "ro_get_followers")
    BY <2>2, <2>3 DEF ReplyTo, GetFollowersResponse, SGVertex
  <2>5. Gives(f, r)
    <3>1. f.req.user = u /\ r.followers = graph[u].followers BY <1>2
    <3> HIDE DEF f, u, r
    <3> QED BY <1>2, <1>4, <3>1 DEF Gives, Composers
  <2> HIDE DEF r
  <2> QED BY <1>1, <2>1, <2>4, <2>5, ReturnStep
<1> QED BY <1>3, <1>4

LEMMA GetFolloweesStep ==
  ASSUME CallsOK, StatesOK, NEW c \in Clients, GetFolloweesHandler(c)
  PROVE  Step(c) /\ UNCHANGED state
<1> DEFINE f == call[c][1]
           u == Req(c).user
           r == [followees |-> graph[u].followees]
<1>1. Serving(c, "ro_get_followees") /\ UNCHANGED state /\ GetFollowees(c, u)
  BY DEF GetFolloweesHandler, GetFollowees
<1>2. f.ep = "ro_get_followees" BY <1>1, Serves
<1>3. CASE ~Has(graph, u)
  <2>1. Panic(c) BY <1>1, <1>3 DEF GetFollowees
  <2> QED BY <1>1, <2>1, PanicStep
<1>4. CASE Has(graph, u)
  <2>1. Return(c, r) BY <1>1, <1>4 DEF GetFollowees, GetState
  <2>2. graph[u] \in SGVertex BY <1>4 DEF StatesOK, StateOf, Has
  <2>3. ReplyOf["ro_get_followees"] = GetFolloweesResponse BY DEF ReplyOf
  <2>4. r \in ReplyTo(c, "ro_get_followees")
    BY <2>2, <2>3 DEF ReplyTo, GetFolloweesResponse, SGVertex
  <2>5. Gives(f, r) BY <1>2 DEF Gives, Composers
  <2> HIDE DEF r
  <2> QED BY <1>1, <2>1, <2>4, <2>5, ReturnStep
<1> QED BY <1>3, <1>4

\* A vertex is written.
LEMMA GraphTyped ==
  ASSUME StatesOK, NEW u \in Users, NEW v \in SGVertex, graph' = SetState(graph, u, v),
         UNCHANGED <<posts, userTimelines, homeTimelines, log>>
  PROVE  StatesOK'
<1>1. StateOf(graph, Users, SGVertex) BY DEF StatesOK
<1>2. StateOf(graph', Users, SGVertex) BY <1>1, StoredType
<1> QED BY <1>2 DEF StatesOK, StateOf

LEMMA OKReply ==
  ASSUME NEW c, NEW e \in {"insert_user", "follow", "follow_multi"} \cup Writers \cup Composers
  PROVE  OK \in ReplyTo(c, e)
<1>1. ReplyOf[e] = {OK} BY DEF ReplyOf, Writers, Composers
<1>2. e \notin Stores BY DEF Stores, Writers, Composers
<1> QED BY <1>1, <1>2 DEF ReplyTo, Stores

LEMMA InsertUserStep ==
  ASSUME CallsOK, StatesOK, NEW c \in Clients, InsertUserHandler(c)
  PROVE  Step(c) /\ StatesOK' /\ Changed(c)
<1> DEFINE f == call[c][1]
           u == Req(c).user
<1>1. Serving(c, "insert_user") /\ InsertUser(c, u) BY DEF InsertUserHandler
<1>2. f.ep = "insert_user" /\ u \in Users
  <2>1. RequestOf["insert_user"] = InsertUserRequest BY DEF RequestOf
  <2>2. Req(c) \in InsertUserRequest BY <1>1, <2>1, Serves
  <2> QED BY <1>1, <2>2, Serves DEF InsertUserRequest
<1>3. /\ graph' = SetState(graph, u, NoVertex) /\ Return(c, OK)
      /\ raced' = raced \cup (IF Has(graph, u) THEN {<<"graph", u>>} ELSE {}) \cup Races(c, "graph", u)
      /\ UNCHANGED <<posts, userTimelines, homeTimelines, log>>
  BY <1>1 DEF InsertUser
<1>4. NoVertex \in SGVertex
  <2>1. <<>> \in Seq(Users) BY EmptySeq
  <2> QED BY <2>1 DEF NoVertex, SGVertex
<1>5. StatesOK' BY <1>2, <1>3, <1>4, GraphTyped
<1>6. Step(c)
  <2>1. Gives(f, OK) BY <1>2 DEF Gives, Composers
  <2> QED BY <1>1, <1>3, <2>1, OKReply, ReturnStep
<1> HIDE DEF f, u
<1>7. VertexIs(f, u, NoVertex) BY <1>2, <1>3 DEF VertexIs
<1>8. raced \subseteq raced' /\ Races(c, "graph", u) \subseteq raced' BY <1>3
<1>9. Vertexed(c, u, NoVertex) BY <1>2, <1>3, <1>7, <1>8 DEF Vertexed, f
<1> QED BY <1>2, <1>4, <1>5, <1>6, <1>9 DEF Changed

LEMMA OldestTyped ==
  ASSUME NEW S, NEW list \in Seq(S), NEW bound \in Nat
  PROVE  Oldest(list, bound) \in Seq(S)
<1>1. Len(list) \in Nat BY LenProperties
<1>2. CASE Len(list) >= bound
  <2>1. \A i \in 1 .. bound : i \in 1 .. Len(list) BY <1>1, <1>2
  <2>2. \A i \in 1 .. bound : list[i] \in S BY <2>1, ElementOfSeq
  <2>3. SubSeq(list, 1, bound) \in Seq(S) BY <2>2, SubSeqProperties
  <2> QED BY <1>2, <2>3 DEF Oldest
<1>3. CASE ~ (Len(list) >= bound) BY <1>3 DEF Oldest
<1> QED BY <1>2, <1>3

LEMMA FollowMultiStep ==
  ASSUME CallsOK, StatesOK, NEW c \in Clients, FollowMultiHandler(c)
  PROVE  Step(c) /\ StatesOK' /\ Changed(c)
<1> DEFINE f == call[c][1]
           u == Req(c).user
           v == [followers |-> Oldest(Req(c).followers, MaxKept),
                 followees |-> Oldest(Req(c).followees, MaxKept)]
<1>1. /\ Serving(c, "follow_multi") /\ FollowMulti(c, u, Req(c).followers, Req(c).followees)
  BY DEF FollowMultiHandler
<1>2. f.ep = "follow_multi" /\ u \in Users /\ v \in SGVertex
  <2>1. RequestOf["follow_multi"] = FollowManyRequest BY DEF RequestOf
  <2>2. Req(c) \in FollowManyRequest BY <1>1, <2>1, Serves
  <2>3. u \in Users /\ Req(c).followers \in Seq(Users) /\ Req(c).followees \in Seq(Users)
    BY <2>2, SocialAssumption DEF FollowManyRequest
  <2>4. /\ Oldest(Req(c).followers, MaxKept) \in Seq(Users)
        /\ Oldest(Req(c).followees, MaxKept) \in Seq(Users)
    <3>1. MaxKept \in Nat BY SocialAssumption
    <3> QED BY <2>3, <3>1, OldestTyped
  <2> QED BY <1>1, <2>3, <2>4, Serves DEF SGVertex
<1>3. /\ graph' = SetState(graph, u, v) /\ Return(c, OK)
      /\ raced' = raced \cup {<<"graph", u>>}
      /\ UNCHANGED <<posts, userTimelines, homeTimelines, log>>
  BY <1>1 DEF FollowMulti
<1>5. StatesOK' BY <1>2, <1>3, GraphTyped
<1>6. Step(c)
  <2>1. Gives(f, OK) BY <1>2 DEF Gives, Composers
  <2> QED BY <1>1, <1>3, <2>1, OKReply, ReturnStep
<1> HIDE DEF f, u, v
<1>7. VertexIs(f, u, v) BY <1>2, <1>3 DEF VertexIs
<1>8. raced \subseteq raced' /\ Races(c, "graph", u) \subseteq raced' BY <1>3 DEF Races
<1>9. Vertexed(c, u, v) BY <1>2, <1>3, <1>7, <1>8 DEF Vertexed, f
<1> QED BY <1>2, <1>5, <1>6, <1>9 DEF Changed

\* A read of follow goes on with what it has read, or panics.
LEMMA FollowStep ==
  ASSUME CallsOK, StatesOK, NEW c \in Clients, FollowHandler(c)
  PROVE  Step(c) /\ StatesOK' /\ Changed(c)
<1> DEFINE f == call[c][1]
           a == Req(c).follower
           b == Req(c).followee
<1>1. Serving(c, "follow") /\ Follow(c, a, b) BY DEF FollowHandler
<1>2. /\ f.ep = "follow" /\ f.req = Req(c) /\ f.my = My(c) /\ a \in Users /\ b \in Users
      /\ f.req.follower = a /\ f.req.followee = b
  <2>1. RequestOf["follow"] = FollowRequest BY DEF RequestOf
  <2>2. Req(c) \in FollowRequest BY <1>1, <2>1, Serves
  <2> QED BY <1>1, <2>2, Serves DEF FollowRequest
<1>3. "follow" \notin Stores \cup Writers /\ UNCHANGED <<posts, userTimelines, homeTimelines, log>>
  BY <1>1 DEF Follow, Stores, Writers
<1>4. ASSUME NEW p, At(c, p) PROVE f.at = p BY <1>1, <1>4, Serves
<1> HIDE DEF f, a, b
<1>5. ASSUME UNCHANGED <<graph, raced>>, f.at \notin {"gotFollower", "gotFollowee"}
      PROVE  StatesOK' /\ Changed(c)
  <2>1. UNCHANGED state BY <1>3, <1>5 DEF state
  <2>2. Calm(call[c][1]) BY <1>2, <1>3, <1>5 DEF Calm, f
  <2> QED BY <2>1, <2>2, StatesStay DEF Changed
<1>6. ASSUME NEW u \in Users, NEW v \in SGVertex, graph' = SetState(graph, u, v),
             raced' = raced \cup Races(c, "graph", u), VertexIs(f, u, v)
      PROVE  StatesOK' /\ Changed(c)
  <2>1. StatesOK' BY <1>3, <1>6, GraphTyped
  <2>2. Vertexed(c, u, v) BY <1>3, <1>6 DEF Vertexed, f
  <2> QED BY <2>1, <2>2 DEF Changed
<1>7. CASE At(c, "start")
  <2>1. Goto(c, "gotFollower", VertexOf(a)) /\ UNCHANGED <<graph, raced>> /\ f.at = "start"
    BY <1>1, <1>4, <1>7 DEF Follow, At, VertexOf, GetState
  <2>2. VertexOf(a) \in LocalsAt(c, "follow", "gotFollower") BY <1>2, Reads DEF LocalsAt
  <2>3. GoesTo(f, "gotFollower", VertexOf(a)) BY <1>2, <2>1 DEF GoesTo, Writers
  <2>4. Step(c) BY <1>1, <2>1, <2>2, <2>3, PauseList, GotoStep DEF f
  <2> QED BY <1>5, <2>1, <2>4
<1>8. CASE At(c, "gotFollower")
  <2> DEFINE v == [My(c) EXCEPT !.followees = Append(@, b)]
  <2>1. /\ Goto(c, "wroteFollower", <<>>) /\ graph' = SetState(graph, a, v) /\ f.at = "gotFollower"
        /\ raced' = raced \cup Races(c, "graph", a)
    BY <1>1, <1>4, <1>8 DEF Follow, At
  <2>2. <<>> \in LocalsAt(c, "follow", "wroteFollower") BY DEF LocalsAt, Composers
  <2>3. GoesTo(f, "wroteFollower", <<>>) BY <1>2, <2>1 DEF GoesTo, Writers
  <2>4. Step(c) BY <1>1, <2>1, <2>2, <2>3, PauseList, GotoStep DEF f
  <2>5. My(c) \in SGVertex BY <1>1, <1>8, Serves DEF LocalsAt
  <2>6. v \in SGVertex
    <3>1. Append(My(c).followees, b) \in Seq(Users) BY <1>2, <2>5, AppendProperties DEF SGVertex
    <3> QED BY <2>5, <3>1 DEF SGVertex
  <2>7. VertexIs(f, a, v) BY <1>2, <2>1 DEF VertexIs
  <2> QED BY <1>2, <1>6, <2>1, <2>4, <2>6, <2>7
<1>9. CASE At(c, "wroteFollower") /\ Has(graph, b)
  <2>1. Goto(c, "gotFollowee", VertexOf(b)) /\ UNCHANGED <<graph, raced>> /\ f.at = "wroteFollower"
    BY <1>1, <1>4, <1>9 DEF Follow, At, VertexOf, GetState
  <2>2. VertexOf(b) \in LocalsAt(c, "follow", "gotFollowee") BY <1>2, Reads DEF LocalsAt
  <2>3. GoesTo(f, "gotFollowee", VertexOf(b)) BY <1>2, <2>1 DEF GoesTo, Writers
  <2>4. Step(c) BY <1>1, <2>1, <2>2, <2>3, PauseList, GotoStep DEF f
  <2> QED BY <1>5, <2>1, <2>4
<1>10. CASE At(c, "wroteFollower") /\ ~Has(graph, b)
  <2>1. Panic(c) /\ UNCHANGED <<graph, raced>> /\ f.at = "wroteFollower"
    BY <1>1, <1>4, <1>10 DEF Follow, At
  <2> QED BY <1>5, <2>1, PanicStep
<1>11. CASE At(c, "gotFollowee")
  <2> DEFINE v == AddFollower(My(c), a)
  <2>1. /\ Return(c, OK) /\ graph' = SetState(graph, b, v) /\ f.at = "gotFollowee"
        /\ raced' = raced \cup Races(c, "graph", b)
    BY <1>1, <1>4, <1>11 DEF Follow, At
  <2>2. Gives(f, OK) BY <1>2, <2>1 DEF Gives, Composers
  <2>3. Step(c) BY <1>1, <2>1, <2>2, OKReply, ReturnStep DEF f
  <2>5. My(c) \in SGVertex BY <1>1, <1>11, Serves DEF LocalsAt
  <2>6. v \in SGVertex
    <3>1. Append(My(c).followers, a) \in Seq(Users) BY <1>2, <2>5, AppendProperties DEF SGVertex
    <3> QED BY <2>5, <3>1 DEF SGVertex, AddFollower
  <2>7. VertexIs(f, b, v) BY <1>2, <2>1 DEF VertexIs
  <2> HIDE DEF v
  <2> QED BY <1>2, <1>6, <2>1, <2>3, <2>6, <2>7
<1> QED BY <1>1, <1>7, <1>8, <1>9, <1>10, <1>11 DEF Follow

-----------------------------------------------------------------------------
(* The handlers of the post storage. *)

LEMMA PostsStored ==
  ASSUME StatesOK, NEW c \in Clients, NEW number \in Nat \ {0}, NEW u \in Users,
         posts' = SetPosts(u, NewIds(c, number)),
         UNCHANGED <<graph, userTimelines, homeTimelines, log, raced>>
  PROVE  StatesOK' /\ DOMAIN posts' = DOMAIN posts \cup NewIds(c, number)
<1> DEFINE ids == NewIds(c, number)
           new == [id \in ids |-> [id |-> id, creator |-> u]]
<1>1. ids \subseteq PostIds
  <2>1. \A i \in 1 .. number : i \in Nat \ {0} OBVIOUS
  <2> QED BY <2>1 DEF NewIds, PostIds
<1>2. StateOf(posts, PostIds, Post) BY DEF StatesOK
<1> HIDE DEF ids
<1>3. \A id \in ids : new[id] \in Post BY <1>1 DEF Post
<1>4. posts' = SetBulkState(posts, new) BY DEF SetPosts, ids
<1>5. DOMAIN new = ids OBVIOUS
<1> HIDE DEF new
<1>6. /\ DOMAIN posts' = DOMAIN posts \cup ids
      /\ \A k \in DOMAIN posts' : posts'[k] = IF k \in ids THEN new[k] ELSE posts[k]
  BY <1>4, <1>5 DEF SetBulkState
<1>7. StateOf(posts', PostIds, Post) BY <1>1, <1>2, <1>3, <1>6 DEF StateOf
<1> QED BY <1>6, <1>7 DEF StatesOK, StateOf, ids

LEMMA StorePostStep ==
  ASSUME CallsOK, StatesOK, NEW c \in Clients, storePost(c)
  PROVE  Step(c) /\ StatesOK' /\ Changed(c)
<1> DEFINE f == call[c][1]
           u == Req(c).creator
           r == [post |-> <<c, 1>>]
<1>1. /\ Serving(c, "store_post") /\ posts' = SetPosts(u, NewIds(c, 1)) /\ Return(c, r)
      /\ UNCHANGED <<graph, userTimelines, homeTimelines, log, raced>>
  BY DEF storePost, StorePost, StorePostMulti
<1>2. f.ep = "store_post" /\ u \in Users
  <2>1. RequestOf["store_post"] = StorePostRequest BY DEF RequestOf
  <2>2. Req(c) \in StorePostRequest BY <1>1, <2>1, Serves
  <2> QED BY <1>1, <2>2, Serves DEF StorePostRequest
<1>3. StatesOK' /\ DOMAIN posts' = DOMAIN posts \cup NewIds(c, 1)
  <2>1. 1 \in Nat \ {0} OBVIOUS
  <2> QED BY <1>1, <1>2, <2>1, PostsStored
<1>4. r.post = <<c, 1>> OBVIOUS
<1>5. r \in ReplyTo(c, "store_post")
  <2>1. ReplyOf["store_post"] = StorePostResponse BY DEF ReplyOf
  <2>2. <<c, 1>> \in PostIds BY DEF PostIds
  <2> QED BY <2>1, <2>2 DEF ReplyTo, StorePostResponse
<1> HIDE DEF r, f, u
<1>6. Gives(f, r)
  <2>1. <<c, 1>> \in NewIds(c, 1) BY DEF NewIds
  <2> QED BY <1>2, <1>3, <1>4, <2>1 DEF Gives, Composers
<1>7. Step(c) BY <1>1, <1>5, <1>6, ReturnStep DEF f
<1>8. Stored(c) BY <1>1, <1>2, <1>3 DEF Stored, Stores, f
<1> QED BY <1>3, <1>7, <1>8 DEF Changed

LEMMA StorePostMultiStep ==
  ASSUME CallsOK, StatesOK, NEW c \in Clients, storePostMulti(c)
  PROVE  Step(c) /\ StatesOK' /\ Changed(c)
<1> DEFINE f == call[c][1]
           u == Req(c).creator
           n == Req(c).number
           ids == [i \in 1 .. n |-> <<c, i>>]
           r == [posts |-> ids]
<1>1. /\ Serving(c, "store_post_multi") /\ posts' = SetPosts(u, NewIds(c, n)) /\ Return(c, r)
      /\ UNCHANGED <<graph, userTimelines, homeTimelines, log, raced>>
  BY DEF storePostMulti, StorePostMulti
<1>2. f.ep = "store_post_multi" /\ u \in Users /\ n \in Nat \ {0}
  <2>1. RequestOf["store_post_multi"] = StorePostMultiRequest BY DEF RequestOf
  <2>2. Req(c) \in StorePostMultiRequest BY <1>1, <2>1, Serves
  <2> QED BY <1>1, <2>2, Serves, SocialAssumption DEF StorePostMultiRequest
<1> HIDE DEF f, u, n
<1>3. StatesOK' /\ DOMAIN posts' = DOMAIN posts \cup NewIds(c, n) BY <1>1, <1>2, PostsStored
<1>4. ids \in Batch(c)
  <2>1. \A i \in 1 .. n : <<c, i>> \in PostIds BY <1>2 DEF PostIds
  <2>2. ids \in Seq(PostIds)
    <3>1. ids \in [1 .. n -> PostIds] /\ n \in Nat BY <1>2, <2>1
    <3> HIDE DEF ids
    <3> QED BY <3>1, SeqDef
  <2>3. DOMAIN ids = 1 .. n /\ \A i \in 1 .. n : ids[i] = <<c, i>> OBVIOUS
  <2>4. 1 \in 1 .. n BY <1>2
  <2> HIDE DEF ids
  <2>5. ids # <<>>
    <3>1. 1 \in DOMAIN ids BY <2>3, <2>4
    <3> QED BY <3>1
  <2> QED BY <2>2, <2>3, <2>5 DEF Batch
<1>5. Elements(ids) \subseteq NewIds(c, n)
  <2> SUFFICES ASSUME NEW i \in DOMAIN ids PROVE ids[i] \in NewIds(c, n) BY DEF Elements
  <2>1. i \in 1 .. n /\ ids[i] = <<c, i>> OBVIOUS
  <2> QED BY <2>1 DEF NewIds
<1> HIDE DEF ids
<1>6. r.posts = ids OBVIOUS
<1>7. r \in ReplyTo(c, "store_post_multi")
  <2>1. ReplyOf["store_post_multi"] = StorePostMultiResponse BY DEF ReplyOf
  <2>2. ids \in Seq(PostIds) BY <1>4 DEF Batch
  <2> QED BY <1>4, <1>6, <2>1, <2>2 DEF ReplyTo, StorePostMultiResponse
<1> HIDE DEF r
<1>8. Gives(f, r) BY <1>2, <1>3, <1>5, <1>6 DEF Gives, Composers
<1>9. Step(c) BY <1>1, <1>7, <1>8, ReturnStep DEF f
<1>10. Stored(c) BY <1>1, <1>2, <1>3 DEF Stored, Stores, f
<1> QED BY <1>3, <1>9, <1>10 DEF Changed

LEMMA ReadPostStep ==
  ASSUME CallsOK, StatesOK, NEW c \in Clients, readPost(c)
  PROVE  Step(c) /\ UNCHANGED state
<1> DEFINE f == call[c][1]
           p == Req(c).post
           r == [post |-> posts[p]]
<1>1. Serving(c, "ro_read_post") /\ UNCHANGED state /\ ReadPost(c, p) BY DEF readPost, ReadPost
<1>2. f.ep = "ro_read_post" BY <1>1, Serves
<1>3. CASE ~Has(posts, p)
  <2>1. Panic(c) BY <1>1, <1>3 DEF ReadPost
  <2> QED BY <1>1, <2>1, PanicStep
<1>4. CASE Has(posts, p)
  <2>1. Return(c, r) BY <1>1, <1>4 DEF ReadPost, GetState
  <2>2. posts[p] \in Post BY <1>4 DEF StatesOK, StateOf, Has
  <2>3. ReplyOf["ro_read_post"] = ReadPostResponse BY DEF ReplyOf
  <2>4. r \in ReplyTo(c, "ro_read_post") BY <2>2, <2>3 DEF ReplyTo, ReadPostResponse
  <2>5. Gives(f, r) BY <1>2 DEF Gives, Composers
  <2> HIDE DEF r
  <2> QED BY <1>1, <2>1, <2>4, <2>5, ReturnStep
<1> QED BY <1>3, <1>4

LEMMA ReadPostsStep ==
  ASSUME CallsOK, StatesOK, NEW c \in Clients, readPosts(c)
  PROVE  Step(c) /\ UNCHANGED state
<1> DEFINE f == call[c][1]
           ids == Req(c).posts
           n == Len(My(c)) + 1
           v == posts[ids[n]]
           r == [posts |-> My(c)]
<1>1. Serving(c, "ro_read_posts") /\ UNCHANGED state /\ ReadPosts(c, ids)
  BY DEF readPosts, ReadPosts
<1>2. f.ep = "ro_read_posts" /\ Head(call[c]) = f BY <1>1, Serves
<1>3. My(c) \in Seq(Post)
  <2>1. My(c) \in LocalsAt(c, "ro_read_posts", f.at) BY <1>1, Serves
  <2> HIDE DEF f
  <2> QED BY <2>1 DEF LocalsAt, Composers
<1>4. f.at \in PlaceNames /\ Place("ro_read_posts", f.at) /\ ~Waits("ro_read_posts", f.at)
  <2>1. f \in Frames(c) BY <1>1, Serves
  <2>2. f.at \in PlaceNames /\ Place("ro_read_posts", f.at) BY <1>2, <2>1, FrameParts
  <2>3. \A e : <<"ro_read_posts", f.at, e>> \notin Sites BY DEF Sites
  <2> QED BY <2>2, <2>3 DEF Waits
<1>5. CASE GetBulkState(c, posts, ids) /\ ~Has(posts, ids[n])
  <2>1. Panic(c) BY <1>5 DEF GetBulkState
  <2> QED BY <1>1, <2>1, PanicStep
<1>6. CASE GetBulkState(c, posts, ids) /\ Has(posts, ids[n])
  <2>1. Goto(c, f.at, Append(My(c), v)) BY <1>2, <1>6 DEF GetBulkState, GetState
  <2>2. v \in Post BY <1>6 DEF StatesOK, StateOf, Has
  <2>3. GoesTo(f, f.at, Append(My(c), v)) BY <1>2 DEF GoesTo, Writers
  <2> HIDE DEF v, f
  <2>4. Append(My(c), v) \in Seq(Post) BY <1>3, <2>2, AppendProperties
  <2>5. Append(My(c), v) \in LocalsAt(c, "ro_read_posts", f.at) BY <2>4 DEF LocalsAt, Composers
  <2>6. GoesTo(call[c][1], f.at, Append(My(c), v)) BY <2>3 DEF f
  <2> QED BY <1>1, <1>4, <2>1, <2>5, <2>6, GotoStep
<1>7. CASE AllRead(c, ids) /\ Return(c, r)
  <2>1. ReplyOf["ro_read_posts"] = ReadPostsResponse BY DEF ReplyOf
  <2>2. r \in ReplyTo(c, "ro_read_posts") BY <1>3, <2>1 DEF ReplyTo, ReadPostsResponse
  <2>3. Gives(f, r) BY <1>2 DEF Gives, Composers
  <2> HIDE DEF r
  <2> QED BY <1>1, <1>7, <2>2, <2>3, ReturnStep
<1> QED BY <1>1, <1>5, <1>6, <1>7 DEF ReadPosts

-----------------------------------------------------------------------------
(* The handlers of the timelines. *)

LEMMA ReadTimelineStep ==
  ASSUME CallsOK, StatesOK, NEW c \in Clients, NEW e \in Readers, Serving(c, e),
         NEW timelines, StateOf(timelines, Users, Seq(PostIds)), NEW user,
         ReadTimeline(c, timelines, user)
  PROVE  Step(c) /\ UNCHANGED state
<1> DEFINE f == call[c][1]
           q == [posts |-> timelines[user]]
<1>1. f.ep = e /\ UNCHANGED state BY Serves DEF ReadTimeline
<1>2. <<e, "gotPosts", "ro_read_posts">> \in Sites BY SiteList DEF Readers
<1>3. ReplyOf[e] = [posts : Seq(Post)] /\ ReplyOf["ro_read_posts"] = [posts : Seq(Post)]
  <2>1. /\ ReplyOf["ro_read_home_timeline"] = [posts : Seq(Post)]
        /\ ReplyOf["ro_read_user_timeline"] = [posts : Seq(Post)]
        /\ ReplyOf["ro_read_posts"] = [posts : Seq(Post)]
    BY DEF ReplyOf, ReadPostsResponse, ReadHomeTimelineResponse, ReadUserTimelineResponse
  <2> QED BY <2>1 DEF Readers
<1>4. \A r \in [posts : Seq(Post)] : r \in ReplyTo(c, e) /\ Gives(f, r)
  BY <1>1, <1>3 DEF ReplyTo, Gives, Readers, Composers
<1>5. CASE At(c, "start") /\ ~Has(timelines, user)
  <2>1. Return(c, [posts |-> <<>>]) BY <1>5 DEF ReadTimeline, At
  <2>2. [posts |-> <<>>] \in [posts : Seq(Post)]
    <3>1. <<>> \in Seq(Post) BY EmptySeq
    <3> QED BY <3>1
  <2> QED BY <1>1, <1>4, <2>1, <2>2, ReturnStep
<1>6. CASE At(c, "start") /\ Has(timelines, user)
  <2>1. InvokeWith(c, "poststorage", "ro_read_posts", q, "gotPosts", My(c))
    BY <1>6 DEF ReadTimeline, At, Invoke, InvokeWith, GetState
  <2>2. My(c) = <<>>
    <3>1. My(c) \in LocalsAt(c, e, "start") BY <1>6, Serves
    <3> QED BY <3>1 DEF LocalsAt, Readers, Composers
  <2>3. My(c) \in LocalsAt(c, e, "gotPosts") BY <2>2 DEF LocalsAt, Readers, Composers
  <2>4. q \in RequestFor(c, "ro_read_posts")
    <3>1. RequestOf["ro_read_posts"] = ReadPostsRequest BY DEF RequestOf
    <3>2. timelines[user] \in Seq(PostIds) BY <1>6 DEF StateOf, Has
    <3> QED BY <3>1, <3>2 DEF ReadPostsRequest, RequestFor, Writers
  <2>5. Seeks(f, "ro_read_posts", q, My(c))
    <3>1. Frame("ro_read_posts", q).ep = "ro_read_posts" BY DEF Frame
    <3> HIDE DEF f, q
    <3>2. SameUser(Frame("ro_read_posts", q), f) BY <3>1 DEF SameUser, Writers
    <3> QED BY <3>2 DEF Seeks, Writers
  <2>6. "poststorage" \in DOMAIN Endpoints BY DEF Endpoints
  <2> HIDE DEF q
  <2> QED BY <1>1, <1>2, <2>1, <2>3, <2>4, <2>5, <2>6, CallStep
<1>7. CASE At(c, "gotPosts")
  <2>1. Return(c, [posts |-> Res(c).posts]) BY <1>7 DEF ReadTimeline, At
  <2>2. Res(c) \in ReplyTo(c, "ro_read_posts") BY <1>2, <1>7, Serves
  <2>3. Res(c) \in [posts : Seq(Post)] BY <1>3, <2>2 DEF ReplyTo
  <2>4. [posts |-> Res(c).posts] \in [posts : Seq(Post)] BY <2>3
  <2> QED BY <1>1, <1>4, <2>1, <2>4, ReturnStep
<1> QED BY <1>5, <1>6, <1>7 DEF ReadTimeline

LEMMA ReadersStep ==
  ASSUME CallsOK, StatesOK, NEW c \in Clients, readHomeTimeline(c) \/ readUserTimeline(c)
  PROVE  Step(c) /\ UNCHANGED state
<1>1. StateOf(userTimelines, Users, Seq(PostIds)) /\ StateOf(homeTimelines, Users, Seq(PostIds))
  BY DEF StatesOK
<1>2. "ro_read_home_timeline" \in Readers /\ "ro_read_user_timeline" \in Readers BY DEF Readers
<1>3. CASE readHomeTimeline(c)
  <2>1. Serving(c, "ro_read_home_timeline") /\ ReadTimeline(c, homeTimelines, Req(c).user)
    BY <1>3 DEF readHomeTimeline, ReadHomeTimeline
  <2> QED BY <1>1, <1>2, <2>1, ReadTimelineStep
<1>4. CASE readUserTimeline(c)
  <2>1. Serving(c, "ro_read_user_timeline") /\ ReadTimeline(c, userTimelines, Req(c).user)
    BY <1>4 DEF readUserTimeline, ReadUserTimeline
  <2> QED BY <1>1, <1>2, <2>1, ReadTimelineStep
<1> QED BY <1>3, <1>4

\* What a write leaves of a list.
LEMMA DroppedOne ==
  ASSUME NEW S, NEW list \in Seq(S), NEW bound \in Nat \ {0}
  PROVE  /\ DropOldest(list, bound) \in Seq(S)
         /\ \/ Len(list) < bound /\ DropOldest(list, bound) = list
            \/ /\ Len(list) >= bound /\ Len(DropOldest(list, bound)) = Len(list) - 1
               /\ \A i \in 1 .. Len(list) - 1 : DropOldest(list, bound)[i] = list[i + 1]
<1>1. Len(list) \in Nat BY LenProperties
<1>2. CASE Len(list) >= bound
  <2>1. list # <<>> BY <1>2, EmptySeq
  <2>2. /\ Tail(list) \in Seq(S) /\ Len(Tail(list)) = Len(list) - 1
        /\ \A i \in 1 .. Len(list) - 1 : Tail(list)[i] = list[i + 1]
    BY <2>1, StackParts
  <2>3. DropOldest(list, bound) = Tail(list) BY <1>2 DEF DropOldest
  <2> QED BY <1>2, <2>2, <2>3
<1>3. CASE ~ (Len(list) >= bound)
  <2>1. Len(list) < bound BY <1>1, <1>3
  <2> QED BY <1>3, <2>1 DEF DropOldest
<1> QED BY <1>2, <1>3

LEMMA WrittenTyped ==
  ASSUME NEW list \in Seq(PostIds), NEW ids \in Seq(PostIds)
  PROVE  Written(list, ids) \in Seq(PostIds)
<1>1. DropOldest(list, MaxKept) \in Seq(PostIds) BY SocialAssumption, DroppedOne
<1> QED BY <1>1, ConcatProperties DEF Written

LEMMA AppendsTyped ==
  ASSUME StatesOK, NEW c, NEW kind \in Kinds, NEW u \in Users, NEW ids \in Seq(PostIds),
         Appends(c, kind, u, ids)
  PROVE  /\ log' \in [Kinds -> [Users -> Seq(PostIds)]]
         /\ log'[kind][u] = log[kind][u] \o ids
         /\ \A k \in Kinds, w \in Users : <<k, w>> # <<kind, u>> => log'[k][w] = log[k][w]
         /\ raced' = raced \cup Races(c, kind, u)
<1>1. log \in [Kinds -> [Users -> Seq(PostIds)]] BY DEF StatesOK
<1>2. /\ log' = [log EXCEPT ![kind][u] = @ \o ids] /\ raced' = raced \cup Races(c, kind, u)
  BY DEF Appends
<1>3. log[kind][u] \o ids \in Seq(PostIds) BY <1>1, ConcatProperties
<1> QED BY <1>1, <1>2, <1>3

\* A timeline is written.
LEMMA LineTyped ==
  ASSUME NEW timelines, NEW new, StateOf(timelines, Users, Seq(PostIds)), NEW u \in Users,
         NEW list \in Seq(PostIds), new = SetState(timelines, u, list)
  PROVE  /\ StateOf(new, Users, Seq(PostIds)) /\ Timeline(new, u) = list
         /\ \A w : w # u => Timeline(new, w) = Timeline(timelines, w)
<1>1. StateOf(new, Users, Seq(PostIds)) BY StoredType
<1> QED BY <1>1 DEF SetState, Timeline, Has, GetState

LEMMA WriteUserTimelineStep ==
  ASSUME CallsOK, StatesOK, NEW c \in Clients, writeUserTimeline(c)
  PROVE  Step(c) /\ StatesOK' /\ Changed(c)
<1> DEFINE f == call[c][1]
           ids == Req(c).posts
<1>0. PICK u : u = Req(c).user OBVIOUS
<1>1. Serving(c, "write_user_timeline") /\ WriteUserTimeline(c, u, ids)
  BY <1>0 DEF writeUserTimeline
<1>2. /\ f.ep = "write_user_timeline" /\ f.req.user = u /\ f.req.posts = ids /\ f.my = My(c)
      /\ u \in Users /\ ids \in Seq(PostIds)
  <2>1. RequestOf["write_user_timeline"] = WriteUserTimelineRequest BY DEF RequestOf
  <2>2. Req(c) \in WriteUserTimelineRequest BY <1>1, <2>1, Serves
  <2> QED BY <1>0, <1>1, <2>2, Serves DEF WriteUserTimelineRequest
<1>3. "write_user_timeline" \notin Stores BY DEF Stores
<1>4. ASSUME NEW p, At(c, p) PROVE f.at = p BY <1>1, <1>4, Serves
<1> HIDE DEF f, ids
<1>5. CASE At(c, "start")
  <2>1. /\ Goto(c, "loaded", Timeline(userTimelines, u)) /\ f.at = "start" /\ UNCHANGED state
    BY <1>1, <1>4, <1>5 DEF WriteUserTimeline, At, state
  <2>2. Timeline(userTimelines, u) = Line("user", u) /\ Line("user", u) \in Seq(PostIds) BY Reads
  <2>3. Line("user", u) \in LocalsAt(c, "write_user_timeline", "loaded")
    BY <2>2 DEF LocalsAt, Composers
  <2>4. GoesTo(f, "loaded", Line("user", u)) BY <1>2, <2>1 DEF GoesTo, Writers
  <2>5. Step(c) BY <1>1, <2>1, <2>2, <2>3, <2>4, PauseList, GotoStep DEF f
  <2>6. Calm(call[c][1]) BY <1>2, <1>3, <2>1 DEF Calm, f
  <2> QED BY <2>1, <2>5, <2>6, StatesStay DEF Changed
<1>6. CASE At(c, "loaded")
  <2> DEFINE new == Written(My(c), ids)
  <2>1. /\ userTimelines' = SetState(userTimelines, u, new) /\ f.at = "loaded"
        /\ Appends(c, "user", u, ids) /\ Return(c, OK) /\ UNCHANGED <<graph, posts, homeTimelines>>
    BY <1>1, <1>4, <1>6 DEF WriteUserTimeline, At
  <2>2. My(c) \in Seq(PostIds) BY <1>1, <1>6, Serves DEF LocalsAt, Composers
  <2>3. new \in Seq(PostIds) BY <1>2, <2>2, WrittenTyped
  <2> HIDE DEF new
  <2>4. StateOf(userTimelines, Users, Seq(PostIds)) BY DEF StatesOK
  <2>5. /\ StateOf(userTimelines', Users, Seq(PostIds)) /\ Timeline(userTimelines', u) = new
        /\ \A w : w # u => Timeline(userTimelines', w) = Timeline(userTimelines, w)
    BY <1>2, <2>1, <2>3, <2>4, LineTyped
  <2>6. "user" \in Kinds BY DEF Kinds
  <2>7. log' \in [Kinds -> [Users -> Seq(PostIds)]] BY <1>2, <2>1, <2>6, AppendsTyped
  <2>8. StatesOK' BY <2>1, <2>5, <2>7 DEF StatesOK, StateOf
  <2>9. Step(c)
    <3>1. Gives(f, OK) BY <1>2, <2>1 DEF Gives, Composers
    <3>2. OK \in ReplyTo(c, "write_user_timeline") BY OKReply DEF Writers
    <3> QED BY <1>1, <2>1, <3>1, <3>2, ReturnStep DEF f
  <2>10. Line("user", u)' = new BY <2>5 DEF Line, Timeline, Has, GetState
  <2>11. ASSUME NEW k \in Kinds, NEW w \in Users, <<k, w>> # <<"user", u>>
         PROVE  Line(k, w)' = Line(k, w)
    <3>1. CASE k = "user" BY <2>5, <2>11, <3>1 DEF Line, Timeline, Has, GetState
    <3>2. CASE k # "user" BY <2>1, <3>2 DEF Line, Timeline, Has, GetState
    <3> QED BY <3>1, <3>2
  <2>12. Copy(f, "user") = My(c) BY <1>2 DEF Copy
  <2>13. Lined(c, "user", u) BY <1>2, <2>1, <2>10, <2>11, <2>12 DEF Lined, f, new
  <2> QED BY <1>2, <2>6, <2>8, <2>9, <2>13 DEF Changed
<1> QED BY <1>1, <1>5, <1>6 DEF WriteUserTimeline

LEMMA WriteHomeTimelineStep ==
  ASSUME CallsOK, StatesOK, NEW c \in Clients, writeHomeTimeline(c)
  PROVE  Step(c) /\ StatesOK' /\ Changed(c)
<1> DEFINE f == call[c][1]
           a == Req(c).user
           ids == Req(c).posts
           left == IF At(c, "gotFollowers") THEN Res(c).followers ELSE My(c).followers
<1>9. PICK u : u = Head(left) OBVIOUS
<1>1. Serving(c, "write_home_timeline") /\ WriteHomeTimeline(c, a, ids) BY DEF writeHomeTimeline
<1>2. /\ f.ep = "write_home_timeline" /\ f.req.user = a /\ f.req.posts = ids /\ f.my = My(c)
      /\ f.res = Res(c) /\ a \in Users /\ ids \in Seq(PostIds)
  <2>1. RequestOf["write_home_timeline"] = WriteHomeTimelineRequest BY DEF RequestOf
  <2>2. Req(c) \in WriteHomeTimelineRequest BY <1>1, <2>1, Serves
  <2> QED BY <1>1, <2>2, Serves DEF WriteHomeTimelineRequest
<1>3. "write_home_timeline" \notin Stores BY DEF Stores
<1>4. ASSUME NEW p, At(c, p) PROVE f.at = p /\ My(c) \in LocalsAt(c, "write_home_timeline", p)
  BY <1>1, <1>4, Serves
<1>0. /\ UNCHANGED <<graph, posts, userTimelines>>
      /\ \/ /\ At(c, "start")
            /\ Invoke(c, "socialgraph", "ro_get_followers", [user |-> a], "gotFollowers")
            /\ UNCHANGED <<homeTimelines, log, raced>>
         \/ /\ At(c, "gotFollowers") \/ At(c, "next")
            /\ IF left = <<>>
               THEN Return(c, OK)
               ELSE Goto(c, "loaded", [followers |-> left, list |-> Timeline(homeTimelines, u)])
            /\ UNCHANGED <<homeTimelines, log, raced>>
         \/ /\ At(c, "loaded")
            /\ homeTimelines' = SetState(homeTimelines, u, Written(My(c).list, ids))
            /\ Appends(c, "home", u, ids)
            /\ Goto(c, "next", [followers |-> Tail(left)])
  BY <1>1, <1>9 DEF WriteHomeTimeline
<1> HIDE DEF f, a, ids
<1>5. ASSUME UNCHANGED <<homeTimelines, log, raced>>, f.at # "loaded" PROVE StatesOK' /\ Changed(c)
  <2>1. UNCHANGED state BY <1>0, <1>5 DEF state
  <2>2. Calm(call[c][1]) BY <1>2, <1>3, <1>5 DEF Calm, f
  <2> QED BY <2>1, <2>2, StatesStay DEF Changed
<1>6. CASE At(c, "start")
  <2> DEFINE q == [user |-> a]
  <2>1. /\ InvokeWith(c, "socialgraph", "ro_get_followers", q, "gotFollowers", My(c)) /\ f.at = "start"
        /\ UNCHANGED <<homeTimelines, log, raced>>
    BY <1>0, <1>4, <1>6 DEF At, Invoke, InvokeWith
  <2>2. My(c) \in LocalsAt(c, "write_home_timeline", "start") BY <1>4, <1>6
  <2>3. My(c) \in LocalsAt(c, "write_home_timeline", "gotFollowers")
    BY <2>2 DEF LocalsAt, Composers
  <2>4. q \in RequestFor(c, "ro_get_followers")
    <3>1. RequestOf["ro_get_followers"] = GetFollowersRequest BY DEF RequestOf
    <3> QED BY <1>2, <3>1 DEF GetFollowersRequest, RequestFor, Writers
  <2>5. Seeks(f, "ro_get_followers", q, My(c))
    <3>1. Frame("ro_get_followers", q).ep = "ro_get_followers" /\ Frame("ro_get_followers", q).req.user = a
      BY DEF Frame
    <3>2. SameUser(Frame("ro_get_followers", q), f) BY <1>2, <3>1 DEF SameUser, Writers
    <3> QED BY <3>2 DEF Seeks, Writers
  <2>6. "socialgraph" \in DOMAIN Endpoints BY DEF Endpoints
  <2> HIDE DEF q
  <2>7. Step(c) BY <1>1, <2>1, <2>3, <2>4, <2>5, <2>6, SiteList, CallStep DEF f
  <2> QED BY <1>5, <2>1, <2>7
<1>7. CASE At(c, "gotFollowers") \/ At(c, "next")
  <2>1. f.at \in {"gotFollowers", "next"} /\ (At(c, "gotFollowers") <=> f.at = "gotFollowers")
        /\ (At(c, "next") <=> f.at = "next")
    BY <1>1, <1>4, <1>7, Serves DEF At, f
  <2>2. left = Left(f) BY <1>2, <2>1 DEF Left
  <2>3. left \in Seq(Users)
    <3>1. CASE f.at = "gotFollowers"
      <4>1. Res(c) \in ReplyTo(c, "ro_get_followers") BY <1>1, <2>1, <3>1, Serves, SiteList
      <4>2. ReplyOf["ro_get_followers"] = GetFollowersResponse BY DEF ReplyOf
      <4>3. Res(c).followers \in Seq(Users) BY <4>1, <4>2 DEF ReplyTo, GetFollowersResponse
      <4> QED BY <2>1, <3>1, <4>3
    <3>2. CASE f.at = "next"
      <4>1. My(c) \in LocalsAt(c, "write_home_timeline", "next") BY <1>4, <2>1, <3>2
      <4>2. My(c) \in [followers : Seq(Users)] BY <4>1 DEF LocalsAt, Composers
      <4> QED BY <2>1, <3>2, <4>2
    <3> QED BY <2>1, <3>1, <3>2
  <2>4. /\ IF left = <<>> THEN Return(c, OK)
           ELSE Goto(c, "loaded", [followers |-> left, list |-> Timeline(homeTimelines, u)])
        /\ UNCHANGED <<homeTimelines, log, raced>>
    BY <1>0, <1>7 DEF At
  <2> HIDE DEF left
  <2>5. CASE left = <<>>
    <3>1. Gives(f, OK) BY <1>2, <2>1, <2>2, <2>5 DEF Gives, Composers
    <3>2. OK \in ReplyTo(c, "write_home_timeline") BY OKReply DEF Writers
    <3>3. Step(c) BY <1>1, <2>4, <2>5, <3>1, <3>2, ReturnStep DEF f
    <3> QED BY <1>5, <2>1, <2>4, <3>3
  <2>6. CASE left # <<>>
    <3> DEFINE my == [followers |-> left, list |-> Timeline(homeTimelines, u)]
    <3>1. Timeline(homeTimelines, u) = Line("home", u) /\ Line("home", u) \in Seq(PostIds) BY Reads
    <3>2. my \in LocalsAt(c, "write_home_timeline", "loaded")
      BY <2>3, <2>6, <3>1 DEF LocalsAt, Composers
    <3>3. my.followers = left /\ my.list = Line("home", Head(left)) BY <1>9, <3>1
    <3>4. Goto(c, "loaded", my) BY <2>4, <2>6
    <3> HIDE DEF my
    <3>5. GoesTo(f, "loaded", my) BY <1>2, <2>1, <2>2, <2>6, <3>3 DEF GoesTo, Writers
    <3>6. Step(c) BY <1>1, <3>2, <3>4, <3>5, PauseList, GotoStep DEF f
    <3> QED BY <1>5, <2>1, <2>4, <3>6
  <2> QED BY <2>5, <2>6
<1>8. CASE At(c, "loaded")
  <2> DEFINE list == My(c).list
             new == Written(list, ids)
             my == [followers |-> Tail(left)]
  <2>1. /\ f.at = "loaded" /\ left = My(c).followers
        /\ My(c) \in [followers : Seq(Users) \ {<<>>}, list : Seq(PostIds)]
    <3>1. f.at = "loaded" /\ My(c) \in LocalsAt(c, "write_home_timeline", "loaded") BY <1>4, <1>8
    <3>2. ~At(c, "gotFollowers") BY <1>8 DEF At
    <3> QED BY <3>1, <3>2 DEF LocalsAt, Composers
  <2>2. /\ homeTimelines' = SetState(homeTimelines, u, new) /\ Appends(c, "home", u, ids)
        /\ Goto(c, "next", my) /\ UNCHANGED <<graph, posts, userTimelines>>
    BY <1>0, <1>8 DEF At
  <2>3. /\ list \in Seq(PostIds) /\ left \in Seq(Users) /\ left # <<>> /\ u \in Users
        /\ Tail(left) \in Seq(Users)
    <3>1. left \in Seq(Users) /\ left # <<>> /\ list \in Seq(PostIds) BY <2>1
    <3> HIDE DEF left, list
    <3> QED BY <1>9, <3>1, StackParts
  <2>4. new \in Seq(PostIds) BY <1>2, <2>3, WrittenTyped
  <2>5. Copy(f, "home") = list /\ u = Head(f.my.followers) /\ Tail(left) = Tail(f.my.followers)
    BY <1>2, <1>9, <2>1 DEF Copy
  <2>6. my \in LocalsAt(c, "write_home_timeline", "next") BY <2>3 DEF LocalsAt, Composers
  <2>7. my.followers = Tail(f.my.followers) BY <2>5
  <2> HIDE DEF my, left, new, list
  <2>8. StateOf(homeTimelines, Users, Seq(PostIds)) BY DEF StatesOK
  <2>9. /\ StateOf(homeTimelines', Users, Seq(PostIds)) /\ Timeline(homeTimelines', u) = new
        /\ \A w : w # u => Timeline(homeTimelines', w) = Timeline(homeTimelines, w)
    BY <2>2, <2>3, <2>4, <2>8, LineTyped
  <2>10. "home" \in Kinds BY DEF Kinds
  <2>11. log' \in [Kinds -> [Users -> Seq(PostIds)]] BY <1>2, <2>2, <2>3, <2>10, AppendsTyped
  <2>12. StatesOK' BY <2>2, <2>9, <2>11 DEF StatesOK, StateOf
  <2>13. Step(c)
    <3>1. GoesTo(f, "next", my) BY <1>2, <2>1, <2>7 DEF GoesTo, Writers
    <3> QED BY <1>1, <2>2, <2>6, <3>1, PauseList, GotoStep DEF f
  <2>14. Line("home", u)' = new BY <2>9 DEF Line, Timeline, Has, GetState
  <2>15. ASSUME NEW k \in Kinds, NEW w \in Users, <<k, w>> # <<"home", u>>
         PROVE  Line(k, w)' = Line(k, w)
    <3>1. CASE k = "user" BY <2>2, <3>1 DEF Line, Timeline, Has, GetState
    <3>2. CASE k # "user"
      <4>1. k = "home" BY <3>2 DEF Kinds
      <4> QED BY <2>9, <2>15, <4>1 DEF Line, Timeline, Has, GetState
    <3> QED BY <3>1, <3>2
  <2>16. Lined(c, "home", u) BY <1>2, <2>1, <2>2, <2>5, <2>14, <2>15 DEF Lined, f, new
  <2> QED BY <2>3, <2>10, <2>12, <2>13, <2>16 DEF Changed
<1> QED BY <1>0, <1>6, <1>7, <1>8

-----------------------------------------------------------------------------
(* The handlers that compose. *)

LEMMA OneBatch == ASSUME NEW c \in Clients PROVE <<<<c, 1>>>> \in Batch(c)
<1> DEFINE ids == <<<<c, 1>>>>
<1>1. <<c, 1>> \in PostIds BY DEF PostIds
<1>2. ids \in Seq(PostIds) /\ Len(ids) = 1 /\ ids[1] = <<c, 1>> /\ DOMAIN ids = 1 .. 1 BY <1>1
<1> HIDE DEF ids
<1>3. ids # <<>> BY <1>2, EmptySeq
<1>4. \A i \in DOMAIN ids : ids[i] = <<c, i>>
  <2>1. \A i \in 1 .. 1 : i = 1 OBVIOUS
  <2> QED BY <1>2, <2>1
<1>5. ids \in Batch(c) BY <1>2, <1>3, <1>4 DEF Batch
<1> QED BY <1>5 DEF ids

\* The first call, to the post storage.
LEMMA StoresStep ==
  ASSUME CallsOK, NEW c \in Clients, NEW e \in Composers, Serving(c, e), At(c, "start"),
         NEW place, NEW callee \in Stores, <<e, place, callee>> \in Sites,
         NEW q \in RequestOf[callee], Invoke(c, "poststorage", callee, q, place)
  PROVE  Step(c)
<1> DEFINE f == call[c][1]
<1>1. InvokeWith(c, "poststorage", callee, q, place, My(c)) BY DEF Invoke, InvokeWith
<1>2. My(c) = <<>>
  <2>1. My(c) \in LocalsAt(c, e, "start") BY Serves
  <2> QED BY <2>1 DEF LocalsAt, Composers
<1>3. place \in {"stored", "storedAll"} BY WaitsFor DEF Stores
<1>4. My(c) \in LocalsAt(c, e, place) BY <1>2, <1>3 DEF LocalsAt, Composers
<1>5. callee \notin Writers /\ callee # "ro_get_followers" BY DEF Stores, Writers
<1>6. q \in RequestFor(c, callee) BY <1>5 DEF RequestFor
<1>7. Seeks(f, callee, q, My(c))
  <2>1. Frame(callee, q).ep = callee BY DEF Frame
  <2> HIDE DEF f
  <2> QED BY <1>5, <2>1 DEF Seeks, SameUser, Writers
<1>8. "poststorage" \in DOMAIN Endpoints BY DEF Endpoints
<1> QED BY <1>1, <1>4, <1>6, <1>7, <1>8, CallStep

\* The second one, to the user timeline.
LEMMA WritesUserStep ==
  ASSUME CallsOK, NEW c \in Clients, NEW e \in Composers, Serving(c, e), NEW u \in Users,
         u = Req(c).creator, NEW ids \in Batch(c),
         \/ e = "compose_post" /\ At(c, "stored") /\ ids = <<Res(c).post>>
         \/ e = "compose_post_multi" /\ At(c, "storedAll") /\ ids = Res(c).posts,
         InvokeWith(c, "usertimeline", "write_user_timeline", [user |-> u, posts |-> ids],
                    "wroteUser", ids)
  PROVE  Step(c)
<1> DEFINE f == call[c][1]
           q == [user |-> u, posts |-> ids]
<1>1. f.ep = e /\ f.req = Req(c) /\ f.res = Res(c) BY Serves
<1>2. /\ e = "compose_post" => f.at = "stored" /\ ids = <<f.res.post>>
      /\ e = "compose_post_multi" => f.at = "storedAll" /\ ids = f.res.posts
  BY <1>1, Serves
<1>3. <<e, "wroteUser", "write_user_timeline">> \in Sites BY SiteList DEF Composers
<1>4. ids \in LocalsAt(c, e, "wroteUser") BY DEF LocalsAt, Composers
<1>5. q \in RequestFor(c, "write_user_timeline")
  <2>1. RequestOf["write_user_timeline"] = WriteUserTimelineRequest BY DEF RequestOf
  <2>2. ids \in Seq(PostIds) BY DEF Batch
  <2> QED BY <2>1, <2>2 DEF RequestFor, WriteUserTimelineRequest
<1>6. /\ Frame("write_user_timeline", q).ep = "write_user_timeline"
      /\ Frame("write_user_timeline", q).req = q /\ q.user = u /\ q.posts = ids
  BY DEF Frame
<1>7. "usertimeline" \in DOMAIN Endpoints BY DEF Endpoints
<1> HIDE DEF f, q
<1>8. SameUser(Frame("write_user_timeline", q), f) BY <1>1, <1>6 DEF SameUser
<1>9. Seeks(f, "write_user_timeline", q, ids) BY <1>1, <1>2, <1>6, <1>8 DEF Seeks, Composers
<1>10. InvokeWith(c, "usertimeline", "write_user_timeline", q, "wroteUser", ids) BY DEF q
<1> QED BY <1>3, <1>4, <1>5, <1>7, <1>9, <1>10, CallStep DEF f

\* The third one, to the home timeline, and the answer.
LEMMA PublishesStep ==
  ASSUME CallsOK, NEW c \in Clients, NEW e \in Composers, Serving(c, e), NEW u \in Users,
         u = Req(c).creator, Publishes(c, u)
  PROVE  Step(c)
<1> DEFINE f == call[c][1]
<1>1. f.ep = e /\ f.req = Req(c) /\ f.my = My(c) BY Serves
<1>2. CASE At(c, "wroteUser")
  <2> DEFINE q == [user |-> u, posts |-> My(c)]
  <2>1. InvokeWith(c, "hometimeline", "write_home_timeline", q, "wroteHome", My(c))
    BY <1>2 DEF Publishes, At, Invoke, InvokeWith
  <2>2. f.at = "wroteUser" /\ My(c) \in LocalsAt(c, e, "wroteUser") BY <1>2, Serves
  <2>3. My(c) \in Batch(c) BY <2>2 DEF LocalsAt, Composers
  <2>4. My(c) \in LocalsAt(c, e, "wroteHome") BY <2>3 DEF LocalsAt, Composers
  <2>5. q \in RequestFor(c, "write_home_timeline")
    <3>1. RequestOf["write_home_timeline"] = WriteHomeTimelineRequest BY DEF RequestOf
    <3>2. My(c) \in Seq(PostIds) BY <2>3 DEF Batch
    <3> QED BY <2>3, <3>1, <3>2 DEF RequestFor, WriteHomeTimelineRequest
  <2>6. /\ Frame("write_home_timeline", q).ep = "write_home_timeline"
        /\ Frame("write_home_timeline", q).req = q /\ q.user = u /\ q.posts = My(c)
    BY DEF Frame
  <2>7. "hometimeline" \in DOMAIN Endpoints BY DEF Endpoints
  <2>8. <<e, "wroteHome", "write_home_timeline">> \in Sites BY SiteList DEF Composers
  <2> HIDE DEF f, q
  <2>9. SameUser(Frame("write_home_timeline", q), f) BY <1>1, <2>6 DEF SameUser
  <2>10. Seeks(f, "write_home_timeline", q, My(c)) BY <1>1, <2>2, <2>6, <2>9 DEF Seeks
  <2> QED BY <2>1, <2>4, <2>5, <2>7, <2>8, <2>10, CallStep DEF f
<1>3. CASE At(c, "wroteHome")
  <2>1. Return(c, OK) BY <1>3 DEF Publishes, At
  <2>2. f.at = "wroteHome" BY <1>3, Serves
  <2> HIDE DEF f
  <2>3. Gives(f, OK) BY <1>1, <2>2 DEF Gives, Composers
  <2> QED BY <2>1, <2>3, OKReply, ReturnStep DEF f
<1> QED BY <1>2, <1>3 DEF Publishes

LEMMA ComposePostStep ==
  ASSUME CallsOK, NEW c \in Clients, ComposePostHandler(c)
  PROVE  Step(c) /\ UNCHANGED state
<1> DEFINE u == Req(c).creator
<1>1. Serving(c, "compose_post") /\ UNCHANGED state /\ ComposePost(c, u)
  BY DEF ComposePostHandler, ComposePost
<1>2. u \in Users
  <2>1. RequestOf["compose_post"] = ComposePostRequest BY DEF RequestOf
  <2>2. Req(c) \in ComposePostRequest BY <1>1, <2>1, Serves
  <2> QED BY <2>2 DEF ComposePostRequest
<1>3. "compose_post" \in Composers BY DEF Composers
<1>4. CASE At(c, "start")
  <2>1. Invoke(c, "poststorage", "store_post", [creator |-> u], "stored")
    BY <1>1, <1>4 DEF ComposePost, Publishes, At
  <2>2. [creator |-> u] \in RequestOf["store_post"]
    <3>1. RequestOf["store_post"] = StorePostRequest BY DEF RequestOf
    <3> QED BY <1>2, <3>1 DEF StorePostRequest
  <2>3. "store_post" \in Stores BY DEF Stores
  <2> QED BY <1>1, <1>3, <1>4, <2>1, <2>2, <2>3, SiteList, StoresStep
<1>5. CASE At(c, "stored")
  <2> DEFINE ids == <<Res(c).post>>
  <2>1. InvokeWith(c, "usertimeline", "write_user_timeline", [user |-> u, posts |-> ids],
                   "wroteUser", ids)
    BY <1>1, <1>5 DEF ComposePost, Publishes, At
  <2>2. Res(c) \in ReplyTo(c, "store_post") BY <1>1, <1>5, Serves, SiteList
  <2>3. Res(c).post = <<c, 1>> BY <2>2 DEF ReplyTo
  <2>4. ids \in Batch(c) BY <2>3, OneBatch
  <2>5. "compose_post" = "compose_post" /\ ids = <<Res(c).post>> OBVIOUS
  <2> HIDE DEF ids, u
  <2>6. u = Req(c).creator BY DEF u
  <2> QED BY <1>1, <1>2, <1>3, <1>5, <2>1, <2>4, <2>5, <2>6, WritesUserStep
<1>6. CASE Publishes(c, u)
  <2>1. u = Req(c).creator OBVIOUS
  <2> HIDE DEF u
  <2> QED BY <1>1, <1>2, <1>3, <1>6, <2>1, PublishesStep
<1> QED BY <1>1, <1>4, <1>5, <1>6 DEF ComposePost

LEMMA ComposeMultiStep ==
  ASSUME CallsOK, NEW c \in Clients, ComposePostMulti(c)
  PROVE  Step(c) /\ UNCHANGED state
<1> DEFINE u == Req(c).creator
           n == Req(c).number
<1>1. Serving(c, "compose_post_multi") /\ UNCHANGED state /\ ComposeMulti(c, n, u)
  BY DEF ComposePostMulti, ComposeMulti
<1>2. u \in Users /\ n \in Numbers
  <2>1. RequestOf["compose_post_multi"] = ComposePostMultiRequest BY DEF RequestOf
  <2>2. Req(c) \in ComposePostMultiRequest BY <1>1, <2>1, Serves
  <2> QED BY <2>2 DEF ComposePostMultiRequest
<1>3. "compose_post_multi" \in Composers BY DEF Composers
<1>4. CASE At(c, "start")
  <2> DEFINE q == [creator |-> u, number |-> n]
  <2>1. Invoke(c, "poststorage", "store_post_multi", q, "storedAll")
    BY <1>1, <1>4 DEF ComposeMulti, Publishes, At
  <2>2. q \in RequestOf["store_post_multi"]
    <3>1. RequestOf["store_post_multi"] = StorePostMultiRequest BY DEF RequestOf
    <3> QED BY <1>2, <3>1 DEF StorePostMultiRequest
  <2>3. "store_post_multi" \in Stores BY DEF Stores
  <2> HIDE DEF q
  <2> QED BY <1>1, <1>3, <1>4, <2>1, <2>2, <2>3, SiteList, StoresStep
<1>5. CASE At(c, "storedAll")
  <2> DEFINE ids == Res(c).posts
  <2>1. InvokeWith(c, "usertimeline", "write_user_timeline", [user |-> u, posts |-> ids],
                   "wroteUser", ids)
    BY <1>1, <1>5 DEF ComposeMulti, Publishes, At
  <2>2. Res(c) \in ReplyTo(c, "store_post_multi") BY <1>1, <1>5, Serves, SiteList
  <2>4. ids \in Batch(c) BY <2>2 DEF ReplyTo
  <2>5. "compose_post_multi" = "compose_post_multi" /\ ids = Res(c).posts OBVIOUS
  <2> HIDE DEF ids, u
  <2>6. u = Req(c).creator BY DEF u
  <2> QED BY <1>1, <1>2, <1>3, <1>5, <2>1, <2>4, <2>5, <2>6, WritesUserStep
<1>6. CASE Publishes(c, u)
  <2>1. u = Req(c).creator OBVIOUS
  <2> HIDE DEF u
  <2> QED BY <1>1, <1>2, <1>3, <1>6, <2>1, PublishesStep
<1> QED BY <1>1, <1>4, <1>5, <1>6 DEF ComposeMulti

-----------------------------------------------------------------------------
(* Clients, services that begin to listen, and the initial values. *)

\* A request of a client, to one of the endpoints it uses.
Asked(c) == \E e \in Entries : \E q \in RequestFor(c, e) : Asks(c, e, q)

LEMMA AsksStep ==
  ASSUME CallsOK, NEW c \in Clients, NEW e \in Entries, NEW q \in RequestFor(c, e),
         Asks(c, e, q)
  PROVE  /\ CallsOK' /\ UNCHANGED answer /\ answer[c].ep = "none" /\ call[c] = <<>>
         /\ call'[c] # <<>> /\ Len(call'[c]) = 1 /\ call'[c][1] = Frame(e, q)
         /\ \A d \in Clients : d # c => call'[d] = call[d]
<1> DEFINE f == Frame(e, q)
<1>1. /\ call[c] = <<>> /\ answer[c].ep = "none" /\ UNCHANGED <<up, answer>>
      /\ call' = [call EXCEPT ![c] = <<f>>]
  BY DEF Asks, Idle
<1>2. f \in Frames(c) /\ f \in Heads(c) /\ f.ep = e
  <2>1. e \in Eps BY Names
  <2> QED BY <2>1, FrameStarts
<1>3. f \in Bottoms(c) BY <1>2 DEF Bottoms
<1> HIDE DEF f
<1>4. <<f>> \in Calls(c) /\ <<f>> # <<>> /\ <<f>>[1] = f /\ Len(<<f>>) = 1
  <2>1. <<f>> \in Seq(Frames(c)) /\ Len(<<f>>) = 1 /\ <<f>>[1] = f BY <1>2
  <2> QED BY <1>2, <1>3, <2>1 DEF Calls, Stacks
<1>5. call = [d \in Clients |-> call[d]] /\ \A d \in Clients : call[d] \in Calls(d) BY DEF CallsOK
<1>6. /\ call' = [d \in Clients |-> call'[d]] /\ call'[c] = <<f>>
      /\ \A d \in Clients : d # c => call'[d] = call[d]
  BY <1>1, <1>5
<1>7. DOMAIN call' = Clients /\ \A d \in Clients : call'[d] \in Calls(d) BY <1>4, <1>5, <1>6
<1>8. CallsOK' BY <1>1, <1>6, <1>7 DEF CallsOK
<1> QED BY <1>1, <1>4, <1>6, <1>8 DEF f

LEMMA ClientAsks ==
  ASSUME StatesOK, NEW c \in Clients, Client(c) \/ Visitor(c)
  PROVE  Asked(c) /\ UNCHANGED state
<1>1. UNCHANGED state BY DEF Client, Visitor
<1>2. ASSUME NEW e \in Entries, NEW q \in RequestOf[e], AsksServed(c, e, q)
      PROVE  Asked(c)
  <2>1. e \notin Writers BY Names DEF Writers
  <2>2. q \in RequestFor(c, e) BY <2>1 DEF RequestFor
  <2> QED BY <1>2, <2>2 DEF Asked, AsksServed
<1>3. ASSUME NEW u \in Users, AsksServed(c, "compose_post", [creator |-> u]) PROVE Asked(c)
  <2>1. [creator |-> u] \in RequestOf["compose_post"]
    <3>1. RequestOf["compose_post"] = ComposePostRequest BY DEF RequestOf
    <3> QED BY <3>1 DEF ComposePostRequest
  <2> QED BY <1>2, <1>3, <2>1, Names
<1>4. ASSUME NEW u \in Users,
             NEW e \in {"ro_read_home_timeline", "ro_read_user_timeline", "insert_user",
                        "ro_get_followees"},
             AsksServed(c, e, [user |-> u])
      PROVE  Asked(c)
  <2>1. RequestOf[e] = [user : Users]
    <3>1. /\ RequestOf["ro_read_home_timeline"] = [user : Users]
          /\ RequestOf["ro_read_user_timeline"] = [user : Users]
          /\ RequestOf["insert_user"] = [user : Users]
          /\ RequestOf["ro_get_followees"] = [user : Users]
      BY DEF RequestOf, ReadHomeTimelineRequest, ReadUserTimelineRequest, InsertUserRequest,
             GetFolloweesRequest
    <3> QED BY <3>1
  <2>2. [user |-> u] \in RequestOf[e] BY <2>1
  <2> QED BY <1>2, <1>4, <2>2, Names
<1>5. ASSUME NEW q \in ComposePostMultiRequest, AsksServed(c, "compose_post_multi", q) PROVE Asked(c)
  <2>1. q \in RequestOf["compose_post_multi"] BY DEF RequestOf
  <2> QED BY <1>2, <1>5, <2>1, Names
<1>6. ASSUME NEW q \in FollowRequest, AsksServed(c, "follow", q) PROVE Asked(c)
  <2>1. q \in RequestOf["follow"] BY DEF RequestOf
  <2> QED BY <1>2, <1>6, <2>1, Names
<1>7. ASSUME NEW q \in FollowManyRequest, AsksServed(c, "follow_multi", q) PROVE Asked(c)
  <2>1. q \in RequestOf["follow_multi"] BY DEF RequestOf
  <2> QED BY <1>2, <1>7, <2>1, Names
<1>8. ASSUME NEW p \in DOMAIN posts, AsksServed(c, "ro_read_post", [post |-> p]) PROVE Asked(c)
  <2>1. [post |-> p] \in RequestOf["ro_read_post"]
    <3>1. RequestOf["ro_read_post"] = ReadPostRequest BY DEF RequestOf
    <3>2. p \in PostIds BY DEF StatesOK, StateOf
    <3> QED BY <3>1, <3>2 DEF ReadPostRequest
  <2> QED BY <1>2, <1>8, <2>1, Names
<1> QED BY <1>1, <1>3, <1>4, <1>5, <1>6, <1>7, <1>8 DEF Client, Visitor

LEMMA InitOK == Init => CallsOK /\ StatesOK
<1> SUFFICES ASSUME Init PROVE CallsOK /\ StatesOK OBVIOUS
<1>1. StatesOK
  <2>1. \A K, V : StateOf(<<>>, K, V) BY DEF StateOf
  <2>2. <<>> \in Seq(PostIds) BY EmptySeq
  <2>3. log \in [Kinds -> [Users -> Seq(PostIds)]] BY <2>2 DEF Init, Kinds
  <2>4. StateOf(Populated, Users, SGVertex) BY SocialAssumption
  <2> QED BY <2>1, <2>3, <2>4 DEF Init, StatesOK
<1> DEFINE a == [ep |-> "none", req |-> <<>>, ok |-> FALSE, res |-> <<>>]
<1>2. call = [c \in Clients |-> <<>>] /\ answer = [c \in Clients |-> a]
  BY DEF Init, InitServices
<1>3. \A c : <<>> \in Calls(c) BY EmptySeq DEF Calls, Stacks
<1>4. a \in Answers BY DEF Answers, Results
<1>5. a.ok = FALSE /\ a.ep = "none" OBVIOUS
<1> HIDE DEF a
<1>6. CallsOK BY <1>2, <1>3, <1>4, <1>5 DEF CallsOK
<1> QED BY <1>1, <1>6

\* What a step of a handler is.
Handled(c) == call[c] # <<>> /\ Step(c) /\ Changed(c)

LEMMA HandleStep ==
  ASSUME CallsOK, StatesOK, NEW c \in Clients, Handle(c)
  PROVE  Handled(c) /\ StatesOK'
<1>1. call[c] # <<>>
  BY DEF Handle, ComposePostHandler, ComposePostMulti, storePost, storePostMulti, readPost,
         readPosts, InsertUserHandler, GetFollowersHandler, GetFolloweesHandler, FollowHandler,
         FollowMultiHandler, readHomeTimeline, writeHomeTimeline, readUserTimeline,
         writeUserTimeline, Serving
<1>2. ASSUME NEW e \in Composers \cup Readers \cup {"ro_read_post", "ro_read_posts",
                                                     "ro_get_followers", "ro_get_followees"},
             Serving(c, e), Step(c), UNCHANGED state
      PROVE  Handled(c) /\ StatesOK'
  <2>1. call[c][1].ep = e BY <1>2, Serves
  <2>2. Calm(call[c][1]) BY <2>1 DEF Calm, Composers, Readers, Stores, Writers
  <2> QED BY <1>1, <1>2, <2>2, StatesStay DEF Handled, Changed
<1>3. CASE ComposePostHandler(c) \/ ComposePostMulti(c)
  <2>1. Step(c) /\ UNCHANGED state BY <1>3, ComposePostStep, ComposeMultiStep
  <2> QED BY <1>2, <1>3, <2>1 DEF ComposePostHandler, ComposePostMulti, Composers
<1>4. CASE readPost(c) \/ readPosts(c)
  <2>1. Step(c) /\ UNCHANGED state BY <1>4, ReadPostStep, ReadPostsStep
  <2> QED BY <1>2, <1>4, <2>1 DEF readPost, readPosts
<1>5. CASE GetFollowersHandler(c) \/ GetFolloweesHandler(c)
  <2>1. Step(c) /\ UNCHANGED state BY <1>5, GetFollowersStep, GetFolloweesStep
  <2> QED BY <1>2, <1>5, <2>1 DEF GetFollowersHandler, GetFolloweesHandler
<1>6. CASE readHomeTimeline(c) \/ readUserTimeline(c)
  <2>1. Step(c) /\ UNCHANGED state BY <1>6, ReadersStep
  <2> QED BY <1>2, <1>6, <2>1 DEF readHomeTimeline, readUserTimeline, Readers
<1>7. CASE storePost(c) \/ storePostMulti(c)
  BY <1>1, <1>7, StorePostStep, StorePostMultiStep DEF Handled
<1>8. CASE InsertUserHandler(c) \/ FollowHandler(c) \/ FollowMultiHandler(c)
  BY <1>1, <1>8, InsertUserStep, FollowStep, FollowMultiStep DEF Handled
<1>9. CASE writeHomeTimeline(c) \/ writeUserTimeline(c)
  BY <1>1, <1>9, WriteHomeTimelineStep, WriteUserTimelineStep DEF Handled
<1> QED BY <1>3, <1>4, <1>5, <1>6, <1>7, <1>8, <1>9 DEF Handle

LEMMA NextCases ==
  ASSUME CallsOK, StatesOK, [Next]_vars
  PROVE  /\ CallsOK' /\ StatesOK'
         /\ \/ UNCHANGED <<call, answer, state>>
            \/ \E c \in Clients : Asked(c) /\ UNCHANGED state
            \/ \E c \in Clients : Handled(c)
<1>1. ASSUME NEW s \in Late, Start(s)
      PROVE  CallsOK' /\ StatesOK' /\ UNCHANGED <<call, answer, state>>
  <2>1. UNCHANGED <<call, answer>> /\ UNCHANGED state BY <1>1 DEF Start, Listen
  <2> QED BY <2>1, StatesStay DEF CallsOK
<1>2. ASSUME NEW c \in Clients, Client(c) \/ Visitor(c)
      PROVE  CallsOK' /\ StatesOK' /\ Asked(c) /\ UNCHANGED state
  <2>1. Asked(c) /\ UNCHANGED state BY <1>2, ClientAsks
  <2>2. PICK e \in Entries : \E q \in RequestFor(c, e) : Asks(c, e, q) BY <2>1 DEF Asked
  <2>3. CallsOK' BY <2>2, AsksStep
  <2> QED BY <2>1, <2>3, StatesStay
<1>3. ASSUME NEW c \in Clients, Handle(c) PROVE CallsOK' /\ StatesOK' /\ Handled(c)
  <2>1. Handled(c) /\ StatesOK' BY <1>3, HandleStep
  <2>2. call[c] # <<>> /\ Step(c) BY <2>1 DEF Handled
  <2> QED BY <2>1, <2>2, StepOK
<1>4. ASSUME UNCHANGED vars PROVE CallsOK' /\ StatesOK' /\ UNCHANGED <<call, answer, state>>
  <2>1. UNCHANGED <<call, answer>> /\ UNCHANGED state BY <1>4 DEF vars, svars
  <2> QED BY <2>1, StatesStay DEF CallsOK
<1>5. Visitors \subseteq Clients BY SocialAssumption
<1> QED BY <1>1, <1>2, <1>3, <1>4, <1>5 DEF Next

LEMMA AlwaysOK == Spec => [](CallsOK /\ StatesOK)
<1>1. (CallsOK /\ StatesOK) /\ [Next]_vars => (CallsOK /\ StatesOK)' BY NextCases
<1> QED BY InitOK, <1>1, PTL DEF Spec

(* Every request and response has the fields its endpoint declares and     *)
(* every service holds well-formed values (the handlers of                 *)
(* src/app/internal/social, whatever their interleaving).                  *)
THEOREM Typed == Spec => []TypeOK
<1>1. CallsOK /\ StatesOK => TypeOK
  <2> SUFFICES ASSUME CallsOK, StatesOK PROVE TypeOK OBVIOUS
  <2>1. /\ StateOf(graph, Users, SGVertex) /\ StateOf(posts, PostIds, Post)
        /\ StateOf(userTimelines, Users, Seq(PostIds)) /\ StateOf(homeTimelines, Users, Seq(PostIds))
    BY DEF StatesOK
  <2>2. ASSUME NEW c \in Clients
        PROVE  /\ \A f \in Handlers(c) : f.req \in RequestOf[f.ep]
               /\ ~Idle(c) /\ Head(call[c]).at \in DOMAIN ResponseAt
                    => Res(c) \in ResponseAt[Head(call[c]).at]
               /\ answer[c].ok /\ answer[c].ep \in DOMAIN ResponseOf
                    => answer[c].res \in ResponseOf[answer[c].ep]
    <3>1. answer[c].ok /\ answer[c].ep \in DOMAIN ResponseOf
            => answer[c].res \in ResponseOf[answer[c].ep]
      BY Replies DEF CallsOK
    <3>2. call[c] \in Seq(Frames(c)) BY DEF CallsOK, Calls, Stacks
    <3>3. \A f \in Handlers(c) : f.req \in RequestOf[f.ep]
      BY <3>2, LenProperties, ElementOfSeq, FrameParts DEF Handlers
    <3>4. ASSUME ~Idle(c), Head(call[c]).at \in DOMAIN ResponseAt
          PROVE  Res(c) \in ResponseAt[Head(call[c]).at]
      <4> DEFINE f == Head(call[c])
      <4>1. call[c] # <<>> BY <3>4 DEF Idle
      <4>2. f \in Heads(c) /\ f \in Frames(c) BY <4>1, StackOf
      <4>3. Place(f.ep, f.at) BY <4>2, FrameParts
      <4>4. f.at # "start" /\ f.at \notin PauseNames BY <3>4, Names DEF PauseNames
      <4> HIDE DEF f
      <4>5. Waits(f.ep, f.at) BY <4>3, <4>4, PauseList DEF Place
      <4>6. PICK callee \in Eps : <<f.ep, f.at, callee>> \in Sites BY <4>5 DEF Waits
      <4>7. f.res \in ReplyOf[callee] BY <4>2, <4>6 DEF Heads, ReplyTo
      <4>8. ReplyOf[callee] = ResponseAt[f.at] BY <4>6, Replies
      <4> QED BY <4>7, <4>8 DEF Res, f
    <3> QED BY <3>1, <3>3, <3>4
  <2> QED BY <2>1, <2>2 DEF TypeOK
<1> QED BY <1>1, AlwaysOK, PTL

-----------------------------------------------------------------------------
(* Timelines and their logs. *)

LEMMA ElementsJoined ==
  ASSUME NEW S, NEW s \in Seq(S), NEW t \in Seq(S)
  PROVE  Elements(s \o t) = Elements(s) \cup Elements(t)
<1> DEFINE n == s \o t
<1>1. /\ n \in Seq(S) /\ Len(n) = Len(s) + Len(t)
      /\ \A i \in 1 .. Len(s) + Len(t) : n[i] = IF i <= Len(s) THEN s[i] ELSE t[i - Len(s)]
  BY ConcatProperties
<1>2. /\ Len(s) \in Nat /\ Len(t) \in Nat /\ DOMAIN s = 1 .. Len(s) /\ DOMAIN t = 1 .. Len(t)
      /\ DOMAIN n = 1 .. Len(s) + Len(t)
  BY <1>1, LenProperties
<1> HIDE DEF n
<1>3. \A i \in DOMAIN n : n[i] \in Elements(s) \cup Elements(t)
  <2> SUFFICES ASSUME NEW i \in DOMAIN n PROVE n[i] \in Elements(s) \cup Elements(t) OBVIOUS
  <2>1. i \in 1 .. Len(s) + Len(t) BY <1>2
  <2>2. CASE i <= Len(s)
    <3>1. i \in DOMAIN s /\ n[i] = s[i] BY <1>1, <1>2, <2>1, <2>2
    <3> QED BY <3>1 DEF Elements
  <2>3. CASE ~(i <= Len(s))
    <3>1. i - Len(s) \in DOMAIN t /\ n[i] = t[i - Len(s)] BY <1>1, <1>2, <2>1, <2>3
    <3> QED BY <3>1 DEF Elements
  <2> QED BY <2>2, <2>3
<1>4. \A i \in DOMAIN s : s[i] \in Elements(n)
  <2> SUFFICES ASSUME NEW i \in DOMAIN s PROVE s[i] \in Elements(n) OBVIOUS
  <2>1. i \in DOMAIN n /\ n[i] = s[i] BY <1>1, <1>2
  <2> QED BY <2>1 DEF Elements
<1>5. \A i \in DOMAIN t : t[i] \in Elements(n)
  <2> SUFFICES ASSUME NEW i \in DOMAIN t PROVE t[i] \in Elements(n) OBVIOUS
  <2>1. i \in 1 .. Len(t) /\ i \in Nat BY <1>2
  <2>2. \A a, b \in Nat : i \in 1 .. b => /\ a + i \in 1 .. a + b
                                          /\ ~(a + i <= a) /\ (a + i) - a = i
    BY <2>1
  <2>3. Len(s) + i \in DOMAIN n /\ n[Len(s) + i] = t[i] BY <1>1, <1>2, <2>1, <2>2
  <2> QED BY <2>3 DEF Elements
<1>6. Elements(n) = Elements(s) \cup Elements(t) BY <1>3, <1>4, <1>5 DEF Elements
<1> QED BY <1>6 DEF n

LEMMA BatchParts ==
  ASSUME NEW c, NEW ids \in Batch(c)
  PROVE  /\ ids \in Seq(PostIds) /\ Len(ids) \in Nat /\ Len(ids) >= 1
         /\ <<c, 1>> \in Elements(ids)
         /\ \A i \in 1 .. Len(ids) : ids[i][2] = i
<1>1. ids \in Seq(PostIds) /\ ids # <<>> /\ \A i \in DOMAIN ids : ids[i] = <<c, i>> BY DEF Batch
<1>2. Len(ids) \in Nat /\ Len(ids) >= 1 /\ DOMAIN ids = 1 .. Len(ids)
  BY <1>1, StackParts, LenProperties
<1>3. 1 \in DOMAIN ids BY <1>2
<1>4. ids[1] \in Elements(ids) BY <1>3 DEF Elements
<1> QED BY <1>1, <1>2, <1>3, <1>4

\* Every post after the first of those composed at once is one too many.
LEMMA ExtraJoined ==
  ASSUME NEW s \in Seq(PostIds), NEW c, NEW ids \in Batch(c)
  PROVE  /\ Extra(s) \in Nat /\ Extra(s \o ids) \in Nat
         /\ Extra(s \o ids) >= Extra(s) + Len(ids) - 1
<1> DEFINE m == Len(s)
           k == Len(ids)
           n == s \o ids
           A == {i \in DOMAIN s : s[i][2] > 1}
           B == (m + 2) .. (m + k)
           C == {i \in DOMAIN n : n[i][2] > 1}
<1>1. ids \in Seq(PostIds) /\ k \in Nat /\ k >= 1 /\ \A i \in 1 .. k : ids[i][2] = i BY BatchParts
<1>2. m \in Nat /\ DOMAIN s = 1 .. m BY LenProperties
<1>3. /\ DOMAIN n = 1 .. m + k
      /\ \A i \in 1 .. m + k : n[i] = IF i <= m THEN s[i] ELSE ids[i - m]
  BY <1>1, <1>2, ConcatProperties, LenProperties
<1>4. IsFiniteSet(A) /\ IsFiniteSet(C)
  <2>1. IsFiniteSet(1 .. m) /\ IsFiniteSet(1 .. m + k) BY <1>1, <1>2, FS_Interval
  <2>2. A \subseteq 1 .. m /\ C \subseteq 1 .. m + k BY <1>2, <1>3
  <2> HIDE DEF A, C, m, k
  <2> QED BY <2>1, <2>2, FS_Subset
<1>5. IsFiniteSet(B) /\ Cardinality(B) = k - 1
  <2>1. m + 2 \in Int /\ m + k \in Int BY <1>1, <1>2
  <2>2. IsFiniteSet(B) /\ Cardinality(B) = IF m + 2 > m + k THEN 0 ELSE (m + k) - (m + 2) + 1
    <3> HIDE DEF m, k
    <3> QED BY <2>1, FS_Interval
  <2>3. \A a, b \in Nat : b >= 1 => (IF a + 2 > a + b THEN 0 ELSE (a + b) - (a + 2) + 1) = b - 1
    OBVIOUS
  <2> HIDE DEF m, k, B
  <2> QED BY <1>1, <1>2, <2>2, <2>3
<1>6. A \subseteq 1 .. m BY <1>2
<1>7. A \cap B = {} BY <1>1, <1>2, <1>6
<1>8. A \subseteq C
  <2> SUFFICES ASSUME NEW i \in A PROVE i \in C OBVIOUS
  <2>1. i \in 1 .. m /\ s[i][2] > 1 BY <1>2
  <2>2. i \in 1 .. m + k /\ i <= m BY <1>1, <1>2, <2>1
  <2>3. n[i] = s[i] BY <1>3, <2>2
  <2> QED BY <1>3, <2>1, <2>2, <2>3
<1>9. B \subseteq C
  <2> SUFFICES ASSUME NEW i \in B PROVE i \in C OBVIOUS
  <2>1. \A a, b \in Nat : i \in (a + 2) .. (a + b) =>
          i \in 1 .. a + b /\ ~(i <= a) /\ i - a \in 1 .. b /\ i - a > 1
    OBVIOUS
  <2>2. i \in 1 .. m + k /\ ~(i <= m) /\ i - m \in 1 .. k /\ i - m > 1 BY <1>1, <1>2, <2>1
  <2>3. n[i] = ids[i - m] BY <1>3, <2>2
  <2>4. n[i][2] = i - m BY <1>1, <2>2, <2>3
  <2> QED BY <1>3, <2>2, <2>4
<1>10. Extra(s) = Cardinality(A) /\ Extra(n) = Cardinality(C) BY DEF Extra
<1> HIDE DEF A, B, C, m, k, n
<1>11. /\ Cardinality(A) \in Nat /\ Cardinality(B) \in Nat /\ Cardinality(C) \in Nat
       /\ Cardinality(A \cup B) \in Nat /\ IsFiniteSet(A \cup B)
  BY <1>4, <1>5, FS_CardinalityType, FS_Union
<1>12. Cardinality(A \cup B) = Cardinality(A) + Cardinality(B) - Cardinality(A \cap B)
  BY <1>4, <1>5, FS_Union
<1>13. Cardinality(A \cap B) = 0 BY <1>7, FS_EmptySet
<1>14. Cardinality(A \cup B) <= Cardinality(C)
  <2>1. A \cup B \subseteq C BY <1>8, <1>9
  <2> QED BY <1>4, <2>1, FS_Subset
<1>15. Cardinality(C) >= Cardinality(A) + k - 1
  <2>1. \A x, y, z, w \in Nat : y = k - 1 /\ w = x + y - 0 /\ w <= z => z >= x + k - 1
    BY <1>1
  <2> QED BY <1>5, <1>11, <1>12, <1>13, <1>14, <2>1
<1> QED BY <1>10, <1>11, <1>15 DEF n, k

LEMMA WrittenParts ==
  ASSUME NEW list \in Seq(PostIds), NEW ids \in Seq(PostIds)
  PROVE  /\ Written(list, ids) \in Seq(PostIds)
         /\ Elements(Written(list, ids)) \subseteq Elements(list) \cup Elements(ids)
         /\ \/ Len(list) < MaxKept /\ Written(list, ids) = list \o ids
            \/ Len(list) >= MaxKept /\ Len(Written(list, ids)) = Len(list) - 1 + Len(ids)
<1> DEFINE d == DropOldest(list, MaxKept)
<1>1. /\ d \in Seq(PostIds)
      /\ \/ Len(list) < MaxKept /\ d = list
         \/ /\ Len(list) >= MaxKept /\ Len(d) = Len(list) - 1
            /\ \A i \in 1 .. Len(list) - 1 : d[i] = list[i + 1]
  BY SocialAssumption, DroppedOne
<1>2. Written(list, ids) = d \o ids BY DEF Written
<1>3. /\ Len(list) \in Nat /\ Len(d) \in Nat /\ DOMAIN list = 1 .. Len(list)
      /\ DOMAIN d = 1 .. Len(d)
  BY <1>1, LenProperties
<1> HIDE DEF d
<1>4. Elements(d) \subseteq Elements(list)
  <2>1. CASE d = list BY <2>1
  <2>2. CASE Len(d) = Len(list) - 1 /\ \A i \in 1 .. Len(list) - 1 : d[i] = list[i + 1]
    <3> SUFFICES ASSUME NEW i \in DOMAIN d PROVE d[i] \in Elements(list) BY DEF Elements
    <3>1. i \in 1 .. Len(list) - 1 /\ i + 1 \in 1 .. Len(list) BY <1>3, <2>2
    <3>2. d[i] = list[i + 1] /\ i + 1 \in DOMAIN list BY <1>3, <2>2, <3>1
    <3> QED BY <3>2 DEF Elements
  <2> QED BY <1>1, <2>1, <2>2
<1>5. Elements(d \o ids) = Elements(d) \cup Elements(ids) BY <1>1, ElementsJoined
<1>6. d \o ids \in Seq(PostIds) /\ Len(d \o ids) = Len(d) + Len(ids) BY <1>1, ConcatProperties
<1> QED BY <1>1, <1>2, <1>4, <1>5, <1>6

LEMMA LenWritten ==
  ASSUME NEW list \in Seq(PostIds), NEW s \in Seq(PostIds), NEW c, NEW ids \in Batch(c),
         Len(list) <= MaxKept + Extra(s)
  PROVE  Len(Written(list, ids)) <= MaxKept + Extra(s \o ids)
<1> DEFINE w == Written(list, ids)
<1>1. /\ ids \in Seq(PostIds) /\ Len(ids) \in Nat /\ Len(ids) >= 1 BY BatchParts
<1>2. /\ Extra(s) \in Nat /\ Extra(s \o ids) \in Nat
      /\ Extra(s \o ids) >= Extra(s) + Len(ids) - 1
  BY ExtraJoined
<1>3. \/ Len(list) < MaxKept /\ Len(w) = Len(list) + Len(ids)
      \/ Len(list) >= MaxKept /\ Len(w) = Len(list) - 1 + Len(ids)
  <2>1. \/ Len(list) < MaxKept /\ w = list \o ids
        \/ Len(list) >= MaxKept /\ Len(w) = Len(list) - 1 + Len(ids)
    BY <1>1, WrittenParts
  <2>2. Len(list \o ids) = Len(list) + Len(ids) BY <1>1, ConcatProperties
  <2> HIDE DEF w
  <2> QED BY <2>1, <2>2
<1>4. Len(list) \in Nat /\ MaxKept \in Nat BY SocialAssumption, LenProperties
<1> HIDE DEF w
<1>5. \A l, n, x, y, m, k \in Nat :
        /\ x <= m + l /\ y >= l + n - 1
        /\ \/ x < m /\ k = x + n
           \/ x >= m /\ k = x - 1 + n
        => k <= m + y
  OBVIOUS
<1>6. Len(w) \in Nat
  <2>1. w \in Seq(PostIds) BY <1>1, WrittenParts DEF w
  <2> QED BY <2>1, LenProperties
<1>7. Len(w) <= MaxKept + Extra(s \o ids) BY <1>1, <1>2, <1>3, <1>4, <1>5, <1>6
<1> QED BY <1>7 DEF w

LEMMA TailedWritten ==
  ASSUME NEW list \in Seq(PostIds), NEW s \in Seq(PostIds), NEW c, NEW ids \in Batch(c),
         Tailed(list, s)
  PROVE  Tailed(Written(list, ids), s \o ids)
<1> DEFINE d == DropOldest(list, MaxKept)
           w == d \o ids
           t == s \o ids
<1>1. ids \in Seq(PostIds) /\ Len(ids) \in Nat /\ Len(ids) >= 1 BY BatchParts
<1>2. /\ d \in Seq(PostIds)
      /\ \/ Len(list) < MaxKept /\ d = list
         \/ /\ Len(list) >= MaxKept /\ Len(d) = Len(list) - 1
            /\ \A i \in 1 .. Len(list) - 1 : d[i] = list[i + 1]
  BY SocialAssumption, DroppedOne
<1>3. Written(list, ids) = w BY DEF Written
<1> HIDE DEF d
<1>4. /\ Len(list) \in Nat /\ Len(d) \in Nat /\ Len(s) \in Nat /\ MaxKept \in Nat \ {0}
  BY <1>2, SocialAssumption, LenProperties
<1>5. /\ Len(list) <= Len(s) /\ \A i \in 1 .. Len(list) : list[i] = s[Len(s) - Len(list) + i]
      /\ Len(list) >= MaxKept \/ list = s
  BY DEF Tailed, IsSuffix
<1>6. Len(d) <= Len(s) /\ \A i \in 1 .. Len(d) : d[i] = s[Len(s) - Len(d) + i]
  <2>1. CASE d = list BY <1>5, <2>1
  <2>2. CASE /\ Len(list) >= MaxKept /\ Len(d) = Len(list) - 1
             /\ \A i \in 1 .. Len(list) - 1 : d[i] = list[i + 1]
    <3>1. Len(d) <= Len(s) BY <1>4, <1>5, <2>2
    <3>2. ASSUME NEW i \in 1 .. Len(d) PROVE d[i] = s[Len(s) - Len(d) + i]
      <4>1. i \in 1 .. Len(list) - 1 /\ i + 1 \in 1 .. Len(list) BY <1>4, <2>2
      <4>2. d[i] = list[i + 1] /\ list[i + 1] = s[Len(s) - Len(list) + (i + 1)]
        BY <1>5, <2>2, <4>1
      <4>3. \A a, b, x \in Nat : x = b - 1 => a - b + (i + 1) = a - x + i OBVIOUS
      <4>4. Len(s) - Len(list) + (i + 1) = Len(s) - Len(d) + i BY <1>4, <2>2, <4>3
      <4> QED BY <4>2, <4>4
    <3> QED BY <3>1, <3>2
  <2> QED BY <1>2, <2>1, <2>2
<1>7. /\ Len(w) = Len(d) + Len(ids)
      /\ \A i \in 1 .. Len(d) + Len(ids) : w[i] = IF i <= Len(d) THEN d[i] ELSE ids[i - Len(d)]
  BY <1>1, <1>2, ConcatProperties
<1>8. /\ Len(t) = Len(s) + Len(ids)
      /\ \A i \in 1 .. Len(s) + Len(ids) : t[i] = IF i <= Len(s) THEN s[i] ELSE ids[i - Len(s)]
  BY <1>1, ConcatProperties
<1>9. Len(w) <= Len(t) BY <1>1, <1>4, <1>6, <1>7, <1>8
<1>10. ASSUME NEW i \in 1 .. Len(w) PROVE w[i] = t[Len(t) - Len(w) + i]
  <2> HIDE DEF w, t
  <2>1. i \in 1 .. Len(d) + Len(ids) /\ i \in Nat BY <1>7
  <2>2. CASE i <= Len(d)
    <3>1. \A a, b, n \in Nat : b <= a /\ i \in 1 .. b =>
            /\ (a + n) - (b + n) + i = a - b + i /\ a - b + i \in 1 .. a + n /\ a - b + i <= a
      BY <2>1
    <3>2. i \in 1 .. Len(d) BY <1>4, <2>1, <2>2
    <3>3. /\ Len(t) - Len(w) + i = Len(s) - Len(d) + i
          /\ Len(s) - Len(d) + i \in 1 .. Len(s) + Len(ids) /\ Len(s) - Len(d) + i <= Len(s)
      BY <1>1, <1>4, <1>6, <1>7, <1>8, <3>1, <3>2
    <3>4. t[Len(s) - Len(d) + i] = s[Len(s) - Len(d) + i] BY <1>8, <3>3
    <3>5. w[i] = d[i] BY <1>7, <2>1, <2>2
    <3>6. d[i] = s[Len(s) - Len(d) + i] BY <1>6, <3>2
    <3> QED BY <3>3, <3>4, <3>5, <3>6
  <2>3. CASE ~(i <= Len(d))
    <3>1. \A a, b, n \in Nat : b <= a /\ i \in 1 .. b + n /\ ~(i <= b) =>
            /\ (a + n) - (b + n) + i = a - b + i /\ a - b + i \in 1 .. a + n
            /\ ~(a - b + i <= a) /\ (a - b + i) - a = i - b
      BY <2>1
    <3>3. /\ Len(t) - Len(w) + i = Len(s) - Len(d) + i
          /\ Len(s) - Len(d) + i \in 1 .. Len(s) + Len(ids) /\ ~(Len(s) - Len(d) + i <= Len(s))
          /\ (Len(s) - Len(d) + i) - Len(s) = i - Len(d)
      BY <1>1, <1>4, <1>6, <1>7, <1>8, <2>1, <2>3, <3>1
    <3>4. t[Len(s) - Len(d) + i] = ids[i - Len(d)] BY <1>8, <3>3
    <3>5. w[i] = ids[i - Len(d)] BY <1>7, <2>1, <2>3
    <3> QED BY <3>3, <3>4, <3>5
  <2> QED BY <2>2, <2>3
<1>11. Len(w) >= MaxKept \/ w = t
  <2>1. CASE Len(list) < MaxKept /\ d = list
    <3>1. list = s BY <1>4, <1>5, <2>1
    <3> QED BY <2>1, <3>1
  <2>2. CASE Len(list) >= MaxKept /\ Len(d) = Len(list) - 1
    <3>1. Len(d) + Len(ids) >= MaxKept BY <1>1, <1>4, <2>2
    <3> QED BY <1>7, <3>1
  <2> QED BY <1>2, <2>1, <2>2
<1> QED BY <1>3, <1>9, <1>10, <1>11 DEF Tailed, IsSuffix

LEMMA ExtraNat == ASSUME NEW s \in Seq(PostIds) PROVE Extra(s) \in Nat
<1> DEFINE A == {i \in DOMAIN s : s[i][2] > 1}
<1>1. DOMAIN s = 1 .. Len(s) /\ Len(s) \in Nat BY LenProperties
<1>2. IsFiniteSet(1 .. Len(s)) BY <1>1, FS_Interval
<1>3. A \subseteq 1 .. Len(s) BY <1>1
<1>4. Cardinality(A) \in Nat BY <1>2, <1>3, FS_Subset, FS_CardinalityType
<1> QED BY <1>4 DEF Extra

-----------------------------------------------------------------------------
(* What is known of frames and answers survives as posts, logs and raced   *)
(* keys become more.                                                       *)

Logs == [Kinds -> [Users -> Seq(PostIds)]]
More(S, L, R, S2, L2, R2) ==
  /\ S \subseteq S2 /\ R \subseteq R2
  /\ L \in Logs /\ L2 \in Logs
  /\ \A kind \in Kinds : \A u \in Users :
       /\ Elements(L[kind][u]) \subseteq Elements(L2[kind][u])
       /\ Extra(L[kind][u]) <= Extra(L2[kind][u])

LEMMA FrameTypes ==
  ASSUME NEW c, NEW f \in Frames(c)
  PROVE  /\ f.ep \in Writers => f.req.user \in Users /\ f.req.posts \in Batch(c)
         /\ f.ep \in Composers => f.req.creator \in Users
         /\ f.ep = "ro_get_followers" => f.req.user \in Users
         /\ f.ep = "follow" => f.req.follower \in Users /\ f.req.followee \in Users
         /\ f.ep = "write_home_timeline" /\ f.at = "loaded" =>
              /\ f.my.followers \in Seq(Users) /\ f.my.followers # <<>>
              /\ Head(f.my.followers) \in Users /\ f.my.list \in Seq(PostIds)
         /\ f.ep = "write_home_timeline" /\ f.at = "next" => f.my.followers \in Seq(Users)
         /\ f.ep = "write_user_timeline" /\ f.at = "loaded" => f.my \in Seq(PostIds)
         /\ f.ep \in Composers /\ f.at \in {"wroteUser", "wroteHome"} => f.my \in Batch(c)
         /\ f.ep = "follow" /\ f.at \in {"gotFollower", "gotFollowee"} => f.my \in SGVertex
<1>1. f.req \in RequestFor(c, f.ep) /\ f.my \in LocalsAt(c, f.ep, f.at) BY FrameParts
<1>0. \A e : f.ep = e => f.req \in RequestOf[e] BY FrameParts
<1>2. f.ep \in Writers => f.req.user \in Users /\ f.req.posts \in Batch(c)
  <2>1. /\ RequestOf["write_home_timeline"] = [user : Users, posts : Seq(PostIds)]
        /\ RequestOf["write_user_timeline"] = [user : Users, posts : Seq(PostIds)]
    BY DEF RequestOf, WriteHomeTimelineRequest, WriteUserTimelineRequest
  <2>2. f.ep \in Writers => f.req.posts \in Batch(c) BY <1>1 DEF RequestFor
  <2>3. f.ep = "write_home_timeline" => f.req \in [user : Users, posts : Seq(PostIds)]
    BY <1>0, <2>1
  <2>4. f.ep = "write_user_timeline" => f.req \in [user : Users, posts : Seq(PostIds)]
    BY <1>0, <2>1
  <2> QED BY <2>2, <2>3, <2>4 DEF Writers
<1>3. f.ep \in Composers => f.req.creator \in Users
  <2>1. /\ RequestOf["compose_post"] = [creator : Users]
        /\ RequestOf["compose_post_multi"] = [creator : Users, number : Numbers]
    BY DEF RequestOf, ComposePostRequest, ComposePostMultiRequest
  <2>2. f.ep = "compose_post" => f.req \in [creator : Users] BY <1>0, <2>1
  <2>3. f.ep = "compose_post_multi" => f.req \in [creator : Users, number : Numbers]
    BY <1>0, <2>1
  <2> QED BY <2>2, <2>3 DEF Composers
<1>4. f.ep = "ro_get_followers" => f.req.user \in Users
  <2>1. RequestOf["ro_get_followers"] = [user : Users] BY DEF RequestOf, GetFollowersRequest
  <2>2. f.ep = "ro_get_followers" => f.req \in [user : Users] BY <1>0, <2>1
  <2> QED BY <2>2
<1>5. f.ep = "follow" => f.req.follower \in Users /\ f.req.followee \in Users
  <2>1. RequestOf["follow"] = [follower : Users, followee : Users] BY DEF RequestOf, FollowRequest
  <2>2. f.ep = "follow" => f.req \in [follower : Users, followee : Users] BY <1>0, <2>1
  <2> QED BY <2>2
<1>6. f.ep = "write_home_timeline" /\ f.at = "loaded" =>
        /\ f.my.followers \in Seq(Users) /\ f.my.followers # <<>>
        /\ Head(f.my.followers) \in Users /\ f.my.list \in Seq(PostIds)
  <2> SUFFICES ASSUME f.ep = "write_home_timeline", f.at = "loaded"
               PROVE  /\ f.my.followers \in Seq(Users) /\ f.my.followers # <<>>
                      /\ Head(f.my.followers) \in Users /\ f.my.list \in Seq(PostIds)
    OBVIOUS
  <2>1. f.my \in [followers : Seq(Users) \ {<<>>}, list : Seq(PostIds)]
    BY <1>1 DEF LocalsAt, Composers
  <2>2. f.my.followers \in Seq(Users) /\ f.my.followers # <<>> /\ f.my.list \in Seq(PostIds)
    BY <2>1
  <2> QED BY <2>2, HeadTailProperties
<1>7. f.ep = "write_home_timeline" /\ f.at = "next" => f.my.followers \in Seq(Users)
  BY <1>1 DEF LocalsAt, Composers
<1>8. f.ep = "write_user_timeline" /\ f.at = "loaded" => f.my \in Seq(PostIds)
  BY <1>1 DEF LocalsAt, Composers
<1>9. f.ep \in Composers /\ f.at \in {"wroteUser", "wroteHome"} => f.my \in Batch(c)
  BY <1>1 DEF LocalsAt, Composers
<1>10. f.ep = "follow" /\ f.at \in {"gotFollower", "gotFollowee"} => f.my \in SGVertex
  BY <1>1 DEF LocalsAt
<1> QED BY <1>2, <1>3, <1>4, <1>5, <1>6, <1>7, <1>8, <1>9, <1>10

LEMMA PopulatedUsers ==
  \A u \in DOMAIN Populated : /\ u \in Users /\ Populated[u] \in SGVertex
                              /\ Elements(Populated[u].followers) \subseteq Users
                              /\ Elements(Populated[u].followees) \subseteq Users
<1> SUFFICES ASSUME NEW u \in DOMAIN Populated
             PROVE  /\ u \in Users /\ Populated[u] \in SGVertex
                    /\ Elements(Populated[u].followers) \subseteq Users
                    /\ Elements(Populated[u].followees) \subseteq Users
  OBVIOUS
<1>1. u \in Users /\ Populated[u] \in SGVertex BY SocialAssumption DEF StateOf
<1>2. Populated[u].followers \in Seq(Users) /\ Populated[u].followees \in Seq(Users)
  BY <1>1 DEF SGVertex
<1>3. \A s \in Seq(Users) : Elements(s) \subseteq Users
  BY ElementOfSeq, LenProperties DEF Elements
<1> QED BY <1>1, <1>2, <1>3

LEMMA KnownStays ==
  ASSUME NEW S, NEW L, NEW R, NEW S2, NEW L2, NEW R2, More(S, L, R, S2, L2, R2), NEW c
  PROVE  /\ \A u \in Users : Authored(c, u, L) => Authored(c, u, L2)
         /\ \A u, left : Fanned(c, u, left, L, R) => Fanned(c, u, left, L2, R2)
         /\ \A kind \in Kinds, u \in Users, list \in Seq(PostIds) :
              ListOK(list, kind, u, S, L) => ListOK(list, kind, u, S2, L2)
<1>1. "user" \in Kinds /\ "home" \in Kinds BY DEF Kinds
<1>2. \A u \in Users : Authored(c, u, L) => Authored(c, u, L2) BY <1>1 DEF Authored, More
<1>3. \A u, left : Fanned(c, u, left, L, R) => Fanned(c, u, left, L2, R2)
  BY <1>1, PopulatedUsers DEF Fanned, More
<1>4. ASSUME NEW kind \in Kinds, NEW u \in Users, NEW list \in Seq(PostIds),
             ListOK(list, kind, u, S, L)
      PROVE  ListOK(list, kind, u, S2, L2)
  <2>1. /\ Extra(L[kind][u]) \in Nat /\ Extra(L2[kind][u]) \in Nat
        /\ Extra(L[kind][u]) <= Extra(L2[kind][u])
    <3>1. L[kind][u] \in Seq(PostIds) /\ L2[kind][u] \in Seq(PostIds) BY DEF More, Logs
    <3> QED BY <3>1, ExtraNat DEF More
  <2>2. Len(list) \in Nat /\ MaxKept \in Nat BY LenProperties, SocialAssumption
  <2>3. \A l, m, x, y \in Nat : l <= m + x /\ x <= y => l <= m + y OBVIOUS
  <2>4. Len(list) <= MaxKept + Extra(L[kind][u]) BY <1>4 DEF ListOK
  <2>5. Len(list) <= MaxKept + Extra(L2[kind][u]) BY <2>1, <2>2, <2>3, <2>4
  <2> QED BY <1>4, <2>5 DEF ListOK, More
<1> QED BY <1>2, <1>3, <1>4

LEMMA FrameStays ==
  ASSUME NEW S, NEW L, NEW R, NEW S2, NEW L2, NEW R2, More(S, L, R, S2, L2, R2), NEW c,
         NEW f \in Frames(c), FrameOK(c, f, S, L, R)
  PROVE  FrameOK(c, f, S2, L2, R2)
<1>1. /\ f.ep \in Writers => f.req.user \in Users
      /\ f.ep \in Composers => f.req.creator \in Users
      /\ f.ep = "write_home_timeline" /\ f.at = "loaded" =>
              Head(f.my.followers) \in Users /\ f.my.list \in Seq(PostIds)
      /\ f.ep = "write_user_timeline" /\ f.at = "loaded" => f.my \in Seq(PostIds)
  BY FrameTypes
<1>2. S \subseteq S2 BY DEF More
<1>3. "user" \in Kinds /\ "home" \in Kinds /\ "write_home_timeline" \in Writers
      /\ "write_user_timeline" \in Writers
  BY DEF Kinds, Writers
<1>4. /\ \A u \in Users : Authored(c, u, L) => Authored(c, u, L2)
      /\ \A u, left : Fanned(c, u, left, L, R) => Fanned(c, u, left, L2, R2)
      /\ \A kind \in Kinds, u \in Users, list \in Seq(PostIds) :
              ListOK(list, kind, u, S, L) => ListOK(list, kind, u, S2, L2)
  BY KnownStays
<1> QED BY <1>1, <1>2, <1>3, <1>4 DEF FrameOK

LEMMA TopStays ==
  ASSUME NEW S, NEW L, NEW R, NEW S2, NEW L2, NEW R2, More(S, L, R, S2, L2, R2), NEW c,
         NEW f \in Frames(c), TopOK(c, f, S, L, R)
  PROVE  TopOK(c, f, S2, L2, R2)
<1>1. f.ep \in Composers => f.req.creator \in Users BY FrameTypes
<1>2. S \subseteq S2 BY DEF More
<1>3. /\ \A u \in Users : Authored(c, u, L) => Authored(c, u, L2)
      /\ \A u, left : Fanned(c, u, left, L, R) => Fanned(c, u, left, L2, R2)
  BY KnownStays
<1> QED BY <1>1, <1>2, <1>3 DEF TopOK

LEMMA AnswerStays ==
  ASSUME NEW S, NEW L, NEW R, NEW S2, NEW L2, NEW R2, More(S, L, R, S2, L2, R2), NEW c,
         NEW a, AnswerOK(c, a, L, R)
  PROVE  AnswerOK(c, a, L2, R2)
<1>1. /\ \A u \in Users : Authored(c, u, L) => Authored(c, u, L2)
      /\ \A u, left : Fanned(c, u, left, L, R) => Fanned(c, u, left, L2, R2)
  BY KnownStays
<1> QED BY <1>1 DEF AnswerOK

\* What a step of a handler changes.
Grows == More(DOMAIN posts, log, raced, (DOMAIN posts)', log', raced')

LEMMA SameMore ==
  ASSUME StatesOK
  PROVE  More(DOMAIN posts, log, raced, DOMAIN posts, log, raced)
<1>1. log \in Logs BY DEF StatesOK, Logs
<1>2. \A kind \in Kinds : \A u \in Users : Extra(log[kind][u]) \in Nat BY <1>1, ExtraNat DEF Logs
<1> QED BY <1>1, <1>2 DEF More

LEMMA LinedLog ==
  ASSUME CallsOK, StatesOK, NEW c \in Clients, call[c] # <<>>, NEW kind \in Kinds, NEW u \in Users,
         Lined(c, kind, u)
  PROVE  /\ call[c][1].ep \in Writers /\ call[c][1].req.posts \in Batch(c)
         /\ call[c][1].req.posts \in Seq(PostIds)
         /\ log'[kind][u] = log[kind][u] \o call[c][1].req.posts
         /\ \A k \in Kinds, w \in Users : <<k, w>> # <<kind, u>> => log'[k][w] = log[k][w]
         /\ Elements(log'[kind][u]) = Elements(log[kind][u]) \cup Elements(call[c][1].req.posts)
         /\ <<c, 1>> \in Elements(log'[kind][u])
<1> DEFINE ids == call[c][1].req.posts
<1>1. call[c][1] \in Frames(c) BY StackOf
<1>2. call[c][1].ep \in Writers BY DEF Lined, Writers
<1>3. ids \in Batch(c) BY <1>1, <1>2, FrameTypes
<1>4. ids \in Seq(PostIds) /\ <<c, 1>> \in Elements(ids) BY <1>3, BatchParts
<1>5. log' = [log EXCEPT ![kind][u] = @ \o ids] BY DEF Lined, Appends
<1>6. log \in Logs BY DEF StatesOK, Logs
<1> HIDE DEF ids
<1>7. /\ log'[kind][u] = log[kind][u] \o ids
      /\ \A k \in Kinds, w \in Users : <<k, w>> # <<kind, u>> => log'[k][w] = log[k][w]
  BY <1>5, <1>6 DEF Logs
<1>8. log[kind][u] \in Seq(PostIds) BY <1>6 DEF Logs
<1>9. Elements(log[kind][u] \o ids) = Elements(log[kind][u]) \cup Elements(ids)
  BY <1>4, <1>8, ElementsJoined
<1> QED BY <1>2, <1>3, <1>4, <1>7, <1>9 DEF ids

LEMMA ChangedGrows ==
  ASSUME CallsOK, StatesOK, StatesOK', NEW c \in Clients, call[c] # <<>>, Changed(c)
  PROVE  Grows
<1>0. More(DOMAIN posts, log, raced, DOMAIN posts, log, raced) BY SameMore
<1>1. CASE UNCHANGED state BY <1>0, <1>1 DEF Grows, state
<1>2. CASE Stored(c) BY <1>0, <1>2 DEF Grows, Stored, More
<1>3. CASE \E u \in Users : \E v \in SGVertex : Vertexed(c, u, v)
  BY <1>0, <1>3 DEF Grows, Vertexed, More
<1>4. ASSUME NEW kind \in Kinds, NEW u \in Users, Lined(c, kind, u) PROVE Grows
  <2>1. log \in Logs /\ log' \in Logs BY DEF StatesOK, Logs
  <2>2. PICK ids : ids = call[c][1].req.posts OBVIOUS
  <2>3. /\ ids \in Batch(c) /\ log'[kind][u] = log[kind][u] \o ids
        /\ \A k \in Kinds, w \in Users : <<k, w>> # <<kind, u>> => log'[k][w] = log[k][w]
        /\ Elements(log'[kind][u]) = Elements(log[kind][u]) \cup Elements(ids)
    <3>0. Lined(c, kind, u) BY <1>4
    <3>1. call[c][1].req.posts \in Batch(c) BY <3>0, LinedLog
    <3>2. log'[kind][u] = log[kind][u] \o call[c][1].req.posts BY <3>0, LinedLog
    <3>3. \A k \in Kinds, w \in Users : <<k, w>> # <<kind, u>> => log'[k][w] = log[k][w]
      BY <3>0, LinedLog
    <3>4. log[kind][u] \in Seq(PostIds) /\ ids \in Seq(PostIds)
      BY <2>1, <2>2, <3>1 DEF Logs, Batch
    <3>5. Elements(log[kind][u] \o ids) = Elements(log[kind][u]) \cup Elements(ids)
      BY <3>4, ElementsJoined
    <3> QED BY <2>2, <3>1, <3>2, <3>3, <3>5
  <2>4. \A k \in Kinds : \A w \in Users : Extra(log[k][w]) \in Nat BY <2>1, ExtraNat DEF Logs
  <2>5. Extra(log[kind][u]) <= Extra(log'[kind][u])
    <3>1. log[kind][u] \in Seq(PostIds) BY <2>1 DEF Logs
    <3>2. /\ Extra(log[kind][u] \o ids) \in Nat
          /\ Extra(log[kind][u] \o ids) >= Extra(log[kind][u]) + Len(ids) - 1
      BY <2>3, <3>1, ExtraJoined
    <3>3. Len(ids) \in Nat /\ Len(ids) >= 1 BY <2>3, BatchParts
    <3>4. Extra(log[kind][u]) \in Nat BY <2>4
    <3>5. \A x, y, n \in Nat : y >= x + n - 1 /\ n >= 1 => x <= y OBVIOUS
    <3> QED BY <2>3, <3>2, <3>3, <3>4, <3>5
  <2>6. ASSUME NEW k \in Kinds, NEW w \in Users
        PROVE  /\ Elements(log[k][w]) \subseteq Elements(log'[k][w])
               /\ Extra(log[k][w]) <= Extra(log'[k][w])
    <3>1. CASE <<k, w>> = <<kind, u>> BY <2>3, <2>5, <3>1
    <3>2. CASE <<k, w>> # <<kind, u>> BY <2>3, <2>4, <3>2
    <3> QED BY <3>1, <3>2
  <2>7. (DOMAIN posts)' = DOMAIN posts /\ raced \subseteq raced' BY <1>4 DEF Lined, Appends
  <2> QED BY <2>1, <2>6, <2>7 DEF Grows, More
<1> QED BY <1>1, <1>2, <1>3, <1>4 DEF Changed

-----------------------------------------------------------------------------
(* A step keeps what is known of the frames. *)

FrameNow(c, f) == FrameOK(c, f, DOMAIN posts, log, raced)
TopNow(c, f) == TopOK(c, f, DOMAIN posts, log, raced)

\* A handler that has loaded a timeline writes it.
LEMMA LoadedLined ==
  ASSUME NEW c, Changed(c), NEW f, f = call[c][1], f.ep \in Writers, f.at = "loaded"
  PROVE  /\ f.ep = "write_home_timeline" => Lined(c, "home", Head(f.my.followers))
         /\ f.ep = "write_user_timeline" => Lined(c, "user", f.req.user)
<1>1. ~Calm(f) BY DEF Calm
<1>2. f.ep \notin Stores /\ f.ep \notin {"follow", "insert_user", "follow_multi"}
  BY DEF Stores, Writers
<1>3. ~Stored(c) /\ \A u, v : ~Vertexed(c, u, v) BY <1>2 DEF Stored, Vertexed, VertexIs
<1>4. PICK kind \in Kinds, u \in Users : Lined(c, kind, u) BY <1>1, <1>3 DEF Changed
<1>5. \/ f.ep = "write_home_timeline" /\ kind = "home" /\ u = Head(f.my.followers)
      \/ f.ep = "write_user_timeline" /\ kind = "user" /\ u = f.req.user
  BY <1>4 DEF Lined
<1> QED BY <1>4, <1>5

LEMMA HeadOrTail ==
  ASSUME NEW s \in Seq(Users), s # <<>>
  PROVE  /\ Elements(s) \subseteq {Head(s)} \cup Elements(Tail(s)) /\ Tail(s) \in Seq(Users)
<1>1. Len(s) \in Nat /\ DOMAIN s = 1 .. Len(s) /\ Len(s) >= 1 BY LenProperties, EmptySeq
<1>2. /\ Head(s) = s[1] /\ Tail(s) \in Seq(Users) /\ Len(Tail(s)) = Len(s) - 1
      /\ \A i \in 1 .. Len(s) - 1 : Tail(s)[i] = s[i + 1]
  BY HeadTailProperties
<1>3. DOMAIN Tail(s) = 1 .. Len(s) - 1 BY <1>2, LenProperties
<1>4. ASSUME NEW i \in DOMAIN s, i # 1 PROVE s[i] \in Elements(Tail(s))
  <2>1. \A n \in Nat : i \in 1 .. n => i - 1 \in 1 .. n - 1 /\ (i - 1) + 1 = i BY <1>4
  <2>2. i - 1 \in 1 .. Len(s) - 1 /\ (i - 1) + 1 = i BY <1>1, <2>1
  <2>3. Tail(s)[i - 1] = s[i] /\ i - 1 \in DOMAIN Tail(s) BY <1>2, <1>3, <2>2
  <2> QED BY <2>3 DEF Elements
<1>5. \A i \in DOMAIN s : s[i] \in {Head(s)} \cup Elements(Tail(s)) BY <1>2, <1>4
<1> QED BY <1>2, <1>5 DEF Elements

LEMMA WentOK ==
  ASSUME CallsOK, StatesOK, StatesOK', LinesOK, NEW c \in Clients, call[c] # <<>>, Changed(c),
         Grows, NEW f, f = call[c][1], FrameNow(c, f)', TopNow(c, f)',
         NEW place \in PlaceNames, NEW my \in LocalsAt(c, f.ep, place), GoesTo(f, place, my)
  PROVE  FrameNow(c, Gone(f, place, my))' /\ TopNow(c, Gone(f, place, my))'
<1>1. f \in Frames(c) BY StackOf
<1> DEFINE g == Gone(f, place, my)
<1>2. g.ep = f.ep /\ g.req = f.req /\ g.at = place /\ g.my = my
  <2>1. f = [ep |-> f.ep, req |-> f.req, at |-> f.at, my |-> f.my, res |-> f.res]
    BY <1>1, FrameParts
  <2>2. DOMAIN f = {"ep", "req", "at", "my", "res"} BY <2>1
  <2> QED BY <2>2 DEF Gone
<1> HIDE DEF g
<1>3. f.ep \in {"follow", "ro_read_posts"} \cup Writers BY DEF GoesTo
<1>4. CASE f.ep \in {"follow", "ro_read_posts"}
  <2>1. f.ep \notin Composers /\ f.ep \notin Writers BY <1>4 DEF Composers, Writers
  <2>2. f.ep # "compose_post" /\ f.ep # "compose_post_multi" /\ f.ep # "write_home_timeline"
        /\ f.ep # "write_user_timeline"
    BY <2>1 DEF Composers, Writers
  <2> QED BY <1>2, <2>1, <2>2 DEF FrameNow, TopNow, FrameOK, TopOK, g
<1>5. ASSUME f.ep \in Writers
      PROVE  /\ f.ep \notin Composers /\ f.ep # "compose_post" /\ f.ep # "compose_post_multi"
             /\ Elements(f.req.posts) \subseteq (DOMAIN posts)'
             /\ f.req.user \in Users
  <2>1. f.ep \notin Composers /\ f.ep # "compose_post" /\ f.ep # "compose_post_multi"
    BY <1>5 DEF Composers, Writers
  <2>2. Elements(f.req.posts) \subseteq (DOMAIN posts)' BY <1>5 DEF FrameNow, FrameOK
  <2>3. f.req.user \in Users BY <1>1, <1>5, FrameTypes
  <2> QED BY <2>1, <2>2, <2>3
<1>6. \A kind \in Kinds, u \in Users, list \in Seq(PostIds) :
        ListOK(list, kind, u, DOMAIN posts, log) => ListOK(list, kind, u, DOMAIN posts, log)'
  <2> SUFFICES ASSUME NEW kind \in Kinds, NEW u \in Users, NEW list \in Seq(PostIds),
                      ListOK(list, kind, u, DOMAIN posts, log)
               PROVE  ListOK(list, kind, u, DOMAIN posts, log)'
    OBVIOUS
  <2>1. More(DOMAIN posts, log, raced, (DOMAIN posts)', log', raced') BY DEF Grows
  <2>2. ListOK(list, kind, u, (DOMAIN posts)', log') BY <2>1, KnownStays
  <2> QED BY <2>2
<1>7. \A kind \in Kinds, u \in Users : ListOK(Line(kind, u), kind, u, DOMAIN posts, log)
  BY DEF LinesOK
<1>8. "home" \in Kinds /\ "user" \in Kinds /\ "write_home_timeline" \in Writers
      /\ "write_user_timeline" \in Writers
  BY DEF Kinds, Writers
<1>9. CASE f.ep = "write_home_timeline"
  <2>1. Authored(c, f.req.user, log)' BY <1>9 DEF FrameNow, FrameOK
  <2>2. CASE /\ f.at \in {"gotFollowers", "next"} /\ place = "loaded" /\ Left(f) # <<>>
             /\ my.followers = Left(f) /\ my.list = Line("home", Head(Left(f)))
    <3>1. Fanned(c, f.req.user, my.followers, log, raced)'
      <4>1. CASE f.at = "gotFollowers" BY <1>9, <2>2, <4>1 DEF TopNow, TopOK, Left
      <4>2. CASE f.at = "next"
        <5>1. Left(f) = f.my.followers BY <4>2 DEF Left
        <5> QED BY <1>9, <2>2, <4>2, <5>1 DEF FrameNow, FrameOK
      <4> QED BY <2>2, <4>1, <4>2
    <3>2. my.followers \in Seq(Users) /\ my.followers # <<>> /\ my.list \in Seq(PostIds)
      <4>1. my \in [followers : Seq(Users) \ {<<>>}, list : Seq(PostIds)]
        BY <1>5, <1>8, <1>9, <2>2 DEF LocalsAt
      <4> QED BY <4>1
    <3>3. PICK u : u = Head(my.followers) OBVIOUS
    <3>4. u \in Users BY <3>2, <3>3, HeadTailProperties
    <3>5. my.list = Line("home", u) BY <2>2, <3>3
    <3>6. ListOK(my.list, "home", u, DOMAIN posts, log) BY <1>7, <1>8, <3>4, <3>5
    <3>7. ListOK(my.list, "home", u, DOMAIN posts, log)' BY <1>6, <1>8, <3>2, <3>4, <3>6
    <3>8. FrameNow(c, g)'
      BY <1>2, <1>5, <1>8, <1>9, <2>1, <2>2, <3>1, <3>3, <3>7 DEF FrameNow, FrameOK
    <3>9. TopNow(c, g)' BY <1>2, <1>5, <1>8, <1>9, <2>2 DEF TopNow, TopOK
    <3> QED BY <3>8, <3>9 DEF g
  <2>3. CASE f.at = "loaded" /\ place = "next" /\ my.followers = Tail(f.my.followers)
    <3>1. Fanned(c, f.req.user, f.my.followers, log, raced)' BY <1>9, <2>3 DEF FrameNow, FrameOK
    <3>2. f.my.followers \in Seq(Users) /\ f.my.followers # <<>> /\ Head(f.my.followers) \in Users
      BY <1>1, <1>9, <2>3, FrameTypes
    <3>3. PICK u : u = Head(f.my.followers) OBVIOUS
    <3>4. Elements(f.my.followers) \subseteq {u} \cup Elements(my.followers)
      BY <2>3, <3>2, <3>3, HeadOrTail
    <3>5. Lined(c, "home", u) BY <1>8, <1>9, <2>3, <3>3, LoadedLined
    <3>6. <<c, 1>> \in Elements(log'["home"][u]) BY <1>8, <3>2, <3>3, <3>5, LinedLog
    <3>7. Fanned(c, f.req.user, my.followers, log, raced)'
      <4>1. \A h : h \in Elements(f.my.followers) => h = u \/ h \in Elements(my.followers) BY <3>4
      <4> QED BY <3>1, <3>6, <4>1 DEF Fanned
    <3>8. FrameNow(c, g)'
      BY <1>2, <1>5, <1>8, <1>9, <2>1, <2>3, <3>7 DEF FrameNow, FrameOK
    <3>9. TopNow(c, g)' BY <1>2, <1>5, <1>8, <1>9, <2>3 DEF TopNow, TopOK
    <3> QED BY <3>8, <3>9 DEF g
  <2> QED BY <1>9, <2>2, <2>3 DEF GoesTo
<1>10. CASE f.ep = "write_user_timeline"
  <2>1. place = "loaded" /\ my = Line("user", f.req.user) BY <1>10 DEF GoesTo
  <2>2. my \in Seq(PostIds) BY <1>5, <1>8, <1>10, <2>1 DEF LocalsAt
  <2>3. PICK u : u = f.req.user OBVIOUS
  <2>4. u \in Users BY <1>5, <1>8, <1>10, <2>3
  <2>5. ListOK(my, "user", u, DOMAIN posts, log) BY <1>7, <1>8, <2>1, <2>3, <2>4
  <2>6. ListOK(my, "user", u, DOMAIN posts, log)' BY <1>6, <1>8, <2>2, <2>4, <2>5
  <2>7. FrameNow(c, g)' BY <1>2, <1>5, <1>8, <1>10, <2>1, <2>3, <2>6 DEF FrameNow, FrameOK
  <2>8. TopNow(c, g)' BY <1>2, <1>5, <1>8, <1>10, <2>1 DEF TopNow, TopOK
  <2> QED BY <2>7, <2>8 DEF g
<1> QED BY <1>3, <1>4, <1>9, <1>10 DEF Writers

\* What is asked for at a place.
LEMMA AskedAt ==
  ASSUME NEW e, NEW p, NEW d, <<e, p, d>> \in Sites
  PROVE  /\ p = "stored" => d = "store_post"
         /\ p = "storedAll" => d = "store_post_multi"
         /\ p = "wroteUser" => d = "write_user_timeline"
         /\ p = "wroteHome" => d = "write_home_timeline"
         /\ p = "gotFollowers" => d = "ro_get_followers"
BY DEF Sites

LEMMA DeeperOK ==
  ASSUME CallsOK, NEW c \in Clients, call[c] # <<>>,
         NEW f, f = call[c][1], FrameNow(c, f)', TopNow(c, f)',
         NEW place, NEW e, NEW q, NEW my, <<f.ep, place, e>> \in Sites, Seeks(f, e, q, my)
  PROVE  /\ FrameNow(c, Frame(e, q))' /\ TopNow(c, Frame(e, q))'
         /\ FrameNow(c, Gone(f, place, my))'
<1>1. f \in Frames(c) BY StackOf
<1> DEFINE g == Gone(f, place, my)
           h == Frame(e, q)
<1>2. g.ep = f.ep /\ g.req = f.req /\ g.at = place /\ g.my = my
  <2>1. f = [ep |-> f.ep, req |-> f.req, at |-> f.at, my |-> f.my, res |-> f.res]
    BY <1>1, FrameParts
  <2>2. DOMAIN f = {"ep", "req", "at", "my", "res"} BY <2>1
  <2> QED BY <2>2 DEF Gone
<1>3. h.ep = e /\ h.req = q /\ h.at = "start" BY DEF Frame
<1>4. SameUser(h, f) BY DEF Seeks
<1> HIDE DEF g, h
<1>5. /\ e = "write_user_timeline" => f.ep \in Composers /\ place = "wroteUser"
      /\ e = "write_home_timeline" => f.ep \in Composers /\ place = "wroteHome"
      /\ f.ep \in Composers \cup Readers \cup {"write_home_timeline"}
      /\ place = "wroteUser" => e = "write_user_timeline"
      /\ place = "wroteHome" => e = "write_home_timeline"
      /\ place # "loaded" /\ place # "next"
  <2>1. place \notin PauseNames BY SiteNames
  <2> QED BY <2>1, WaitsFor, AskedAt DEF PauseNames
<1>6. f.ep \in Composers => f.ep # "write_home_timeline" /\ f.ep # "write_user_timeline" /\ f.ep \notin Writers
  BY DEF Composers, Writers
<1>7. e \in Writers => Elements(my) \subseteq (DOMAIN posts)' /\ q.posts = my
  <2>1. CASE e = "write_user_timeline"
    <3>1. CASE f.ep = "compose_post" /\ f.at = "stored" /\ my = <<f.res.post>>
      <4>1. f.res.post \in (DOMAIN posts)' BY <3>1 DEF TopNow, TopOK
      <4>2. Elements(<<f.res.post>>) = {f.res.post}
        <5> DEFINE x == f.res.post
        <5> HIDE DEF x
        <5>1. Elements(<<x>>) = {x} BY DEF Elements
        <5> QED BY <5>1 DEF x
      <4> QED BY <2>1, <3>1, <4>1, <4>2 DEF Seeks, Writers
    <3>2. CASE f.ep = "compose_post_multi" /\ f.at = "storedAll" /\ my = f.res.posts
      BY <2>1, <3>2 DEF TopNow, TopOK, Seeks, Writers
    <3> QED BY <2>1, <3>1, <3>2 DEF Seeks
  <2>2. CASE e = "write_home_timeline"
    <3>1. f.at = "wroteUser" /\ my = f.my BY <2>2 DEF Seeks
    <3>2. Elements(f.my) \subseteq (DOMAIN posts)' BY <1>5, <2>2, <3>1 DEF FrameNow, FrameOK
    <3> QED BY <2>2, <3>1, <3>2 DEF Seeks, Writers
  <2> QED BY <2>1, <2>2 DEF Writers
<1>8. e = "write_home_timeline" => Authored(c, f.req.creator, log)' /\ q.user = f.req.creator
  <2>1. e = "write_home_timeline" => f.at = "wroteUser" BY DEF Seeks
  <2>2. e = "write_home_timeline" => e \in Writers BY DEF Writers
  <2> QED BY <1>3, <1>4, <1>5, <2>1, <2>2 DEF TopNow, TopOK, SameUser
<1>9. FrameNow(c, h)'
  <2>1. e \notin Composers BY WaitsFor DEF Composers, Stores, Writers
  <2> QED BY <1>3, <1>7, <1>8, <2>1 DEF FrameNow, FrameOK
<1>10. TopNow(c, h)' BY <1>3 DEF TopNow, TopOK
<1>11. FrameNow(c, g)'
  <2>1. f.ep \in Writers => f.ep = "write_home_timeline" BY <1>5 DEF Composers, Readers, Writers
  <2>2. "write_user_timeline" \in Writers /\ "write_home_timeline" \in Writers BY DEF Writers
  <2>3. CASE f.ep \in Composers
    BY <1>2, <1>5, <1>6, <1>7, <1>8, <2>2, <2>3 DEF FrameNow, FrameOK
  <2>4. CASE f.ep \notin Composers BY <1>2, <1>5, <2>1, <2>2, <2>4 DEF FrameNow, FrameOK
  <2> QED BY <2>3, <2>4
<1> QED BY <1>9, <1>10, <1>11 DEF g, h

LEMMA WroteHomeDone ==
  ASSUME NEW c, NEW f, FrameNow(c, f)', TopNow(c, f)', f.ep = "write_home_timeline",
         f.at \in {"gotFollowers", "next"}, Left(f) = <<>>
  PROVE  Fanned(c, f.req.user, <<>>, log, raced)'
<1>1. CASE f.at = "gotFollowers" BY <1>1 DEF TopNow, TopOK, Left
<1>2. CASE f.at = "next" BY <1>2 DEF FrameNow, FrameOK, Left
<1> QED BY <1>1, <1>2

LEMMA BackOK ==
  ASSUME CallsOK, StatesOK, StatesOK', GraphOK, NEW c \in Clients, call[c] # <<>>, Changed(c),
         Grows, NEW f, f = call[c][1], FrameNow(c, f)', TopNow(c, f)',
         Len(call[c]) # 1, NEW g, g = call[c][2], FrameNow(c, g)',
         NEW r \in ReplyTo(c, f.ep), Gives(f, r)
  PROVE  FrameNow(c, Answered(g, r))' /\ TopNow(c, Answered(g, r))'
<1>1. f \in Frames(c) /\ g \in Frames(c) /\ <<g.ep, g.at, f.ep>> \in Sites /\ SameUser(f, g)
  BY StackOf, SecondOf
<1> DEFINE h == Answered(g, r)
<1>2. h.ep = g.ep /\ h.req = g.req /\ h.at = g.at /\ h.my = g.my /\ h.res = r
  <2>1. g = [ep |-> g.ep, req |-> g.req, at |-> g.at, my |-> g.my, res |-> g.res]
    BY <1>1, FrameParts
  <2>2. DOMAIN g = {"ep", "req", "at", "my", "res"} BY <2>1
  <2> QED BY <2>2 DEF Answered
<1> HIDE DEF h
<1>3. FrameNow(c, h)' BY <1>2 DEF FrameNow, FrameOK
<1>4. /\ g.at = "stored" => f.ep = "store_post"
      /\ g.at = "storedAll" => f.ep = "store_post_multi"
      /\ g.at = "wroteUser" => f.ep = "write_user_timeline"
      /\ g.at = "wroteHome" => f.ep = "write_home_timeline"
      /\ g.at = "gotFollowers" => f.ep = "ro_get_followers"
  BY <1>1, AskedAt
<1>5. "write_home_timeline" \in Writers /\ "write_user_timeline" \in Writers BY DEF Writers
<1>6. f.ep \in Writers => f.req.user \in Users /\ f.req.user = g.req.creator
  BY <1>1, FrameTypes DEF SameUser
<1>7. g.at = "stored" => r.post \in (DOMAIN posts)' BY <1>4 DEF Gives
<1>8. g.at = "storedAll" => Elements(r.posts) \subseteq (DOMAIN posts)' BY <1>4 DEF Gives
<1>9. g.at = "wroteUser" => Authored(c, g.req.creator, log)'
  <2> SUFFICES ASSUME g.at = "wroteUser" PROVE Authored(c, g.req.creator, log)' OBVIOUS
  <2>1. f.ep = "write_user_timeline" BY <1>4
  <2>2. f.at = "loaded" BY <2>1 DEF Gives
  <2>3. PICK u \in Users : u = f.req.user BY <1>5, <1>6, <2>1
  <2>4. Lined(c, "user", u) BY <1>5, <2>1, <2>2, <2>3, LoadedLined
  <2>5. "user" \in Kinds BY DEF Kinds
  <2>6. <<c, 1>> \in Elements(log'["user"][u]) BY <2>4, <2>5, LinedLog
  <2> QED BY <1>5, <1>6, <2>1, <2>3, <2>6 DEF Authored
<1>10. g.at = "wroteHome" => Fanned(c, g.req.creator, <<>>, log, raced)'
  <2> SUFFICES ASSUME g.at = "wroteHome" PROVE Fanned(c, g.req.creator, <<>>, log, raced)' OBVIOUS
  <2>1. f.ep = "write_home_timeline" BY <1>4
  <2>2. f.at \in {"gotFollowers", "next"} /\ Left(f) = <<>> BY <2>1 DEF Gives
  <2>3. Fanned(c, f.req.user, <<>>, log, raced)' BY <2>1, <2>2, WroteHomeDone
  <2> QED BY <1>5, <1>6, <2>1, <2>3
<1>11. g.at = "gotFollowers" => Fanned(c, g.req.user, r.followers, log, raced)'
  <2> SUFFICES ASSUME g.at = "gotFollowers" PROVE Fanned(c, g.req.user, r.followers, log, raced)'
    OBVIOUS
  <2>1. f.ep = "ro_get_followers" BY <1>4
  <2>2. PICK u : u = g.req.user OBVIOUS
  <2>3. f.req.user = u BY <1>1, <2>1, <2>2 DEF SameUser
  <2>4. r.followers = graph[u].followers BY <2>1, <2>3 DEF Gives
  <2>5. raced \subseteq raced' BY DEF Grows, More
  <2>6. u \in DOMAIN Populated /\ <<"graph", u>> \notin raced' =>
          Elements(Populated[u].followers) \subseteq Elements(r.followers)
    BY <2>4, <2>5 DEF GraphOK
  <2> QED BY <2>2, <2>6 DEF Fanned
<1>12. TopNow(c, h)' BY <1>2, <1>7, <1>8, <1>9, <1>10, <1>11 DEF TopNow, TopOK
<1> QED BY <1>3, <1>12 DEF h

LEMMA OverOK ==
  ASSUME CallsOK, NEW c \in Clients, call[c] # <<>>, Len(call[c]) = 1,
         NEW f, f = call[c][1], FrameNow(c, f)', TopNow(c, f)',
         NEW r, Gives(f, r), Over(c, TRUE, r)
  PROVE  AnswerOK(c, answer[c], log, raced)'
<1>1. f \in Frames(c) BY StackOf
<1>2. answer'[c] = [ep |-> f.ep, req |-> f.req, ok |-> TRUE, res |-> r] BY DEF Over, Bottom
<1>3. f.ep \in Composers => /\ f.req.creator \in Users
                            /\ Authored(c, f.req.creator, log)'
                            /\ Fanned(c, f.req.creator, <<>>, log, raced)'
  <2>1. f.ep \in Composers => f.at = "wroteHome" BY DEF Gives
  <2> QED BY <1>1, <2>1, FrameTypes DEF FrameNow, FrameOK, TopNow, TopOK
<1>4. PICK a : a = answer'[c] OBVIOUS
<1>5. a.ep = f.ep /\ a.req = f.req BY <1>2, <1>4
<1> QED BY <1>3, <1>4, <1>5 DEF AnswerOK

LEMMA FramesHandled ==
  ASSUME CallsOK, StatesOK, StatesOK', FramesOK, LinesOK, GraphOK, NEW c \in Clients, Handled(c)
  PROVE  FramesOK'
<1>1. call[c] # <<>> /\ Step(c) /\ Changed(c) BY DEF Handled
<1>2. CallsOK' /\ Others(c) /\ Outcome(c) BY <1>1, StepOK
<1>3. Grows BY <1>1, ChangedGrows
<1>4. More(DOMAIN posts, log, raced, (DOMAIN posts)', log', raced') BY <1>3 DEF Grows
<1>5. ASSUME NEW d \in Clients, call[d] # <<>>
      PROVE  /\ \A i \in 1 .. Len(call[d]) : FrameOK(d, call[d][i], (DOMAIN posts)', log', raced')
             /\ TopOK(d, call[d][1], (DOMAIN posts)', log', raced')
  <2>1. ASSUME NEW i \in 1 .. Len(call[d])
        PROVE FrameOK(d, call[d][i], (DOMAIN posts)', log', raced')
    <3>1. call[d][i] \in Frames(d) BY <1>5, StackOf
    <3>2. FrameOK(d, call[d][i], DOMAIN posts, log, raced) BY DEF FramesOK
    <3> QED BY <1>4, <3>1, <3>2, FrameStays
  <2>2. TopOK(d, call[d][1], (DOMAIN posts)', log', raced')
    <3>1. call[d][1] \in Frames(d) BY <1>5, StackOf
    <3>2. TopOK(d, call[d][1], DOMAIN posts, log, raced) BY <1>5 DEF FramesOK
    <3> QED BY <1>4, <3>1, <3>2, TopStays
  <2> QED BY <2>1, <2>2
<1>6. ASSUME NEW d \in Clients PROVE AnswerOK(d, answer[d], log', raced')
  BY <1>4, AnswerStays DEF FramesOK
<1> DEFINE Good(d) ==
      /\ \A i \in 1 .. Len(call'[d]) : FrameOK(d, call'[d][i], (DOMAIN posts)', log', raced')
      /\ call'[d] # <<>> => TopOK(d, call'[d][1], (DOMAIN posts)', log', raced')
      /\ AnswerOK(d, answer'[d], log', raced')
<1>7. ASSUME NEW d \in Clients, d # c PROVE Good(d)
  <2>1. call'[d] = call[d] /\ answer'[d] = answer[d] BY <1>2, <1>7 DEF Others
  <2>2. CASE call[d] = <<>>
    <3>1. Len(call'[d]) = 0 BY <2>1, <2>2, EmptySeq
    <3>2. 1 .. Len(call'[d]) = {} BY <3>1
    <3> QED BY <1>6, <2>1, <2>2, <3>2
  <2>3. CASE call[d] # <<>> BY <1>5, <1>6, <2>1, <2>3
  <2> QED BY <2>2, <2>3
<1>8. Good(c)
  <2>1. PICK f : f = call[c][1] OBVIOUS
  <2>2. /\ Len(call[c]) \in Nat /\ Len(call[c]) >= 1 /\ f \in Frames(c) /\ 1 \in 1 .. Len(call[c])
        /\ answer[c].ep = "none"
    BY <1>1, <2>1, StackOf
  <2>3. FrameNow(c, f)' /\ TopNow(c, f)'
    <3>1. /\ FrameOK(c, f, (DOMAIN posts)', log', raced')
          /\ TopOK(c, f, (DOMAIN posts)', log', raced')
      BY <1>1, <1>5, <2>1, <2>2
    <3> QED BY <3>1 DEF FrameNow, TopNow
  <2>4. \A i \in 1 .. Len(call[c]) : FrameOK(c, call[c][i], (DOMAIN posts)', log', raced')
    BY <1>1, <1>5
  <2>5. ASSUME NEW ok, NEW r, Over(c, ok, r), ok = FALSE \/ AnswerOK(c, answer'[c], log', raced')
        PROVE  Good(c)
    <3>1. call'[c] = <<>> /\ answer'[c].ok = ok BY <2>5 DEF Over
    <3>2. AnswerOK(c, answer'[c], log', raced') BY <2>5, <3>1 DEF AnswerOK
    <3>3. Len(call'[c]) = 0 BY <3>1, EmptySeq
    <3>4. 1 .. Len(call'[c]) = {} BY <3>3
    <3> QED BY <3>1, <3>2, <3>4
  <2>6. CASE Over(c, FALSE, <<>>) BY <2>5, <2>6
  <2>7. ASSUME NEW r \in ReplyTo(c, f.ep), Gives(f, r), Len(call[c]) = 1, Over(c, TRUE, r)
        PROVE  Good(c)
    <3>1. AnswerOK(c, answer[c], log, raced)' BY <1>1, <2>1, <2>3, <2>7, OverOK
    <3> QED BY <2>5, <2>7, <3>1
  <2>8. ASSUME NEW r \in ReplyTo(c, f.ep), Gives(f, r), Back(c, r)
        PROVE  Good(c)
    <3>1. Len(call[c]) > 1 /\ Len(call[c]) # 1 /\ 2 \in 1 .. Len(call[c]) BY <2>2, <2>8 DEF Back
    <3>2. PICK g : g = call[c][2] OBVIOUS
    <3>3. FrameNow(c, g)' BY <2>4, <3>1, <3>2 DEF FrameNow
    <3>4. PICK h : h = Answered(g, r) OBVIOUS
    <3>5. FrameNow(c, Answered(g, r))' /\ TopNow(c, Answered(g, r))'
      BY <1>1, <1>3, <2>1, <2>3, <2>8, <3>1, <3>2, <3>3, BackOK
    <3>6. FrameNow(c, h)' /\ TopNow(c, h)' BY <3>4, <3>5
    <3>7. /\ call'[c][1] = h /\ Len(call'[c]) = Len(call[c]) - 1 /\ answer'[c] = answer[c]
          /\ \A i \in 2 .. Len(call[c]) - 1 : call'[c][i] = call[c][i + 1]
      BY <2>8, <3>2, <3>4 DEF Back
    <3>8. ASSUME NEW i \in 1 .. Len(call'[c])
          PROVE  FrameOK(c, call'[c][i], (DOMAIN posts)', log', raced')
      <4>1. CASE i = 1 BY <3>6, <3>7, <4>1 DEF FrameNow
      <4>2. CASE i # 1
        <5>1. \A n \in Nat : i \in 1 .. n - 1 /\ i # 1 => i \in 2 .. n - 1 /\ i + 1 \in 1 .. n
          BY <4>2
        <5>2. i \in 2 .. Len(call[c]) - 1 /\ i + 1 \in 1 .. Len(call[c]) BY <2>2, <3>7, <4>2, <5>1
        <5>3. call'[c][i] = call[c][i + 1] BY <3>7, <5>2
        <5> QED BY <2>4, <5>2, <5>3
      <4> QED BY <4>1, <4>2
    <3>9. TopOK(c, call'[c][1], (DOMAIN posts)', log', raced') BY <3>6, <3>7 DEF TopNow
    <3>10. AnswerOK(c, answer'[c], log', raced') BY <1>6, <3>7
    <3> QED BY <3>8, <3>9, <3>10
  <2>9. ASSUME NEW place \in PlaceNames, NEW my \in LocalsAt(c, f.ep, place),
               GoesTo(f, place, my), Went(c, place, my)
        PROVE  Good(c)
    <3>4. PICK h : h = Gone(f, place, my) OBVIOUS
    <3>5. FrameNow(c, Gone(f, place, my))' /\ TopNow(c, Gone(f, place, my))'
      BY <1>1, <1>3, <2>1, <2>3, <2>9, WentOK
    <3>6. FrameNow(c, h)' /\ TopNow(c, h)' BY <3>4, <3>5
    <3>7. /\ call'[c][1] = h /\ Len(call'[c]) = Len(call[c]) /\ answer'[c] = answer[c]
          /\ \A i \in 2 .. Len(call[c]) : call'[c][i] = call[c][i]
      BY <2>1, <2>9, <3>4 DEF Went
    <3>8. ASSUME NEW i \in 1 .. Len(call'[c])
          PROVE  FrameOK(c, call'[c][i], (DOMAIN posts)', log', raced')
      <4>1. CASE i = 1 BY <3>6, <3>7, <4>1 DEF FrameNow
      <4>2. CASE i # 1
        <5>1. \A n \in Nat : i \in 1 .. n /\ i # 1 => i \in 2 .. n BY <4>2
        <5>2. i \in 2 .. Len(call[c]) /\ i \in 1 .. Len(call[c]) BY <2>2, <3>7, <4>2, <5>1
        <5>3. call'[c][i] = call[c][i] BY <3>7, <5>2
        <5> QED BY <2>4, <5>2, <5>3
      <4> QED BY <4>1, <4>2
    <3>9. TopOK(c, call'[c][1], (DOMAIN posts)', log', raced') BY <3>6, <3>7 DEF TopNow
    <3>10. AnswerOK(c, answer'[c], log', raced') BY <1>6, <3>7
    <3> QED BY <3>8, <3>9, <3>10
  <2>10. ASSUME NEW place \in PlaceNames, NEW e \in Eps, NEW my \in LocalsAt(c, f.ep, place),
                NEW q \in RequestFor(c, e), <<f.ep, place, e>> \in Sites, Seeks(f, e, q, my),
                Deeper(c, e, q, place, my)
         PROVE  Good(c)
    <3>3. PICK g : g = Gone(f, place, my) OBVIOUS
    <3>4. PICK h : h = Frame(e, q) OBVIOUS
    <3>5. /\ FrameNow(c, Frame(e, q))' /\ TopNow(c, Frame(e, q))'
          /\ FrameNow(c, Gone(f, place, my))'
      BY <1>1, <2>1, <2>3, <2>10, DeeperOK
    <3>6. FrameNow(c, h)' /\ TopNow(c, h)' /\ FrameNow(c, g)' BY <3>3, <3>4, <3>5
    <3>7. /\ call'[c][1] = h /\ call'[c][2] = g /\ Len(call'[c]) = Len(call[c]) + 1
          /\ answer'[c] = answer[c]
          /\ \A i \in 3 .. Len(call[c]) + 1 : call'[c][i] = call[c][i - 1]
      BY <2>1, <2>10, <3>3, <3>4 DEF Deeper
    <3>8. ASSUME NEW i \in 1 .. Len(call'[c])
          PROVE  FrameOK(c, call'[c][i], (DOMAIN posts)', log', raced')
      <4>1. CASE i = 1 BY <3>6, <3>7, <4>1 DEF FrameNow
      <4>2. CASE i = 2 BY <3>6, <3>7, <4>2 DEF FrameNow
      <4>3. CASE i # 1 /\ i # 2
        <5>1. \A n \in Nat : i \in 1 .. n + 1 /\ i # 1 /\ i # 2 =>
                i \in 3 .. n + 1 /\ i - 1 \in 1 .. n
          BY <4>3
        <5>2. i \in 3 .. Len(call[c]) + 1 /\ i - 1 \in 1 .. Len(call[c])
          BY <2>2, <3>7, <4>3, <5>1
        <5>3. call'[c][i] = call[c][i - 1] BY <3>7, <5>2
        <5> QED BY <2>4, <5>2, <5>3
      <4> QED BY <4>1, <4>2, <4>3
    <3>9. TopOK(c, call'[c][1], (DOMAIN posts)', log', raced') BY <3>6, <3>7 DEF TopNow
    <3>10. AnswerOK(c, answer'[c], log', raced') BY <1>6, <3>7
    <3> QED BY <3>8, <3>9, <3>10
  <2> HIDE DEF Good
  <2> QED BY <1>2, <2>1, <2>6, <2>7, <2>8, <2>9, <2>10 DEF Outcome
<1>9. \A d \in Clients : Good(d) BY <1>7, <1>8
<1> QED BY <1>9 DEF FramesOK

-----------------------------------------------------------------------------
(* A step keeps the timelines, and what requests hold of them and of the   *)
(* vertices.                                                               *)

LEMMA HoldsIs ==
  ASSUME CallsOK, NEW c \in Clients, NEW kind, NEW u
  PROVE  holds(c, kind, u) <=> call[c] # <<>> /\ Holder(call[c][1], kind, u)
<1>1. CASE call[c] = <<>> BY <1>1 DEF holds
<1>2. CASE call[c] # <<>>
  <2>1. Head(call[c]) = call[c][1] BY <1>2, StackOf
  <2> QED BY <1>2, <2>1 DEF holds, Holder, Serving, At, Req, My
<1> QED BY <1>1, <1>2

\* What is written is raced if someone else holds it.
LEMMA WrittenRaces ==
  ASSUME NEW c, Changed(c), NEW kind \in Kinds \cup {"graph"}, NEW u \in Users
  PROVE  Now(kind, u)' = Now(kind, u) \/ Races(c, kind, u) \subseteq raced'
<1>1. CASE UNCHANGED <<graph, userTimelines, homeTimelines>>
  BY <1>1 DEF Now, VertexOf, Line
<1>2. CASE UNCHANGED state BY <1>1, <1>2 DEF state
<1>3. CASE Stored(c) BY <1>1, <1>3 DEF Stored
<1>4. ASSUME NEW w \in Users, NEW v \in SGVertex, Vertexed(c, w, v)
      PROVE  Now(kind, u)' = Now(kind, u) \/ Races(c, kind, u) \subseteq raced'
  <2>1. graph' = SetState(graph, w, v) /\ UNCHANGED <<userTimelines, homeTimelines>>
    BY <1>4 DEF Vertexed
  <2>2. CASE kind \in Kinds
    <3>1. kind # "graph" BY <2>2 DEF Kinds
    <3> QED BY <2>1, <3>1 DEF Now, Line
  <2>3. CASE kind = "graph" /\ u = w BY <1>4, <2>3 DEF Vertexed
  <2>4. CASE kind = "graph" /\ u # w
    <3>1. VertexOf(u)' = VertexOf(u) BY <2>1, <2>4 DEF VertexOf, SetState, Has
    <3> QED BY <2>4, <3>1 DEF Now
  <2> QED BY <2>2, <2>3, <2>4
<1>5. ASSUME NEW k \in Kinds, NEW w \in Users, Lined(c, k, w)
      PROVE  Now(kind, u)' = Now(kind, u) \/ Races(c, kind, u) \subseteq raced'
  <2>1. /\ \A x \in Kinds, y \in Users : <<x, y>> # <<k, w>> => Line(x, y)' = Line(x, y)
        /\ Races(c, k, w) \subseteq raced' /\ UNCHANGED graph
    BY <1>5 DEF Lined, Appends
  <2>2. CASE kind \in Kinds /\ <<kind, u>> # <<k, w>>
    <3>1. kind # "graph" BY <2>2 DEF Kinds
    <3> QED BY <2>1, <2>2, <3>1 DEF Now
  <2>3. CASE <<kind, u>> = <<k, w>> BY <2>1, <2>3
  <2>4. CASE kind = "graph" BY <2>1, <2>4 DEF Now, VertexOf
  <2> QED BY <2>2, <2>3, <2>4
<1> QED BY <1>2, <1>3, <1>4, <1>5 DEF Changed

\* A handler that reads writes nothing.
LEMMA ReadersStay ==
  ASSUME NEW c, Changed(c), NEW f, f = call[c][1], f.ep \in {"follow"} \cup Writers,
         f.at \notin {"loaded", "gotFollower", "gotFollowee"}
  PROVE  /\ \A u \in Users : Now("graph", u)' = Now("graph", u)
         /\ \A kind \in Kinds, u \in Users : Now(kind, u)' = Now(kind, u)
<1>1. f.ep \notin Stores /\ f.ep \notin {"insert_user", "follow_multi"} BY DEF Stores, Writers
<1>2. ~Stored(c) /\ \A kind, u : ~Lined(c, kind, u) BY <1>1 DEF Stored, Lined
<1>3. \A u, v : ~Vertexed(c, u, v) BY <1>1 DEF Vertexed, VertexIs
<1>4. UNCHANGED state BY <1>2, <1>3 DEF Changed
<1> QED BY <1>4 DEF state, Now, VertexOf, Line

LEMMA HeldHandled ==
  ASSUME CallsOK, StatesOK, StatesOK', HeldOK, NEW c \in Clients, Handled(c)
  PROVE  HeldOK'
<1>1. call[c] # <<>> /\ Step(c) /\ Changed(c) BY DEF Handled
<1>2. CallsOK' /\ Others(c) /\ Outcome(c) BY <1>1, StepOK
<1>3. Grows BY <1>1, ChangedGrows
<1>4. raced \subseteq raced' BY <1>3 DEF Grows, More
<1>5. ASSUME NEW d \in Clients, d # c, NEW kind \in Kinds \cup {"graph"}, NEW u \in Users,
             call'[d] # <<>>, Holder(call'[d][1], kind, u), <<kind, u>> \notin raced'
      PROVE  Copy(call'[d][1], kind) = Now(kind, u)'
  <2>1. call'[d] = call[d] BY <1>2, <1>5 DEF Others
  <2>2. Copy(call[d][1], kind) = Now(kind, u) BY <1>4, <1>5, <2>1 DEF HeldOK
  <2>3. holds(d, kind, u) BY <1>5, <2>1, HoldsIs
  <2>4. Races(c, kind, u) = {<<kind, u>>} BY <1>5, <2>3 DEF Races
  <2>5. Now(kind, u)' = Now(kind, u) BY <1>1, <1>5, <2>4, WrittenRaces
  <2> QED BY <2>1, <2>2, <2>5
<1>6. ASSUME NEW kind \in Kinds \cup {"graph"}, NEW u \in Users,
             call'[c] # <<>>, Holder(call'[c][1], kind, u)
      PROVE  Copy(call'[c][1], kind) = Now(kind, u)'
  <2>1. PICK f : f = call[c][1] OBVIOUS
  <2>2. PICK g : g = call'[c][1] OBVIOUS
  <2>3. f \in Frames(c) BY <1>1, <2>1, StackOf
  <2>4. g.at \in PauseNames
    BY <1>6, <2>2 DEF Holder, PauseNames
  <2>5. ~Over(c, FALSE, <<>>) /\ \A r : ~Over(c, TRUE, r) BY <1>6 DEF Over
  <2>6. ASSUME NEW r \in ReplyTo(c, f.ep), Back(c, r),
               <<call[c][2].ep, call[c][2].at, f.ep>> \in Sites
        PROVE  FALSE
    <3>1. Len(call[c]) # 1 /\ g = Answered(call[c][2], r)
      <4>1. Len(call[c]) > 1 /\ call'[c][1] = Answered(call[c][2], r) BY <2>6 DEF Back
      <4>2. Len(call[c]) # 1 BY <1>1, <4>1, StackOf
      <4> QED BY <2>2, <4>1, <4>2
    <3>2. PICK h : h = call[c][2] OBVIOUS
    <3>3. h \in Frames(c) BY <1>1, <3>1, <3>2, SecondOf
    <3>4. h = [ep |-> h.ep, req |-> h.req, at |-> h.at, my |-> h.my, res |-> h.res]
      BY <3>3, FrameParts
    <3>5. g.at = h.at
      <4>1. DOMAIN h = {"ep", "req", "at", "my", "res"} BY <3>4
      <4> QED BY <3>1, <3>2, <4>1 DEF Answered
    <3>6. <<h.ep, h.at, f.ep>> \in Sites BY <2>6, <3>2
    <3>7. h.at \notin PauseNames BY <3>6, SiteNames
    <3> QED BY <2>4, <3>5, <3>7
  <2>7. ASSUME NEW e, NEW q, NEW place, NEW my, Deeper(c, e, q, place, my) PROVE FALSE
    <3>1. g = Frame(e, q) BY <2>2, <2>7 DEF Deeper
    <3>2. g.at = "start" BY <3>1 DEF Frame
    <3> QED BY <2>4, <3>2 DEF PauseNames
  <2>8. ASSUME NEW place \in PlaceNames, NEW my \in LocalsAt(c, f.ep, place),
               GoesTo(f, place, my), Went(c, place, my)
        PROVE  Copy(g, kind) = Now(kind, u)'
    <3>1. g = Gone(f, place, my) BY <2>1, <2>2, <2>8 DEF Went
    <3>2. g.ep = f.ep /\ g.req = f.req /\ g.at = place /\ g.my = my
      <4>1. f = [ep |-> f.ep, req |-> f.req, at |-> f.at, my |-> f.my, res |-> f.res]
        BY <2>3, FrameParts
      <4>2. DOMAIN f = {"ep", "req", "at", "my", "res"} BY <4>1
      <4> QED BY <3>1, <4>2 DEF Gone
    <3>3. Holder(g, kind, u) BY <1>6, <2>2
    <3>4. CASE kind = "graph"
      <4>1. /\ f.ep = "follow"
            /\ \/ place = "gotFollower" /\ f.req.follower = u
               \/ place = "gotFollowee" /\ f.req.followee = u
        BY <3>2, <3>3, <3>4 DEF Holder
      <4>2. my = VertexOf(u) /\ f.at \in {"start", "wroteFollower"} BY <2>8, <4>1 DEF GoesTo
      <4>3. Now("graph", u)' = Now("graph", u) BY <1>1, <2>1, <4>1, <4>2, ReadersStay
      <4> QED BY <3>2, <3>4, <4>2, <4>3 DEF Copy, Now
    <3>5. CASE kind = "home"
      <4>1. f.ep = "write_home_timeline" /\ place = "loaded" /\ Head(my.followers) = u
        BY <3>2, <3>3, <3>5 DEF Holder
      <4>2. my.list = Line("home", u) /\ f.at \in {"gotFollowers", "next"}
        BY <2>8, <4>1 DEF GoesTo
      <4>3. f.ep \in Writers /\ "home" \in Kinds BY <4>1 DEF Writers, Kinds
      <4>4. Now("home", u)' = Now("home", u) BY <1>1, <2>1, <4>2, <4>3, ReadersStay
      <4> QED BY <3>2, <3>5, <4>2, <4>4 DEF Copy, Now
    <3>6. CASE kind = "user"
      <4>1. f.ep = "write_user_timeline" /\ place = "loaded" /\ f.req.user = u
        BY <3>2, <3>3, <3>6 DEF Holder
      <4>2. my = Line("user", u) /\ f.at = "start" BY <2>8, <4>1 DEF GoesTo
      <4>3. f.ep \in Writers /\ "user" \in Kinds BY <4>1 DEF Writers, Kinds
      <4>4. Now("user", u)' = Now("user", u) BY <1>1, <2>1, <4>2, <4>3, ReadersStay
      <4> QED BY <3>2, <3>6, <4>2, <4>4 DEF Copy, Now
    <3> QED BY <3>4, <3>5, <3>6 DEF Kinds
  <2> QED BY <1>2, <2>1, <2>2, <2>5, <2>6, <2>7, <2>8 DEF Outcome
<1>7. \A d \in Clients, kind \in Kinds \cup {"graph"}, u \in Users :
        call'[d] # <<>> /\ Holder(call'[d][1], kind, u) /\ <<kind, u>> \notin raced'
        => Copy(call'[d][1], kind) = Now(kind, u)'
  BY <1>5, <1>6
<1> QED BY <1>7 DEF HeldOK

\* A timeline that is left alone.
LEMMA LineStays ==
  ASSUME StatesOK, LinesOK, Grows, NEW kind \in Kinds, NEW u \in Users,
         Line(kind, u)' = Line(kind, u), log'[kind][u] = log[kind][u]
  PROVE  /\ ListOK(Line(kind, u), kind, u, DOMAIN posts, log)'
         /\ <<kind, u>> \notin raced' => Tailed(Line(kind, u), log[kind][u])'
<1>1. More(DOMAIN posts, log, raced, (DOMAIN posts)', log', raced') BY DEF Grows
<1>2. PICK list : list = Line(kind, u) OBVIOUS
<1>3. list \in Seq(PostIds) BY <1>2, Reads
<1>4. ListOK(list, kind, u, DOMAIN posts, log) BY <1>2 DEF LinesOK
<1>5. ListOK(list, kind, u, (DOMAIN posts)', log') BY <1>1, <1>3, <1>4, KnownStays
<1>6. <<kind, u>> \notin raced' => Tailed(list, log[kind][u]) BY <1>1, <1>2 DEF LinesOK, More
<1> QED BY <1>2, <1>5, <1>6

LEMMA LineWritten ==
  ASSUME CallsOK, StatesOK, StatesOK', FramesOK, LinesOK, HeldOK, NEW c \in Clients,
         call[c] # <<>>, NEW kind \in Kinds, NEW u \in Users, Lined(c, kind, u)
  PROVE  /\ ListOK(Line(kind, u), kind, u, DOMAIN posts, log)'
         /\ <<kind, u>> \notin raced' => Tailed(Line(kind, u), log[kind][u])'
<1>1. PICK f : f = call[c][1] OBVIOUS
<1>2. PICK ids : ids = f.req.posts OBVIOUS
<1>3. PICK list : list = Copy(f, kind) OBVIOUS
<1>4. f \in Frames(c) /\ 1 \in 1 .. Len(call[c])
  <2>1. f \in Frames(c) /\ Len(call[c]) \in Nat /\ Len(call[c]) >= 1 BY <1>1, StackOf
  <2> QED BY <2>1
<1>5. /\ f.at = "loaded"
      /\ \/ f.ep = "write_home_timeline" /\ kind = "home" /\ u = Head(f.my.followers)
         \/ f.ep = "write_user_timeline" /\ kind = "user" /\ u = f.req.user
      /\ Line(kind, u)' = Written(list, ids)
      /\ raced' = raced \cup Races(c, kind, u) /\ UNCHANGED posts
  BY <1>1, <1>2, <1>3 DEF Lined, Appends
<1>6. ids \in Batch(c) /\ log'[kind][u] = log[kind][u] \o ids
  <2>1. /\ call[c][1].req.posts \in Batch(c)
        /\ log'[kind][u] = log[kind][u] \o call[c][1].req.posts
    BY LinedLog
  <2> QED BY <1>1, <1>2, <2>1
<1>7. FrameOK(c, f, DOMAIN posts, log, raced) BY <1>1, <1>4 DEF FramesOK
<1>8. list \in Seq(PostIds) BY <1>3, <1>4, <1>5, FrameTypes DEF Copy
<1>9. ListOK(list, kind, u, DOMAIN posts, log)
  BY <1>3, <1>5, <1>7 DEF Copy, FrameOK
<1>10. Elements(ids) \subseteq DOMAIN posts
  <2>1. f.ep \in Writers BY <1>5 DEF Writers
  <2> QED BY <1>2, <1>7, <2>1 DEF FrameOK
<1>11. ids \in Seq(PostIds) BY <1>6, BatchParts
<1>12. log[kind][u] \in Seq(PostIds) BY DEF StatesOK
<1>13. PICK s : s = log[kind][u] OBVIOUS
<1>14. s \in Seq(PostIds) /\ log'[kind][u] = s \o ids BY <1>6, <1>12, <1>13
<1>15. PICK w : w = Written(list, ids) OBVIOUS
<1>16. ListOK(w, kind, u, (DOMAIN posts)', log')
  <2>1. Elements(list) \subseteq DOMAIN posts /\ Len(list) <= MaxKept + Extra(s)
    BY <1>9, <1>13 DEF ListOK
  <2>2. Elements(w) \subseteq Elements(list) \cup Elements(ids) BY <1>8, <1>11, <1>15, WrittenParts
  <2>3. Len(w) <= MaxKept + Extra(s \o ids) BY <1>6, <1>8, <1>14, <1>15, <2>1, LenWritten
  <2>4. Len(w) <= MaxKept + Extra(log'[kind][u]) BY <1>14, <2>3
  <2>5. Elements(w) \subseteq (DOMAIN posts)' BY <1>5, <1>10, <2>1, <2>2
  <2> QED BY <2>4, <2>5 DEF ListOK
<1>17. ASSUME <<kind, u>> \notin raced' PROVE Tailed(w, log'[kind][u])
  <2>1. <<kind, u>> \notin raced BY <1>5, <1>17
  <2>2. Holder(f, kind, u) BY <1>5 DEF Holder
  <2>3. list = Line(kind, u)
    <3>1. kind # "graph" BY DEF Kinds
    <3>2. Copy(call[c][1], kind) = Now(kind, u) BY <1>1, <2>1, <2>2 DEF HeldOK
    <3> QED BY <1>1, <1>3, <3>1, <3>2 DEF Now
  <2>4. Tailed(list, s) BY <1>13, <2>1, <2>3 DEF LinesOK
  <2>5. Tailed(w, s \o ids) BY <1>6, <1>8, <1>14, <1>15, <2>4, TailedWritten
  <2> QED BY <1>14, <2>5
<1> QED BY <1>5, <1>15, <1>16, <1>17

LEMMA LinesHandled ==
  ASSUME CallsOK, StatesOK, StatesOK', FramesOK, LinesOK, HeldOK, NEW c \in Clients, Handled(c)
  PROVE  LinesOK'
<1>1. call[c] # <<>> /\ Changed(c) BY DEF Handled
<1>2. Grows BY <1>1, ChangedGrows
<1> DEFINE Good(kind, u) ==
      /\ ListOK(Line(kind, u), kind, u, DOMAIN posts, log)'
      /\ <<kind, u>> \notin raced' => Tailed(Line(kind, u), log[kind][u])'
<1>3. ASSUME UNCHANGED <<userTimelines, homeTimelines, log>>,
             NEW kind \in Kinds, NEW u \in Users
      PROVE  Good(kind, u)
  <2>1. Line(kind, u)' = Line(kind, u) /\ log'[kind][u] = log[kind][u] BY <1>3 DEF Line
  <2> QED BY <1>2, <2>1, LineStays
<1>4. ASSUME NEW k \in Kinds, NEW w \in Users, Lined(c, k, w), NEW kind \in Kinds, NEW u \in Users
      PROVE  Good(kind, u)
  <2>1. CASE <<kind, u>> # <<k, w>>
    <3>1. Line(kind, u)' = Line(kind, u) BY <1>4, <2>1 DEF Lined
    <3>2. log'[kind][u] = log[kind][u]
      <4>1. \A x \in Kinds, y \in Users : <<x, y>> # <<k, w>> => log'[x][y] = log[x][y]
        BY <1>1, <1>4, LinedLog
      <4> QED BY <2>1, <4>1
    <3> QED BY <1>2, <3>1, <3>2, LineStays
  <2>2. CASE <<kind, u>> = <<k, w>>
    <3>1. Lined(c, kind, u) BY <1>4, <2>2
    <3> QED BY <1>1, <3>1, LineWritten
  <2> QED BY <2>1, <2>2
<1> HIDE DEF Good
<1>5. \A kind \in Kinds, u \in Users : Good(kind, u)
  <2>1. \/ UNCHANGED <<userTimelines, homeTimelines, log>>
        \/ \E k \in Kinds : \E w \in Users : Lined(c, k, w)
    BY <1>1 DEF Changed, Stored, Vertexed, state
  <2> QED BY <1>3, <1>4, <2>1
<1> QED BY <1>5 DEF LinesOK, Good

-----------------------------------------------------------------------------
(* A step keeps both sides of the graph. *)

LEMMA FollowIs ==
  /\ \A w : Following(w) = Elements(VertexOf(w).followees)
  /\ \A w : Followed(w) = Elements(VertexOf(w).followers)
  /\ \A w : Has(graph, w) => VertexOf(w) = graph[w]
<1>1. Elements(NoVertex.followees) = {} /\ Elements(NoVertex.followers) = {}
  <2>1. NoVertex.followees = <<>> /\ NoVertex.followers = <<>> BY DEF NoVertex
  <2>2. Elements(<<>>) = {} BY DEF Elements
  <2> QED BY <2>1, <2>2
<1> QED BY <1>1 DEF Following, Followed, VertexOf

LEMMA ElementsAppended ==
  ASSUME NEW S, NEW s \in Seq(S), NEW x \in S
  PROVE  Elements(Append(s, x)) = Elements(s) \cup {x}
<1> DEFINE n == Append(s, x)
<1>1. /\ Len(s) \in Nat /\ Len(n) = Len(s) + 1 /\ n \in Seq(S)
      /\ \A i \in 1 .. Len(s) : n[i] = s[i]
      /\ n[Len(s) + 1] = x
  BY AppendProperties, LenProperties
<1>2. DOMAIN n = 1 .. Len(s) + 1 /\ DOMAIN s = 1 .. Len(s) BY <1>1, LenProperties
<1> HIDE DEF n
<1>3. \A k \in Nat : 1 .. k + 1 = (1 .. k) \cup {k + 1} OBVIOUS
<1>4. DOMAIN n = DOMAIN s \cup {Len(s) + 1} BY <1>1, <1>2, <1>3
<1>5. Elements(n) = Elements(s) \cup {x} BY <1>1, <1>2, <1>4 DEF Elements
<1> QED BY <1>5 DEF n

\* What is written to a vertex that was not raced.
LEMMA VertexChange ==
  ASSUME CallsOK, StatesOK, HeldOK, NEW c \in Clients, call[c] # <<>>, NEW u \in Users,
         NEW v \in SGVertex, Vertexed(c, u, v), <<"graph", u>> \notin raced',
         NEW f, f = call[c][1]
  PROVE  /\ Has(graph, u)'
         /\ \/ /\ f.ep # "follow"
               /\ Following(u)' = Following(u) /\ Followed(u)' = Followed(u)
            \/ /\ f.ep = "follow" /\ f.at = "gotFollower" /\ f.req.follower = u
               /\ Following(u)' = Following(u) \cup {f.req.followee}
               /\ Followed(u)' = Followed(u)
            \/ /\ f.ep = "follow" /\ f.at = "gotFollowee" /\ f.req.followee = u
               /\ Following(u)' = Following(u)
               /\ Followed(u)' = Followed(u) \cup {f.req.follower}
<1>1. f \in Frames(c) BY StackOf
<1>2. graph' = SetState(graph, u, v) /\ raced \subseteq raced' /\ VertexIs(f, u, v)
  BY DEF Vertexed
<1>3. Has(graph, u)' /\ graph'[u] = v BY <1>2 DEF SetState, Has
<1>4. Following(u)' = Elements(v.followees) /\ Followed(u)' = Elements(v.followers)
  BY <1>3 DEF Following, Followed
<1>5. Following(u) = Elements(VertexOf(u).followees) /\ Followed(u) = Elements(VertexOf(u).followers)
  BY FollowIs
<1>6. CASE f.ep # "follow"
  <2>1. f.ep = "insert_user" /\ v = NoVertex /\ ~Has(graph, u) BY <1>2, <1>6 DEF VertexIs
  <2>2. VertexOf(u) = v BY <2>1 DEF VertexOf
  <2> QED BY <1>3, <1>4, <1>5, <1>6, <2>2
<1>7. ASSUME f.ep = "follow"
      PROVE  /\ f.my \in SGVertex \/ f.at \notin {"gotFollower", "gotFollowee"}
             /\ f.req.follower \in Users /\ f.req.followee \in Users
  BY <1>1, <1>7, FrameTypes
<1>8. ASSUME f.ep = "follow", Holder(f, "graph", u) PROVE f.my = VertexOf(u)
  <2>1. Copy(call[c][1], "graph") = Now("graph", u) BY <1>2, <1>8 DEF HeldOK
  <2> QED BY <2>1 DEF Copy, Now
<1>9. ASSUME NEW x \in SGVertex, NEW w \in Users
      PROVE  /\ Elements([x EXCEPT !.followees = Append(@, w)].followees) = Elements(x.followees) \cup {w}
             /\ [x EXCEPT !.followees = Append(@, w)].followers = x.followers
             /\ Elements(AddFollower(x, w).followers) = Elements(x.followers) \cup {w}
             /\ AddFollower(x, w).followees = x.followees
  <2>1. x.followees \in Seq(Users) /\ x.followers \in Seq(Users) BY DEF SGVertex
  <2>2. /\ Elements(Append(x.followees, w)) = Elements(x.followees) \cup {w}
        /\ Elements(Append(x.followers, w)) = Elements(x.followers) \cup {w}
    BY <2>1, ElementsAppended
  <2>3. /\ [x EXCEPT !.followees = Append(@, w)].followees = Append(x.followees, w)
        /\ [x EXCEPT !.followees = Append(@, w)].followers = x.followers
        /\ AddFollower(x, w).followers = Append(x.followers, w)
        /\ AddFollower(x, w).followees = x.followees
    BY DEF SGVertex, AddFollower
  <2> QED BY <2>2, <2>3
<1>10. CASE f.ep = "follow" /\ f.at = "gotFollower"
  <2>1. u = f.req.follower /\ v = [f.my EXCEPT !.followees = Append(@, f.req.followee)]
    BY <1>2, <1>10 DEF VertexIs
  <2>2. f.my = VertexOf(u) BY <1>8, <1>10, <2>1 DEF Holder
  <2>3. f.my \in SGVertex /\ f.req.followee \in Users BY <1>7, <1>10
  <2>4. PICK x \in SGVertex : x = f.my BY <2>3
  <2>5. PICK w \in Users : w = f.req.followee BY <2>3
  <2>6. /\ Elements(v.followees) = Elements(x.followees) \cup {w} /\ v.followers = x.followers
    <3>1. v = [x EXCEPT !.followees = Append(@, w)] BY <2>1, <2>4, <2>5
    <3> QED BY <1>9, <3>1
  <2>7. Elements(x.followees) = Following(u) /\ Elements(x.followers) = Followed(u)
    BY <1>5, <2>2, <2>4
  <2>8. Following(u)' = Following(u) \cup {w} BY <1>4, <2>6, <2>7
  <2>9. Followed(u)' = Followed(u) BY <1>4, <2>6, <2>7
  <2> QED BY <1>3, <1>10, <2>1, <2>5, <2>8, <2>9
<1>11. CASE f.ep = "follow" /\ f.at = "gotFollowee"
  <2>1. u = f.req.followee /\ v = AddFollower(f.my, f.req.follower) BY <1>2, <1>11 DEF VertexIs
  <2>2. f.my = VertexOf(u) BY <1>8, <1>11, <2>1 DEF Holder
  <2>3. f.my \in SGVertex /\ f.req.follower \in Users BY <1>7, <1>11
  <2>4. PICK x \in SGVertex : x = f.my BY <2>3
  <2>5. PICK w \in Users : w = f.req.follower BY <2>3
  <2>6. /\ Elements(v.followers) = Elements(x.followers) \cup {w} /\ v.followees = x.followees
    <3>1. v = AddFollower(x, w) BY <2>1, <2>4, <2>5
    <3> QED BY <1>9, <3>1
  <2> QED BY <1>3, <1>4, <1>5, <1>11, <2>1, <2>2, <2>4, <2>5, <2>6
<1>12. f.ep = "follow" => f.at \in {"gotFollower", "gotFollowee"} BY <1>2 DEF VertexIs
<1> QED BY <1>6, <1>10, <1>11, <1>12

\* Vertices that are not written, and those that are, if they were not raced.
LEMMA GraphChange ==
  ASSUME CallsOK, StatesOK, HeldOK, NEW c \in Clients, call[c] # <<>>, Changed(c),
         NEW w \in Users, <<"graph", w>> \notin raced', NEW f, f = call[c][1]
  PROVE  /\ Has(graph, w) => Has(graph, w)'
         /\ \/ Following(w)' = Following(w) /\ Followed(w)' = Followed(w)
            \/ /\ f.ep = "follow" /\ f.at = "gotFollower" /\ f.req.follower = w
               /\ Following(w)' = Following(w) \cup {f.req.followee}
               /\ Followed(w)' = Followed(w)
            \/ /\ f.ep = "follow" /\ f.at = "gotFollowee" /\ f.req.followee = w
               /\ Following(w)' = Following(w)
               /\ Followed(w)' = Followed(w) \cup {f.req.follower}
<1>1. CASE UNCHANGED graph BY <1>1 DEF Following, Followed, Has
<1>2. ASSUME NEW u \in Users, NEW v \in SGVertex, Vertexed(c, u, v)
      PROVE  /\ Has(graph, w) => Has(graph, w)'
             /\ \/ Following(w)' = Following(w) /\ Followed(w)' = Followed(w)
                \/ /\ f.ep = "follow" /\ f.at = "gotFollower" /\ f.req.follower = w
                   /\ Following(w)' = Following(w) \cup {f.req.followee}
                   /\ Followed(w)' = Followed(w)
                \/ /\ f.ep = "follow" /\ f.at = "gotFollowee" /\ f.req.followee = w
                   /\ Following(w)' = Following(w)
                   /\ Followed(w)' = Followed(w) \cup {f.req.follower}
  <2>1. CASE u = w
    <3>1. Vertexed(c, w, v) BY <1>2, <2>1
    <3> QED BY <3>1, VertexChange
  <2>2. CASE u # w
    <3>1. graph' = SetState(graph, u, v) BY <1>2 DEF Vertexed
    <3>2. (Has(graph, w)' <=> Has(graph, w)) /\ (Has(graph, w) => graph'[w] = graph[w])
      BY <2>2, <3>1 DEF SetState, Has
    <3>3. Following(w)' = Following(w) /\ Followed(w)' = Followed(w)
      BY <3>2 DEF Following, Followed
    <3> QED BY <3>2, <3>3
  <2> QED BY <2>1, <2>2
<1> QED BY <1>1, <1>2 DEF Changed, Stored, Lined, state

\* A follow request after its first step: where the followee still does not
\* list the follower, the request is on its way or has failed.
Witness(c, u, v) ==
  \/ ~Idle(c) /\ Serving(c, "follow") /\ ~At(c, "start")
     /\ Req(c) = [follower |-> u, followee |-> v]
  \/ answer[c].ep = "follow" /\ ~answer[c].ok
     /\ answer[c].req = [follower |-> u, followee |-> v]

LEMMA TopOf ==
  \A c : \A s \in Calls(c) : s # <<>> => Head(s) = s[1] /\ Len(s) \in Nat /\ Len(s) >= 1
BY StackParts DEF Calls, Stacks

LEMMA FollowNext ==
  ASSUME CallsOK, NEW c \in Clients, call[c] # <<>>, Step(c),
         NEW f, f = call[c][1], f.ep = "follow"
  PROVE  \/ answer'[c].ep = "follow" /\ answer'[c].ok = FALSE /\ answer'[c].req = f.req
         \/ f.at = "gotFollowee"
         \/ \E place, my : GoesTo(f, place, my) /\ call'[c] # <<>> /\ call'[c][1].ep = "follow"
                           /\ call'[c][1].req = f.req /\ call'[c][1].at = place
<1>1. CallsOK' /\ Outcome(c) BY StepOK
<1>2. f \in Frames(c) /\ Len(call[c]) \in Nat /\ Len(call[c]) >= 1 BY StackOf
<1>3. f.ep \in Entries BY Names
<1>4. Len(call[c]) = 1
  <2> SUFFICES ASSUME Len(call[c]) # 1 PROVE FALSE OBVIOUS
  <2>1. <<call[c][2].ep, call[c][2].at, f.ep>> \in Sites BY SecondOf
  <2> QED BY <1>3, <2>1, SiteNames
<1>5. CASE Over(c, FALSE, <<>>)
  <2>1. answer'[c] = [ep |-> f.ep, req |-> f.req, ok |-> FALSE, res |-> <<>>]
    BY <1>4, <1>5 DEF Over, Bottom
  <2> QED BY <2>1
<1>6. ASSUME NEW r, Gives(f, r) PROVE f.at = "gotFollowee" BY <1>6 DEF Gives
<1>7. ASSUME NEW place, NEW my, GoesTo(f, place, my), Went(c, place, my)
      PROVE  /\ call'[c] # <<>> /\ call'[c][1].ep = "follow"
             /\ call'[c][1].req = f.req /\ call'[c][1].at = place
  <2>1. call'[c][1] = Gone(f, place, my) /\ Len(call'[c]) = Len(call[c]) BY <1>7 DEF Went
  <2>2. call'[c] # <<>> BY <1>4, <2>1
  <2>3. f = [ep |-> f.ep, req |-> f.req, at |-> f.at, my |-> f.my, res |-> f.res]
    BY <1>2, FrameParts
  <2>4. DOMAIN f = {"ep", "req", "at", "my", "res"} BY <2>3
  <2> QED BY <2>1, <2>2, <2>4 DEF Gone
<1>8. ASSUME NEW place, NEW e, <<f.ep, place, e>> \in Sites PROVE FALSE
  <2>1. f.ep \in Composers \cup Readers \cup {"write_home_timeline"} BY <1>8, WaitsFor
  <2> QED BY <2>1 DEF Composers, Readers
<1> QED BY <1>1, <1>5, <1>6, <1>7, <1>8 DEF Outcome

LEMMA WitnessStays ==
  ASSUME CallsOK, NEW c \in Clients, call[c] # <<>>, Step(c),
         NEW f, f = call[c][1], f.ep = "follow", f.at # "gotFollowee", NEW u, NEW v,
         f.req.follower = u, f.req.followee = v
  PROVE  Witness(c, u, v)'
<1>1. CallsOK' BY StepOK
<1>2. f \in Frames(c) BY StackOf
<1>3. f.req = [follower |-> u, followee |-> v]
  <2>1. f.req \in RequestOf["follow"] BY <1>2, FrameParts
  <2>2. RequestOf["follow"] = [follower : Users, followee : Users] BY DEF RequestOf, FollowRequest
  <2> QED BY <2>1, <2>2
<1>4. CASE answer'[c].ep = "follow" /\ answer'[c].ok = FALSE /\ answer'[c].req = f.req
  BY <1>3, <1>4 DEF Witness
<1>5. ASSUME NEW place, NEW my, GoesTo(f, place, my), call'[c] # <<>>, call'[c][1].ep = "follow",
             call'[c][1].req = f.req, call'[c][1].at = place
      PROVE  Witness(c, u, v)'
  <2>1. place # "start" BY <1>5 DEF GoesTo
  <2>2. Head(call'[c]) = call'[c][1]
    <3>1. call'[c] \in Calls(c) BY <1>1 DEF CallsOK
    <3> QED BY <1>5, <3>1, TopOf
  <2> QED BY <1>3, <1>5, <2>1, <2>2 DEF Witness, Idle, Serving, At, Req
<1> QED BY <1>4, <1>5, FollowNext

LEMMA FollowedHandled ==
  ASSUME CallsOK, StatesOK, HeldOK, GraphOK, NEW c \in Clients, Handled(c)
  PROVE  FollowedBothWays'
<1>1. call[c] # <<>> /\ Step(c) /\ Changed(c) BY DEF Handled
<1>2. CallsOK' /\ Others(c) BY <1>1, StepOK
<1>3. PICK f : f = call[c][1] OBVIOUS
<1>4. SUFFICES ASSUME NEW u \in Users, NEW v \in Users,
                      <<"graph", u>> \notin raced', <<"graph", v>> \notin raced', ~OneSided(u, v)
               PROVE  /\ u \in Followed(v)' => v \in Following(u)'
                      /\ v \in Following(u)' /\ u \notin Followed(v)' =>
                           \E d \in Clients : Witness(d, u, v)'
  BY DEF FollowedBothWays, Witness, OneSided, Has
<1>5. raced \subseteq raced' BY <1>1 DEF Changed, state, Stored, Vertexed, Lined, Appends
<1>6. /\ u \in Followed(v) => v \in Following(u)
      /\ v \in Following(u) /\ u \notin Followed(v) => \E d \in Clients : Witness(d, u, v)
  BY <1>4, <1>5 DEF GraphOK, FollowedBothWays, Witness
<1>7. \/ Following(u)' = Following(u) /\ Followed(u)' = Followed(u)
      \/ /\ f.ep = "follow" /\ f.at = "gotFollower" /\ f.req.follower = u
         /\ Following(u)' = Following(u) \cup {f.req.followee}
         /\ Followed(u)' = Followed(u)
      \/ /\ f.ep = "follow" /\ f.at = "gotFollowee" /\ f.req.followee = u
         /\ Following(u)' = Following(u)
         /\ Followed(u)' = Followed(u) \cup {f.req.follower}
  BY <1>1, <1>3, <1>4, GraphChange
<1>8. \/ Following(v)' = Following(v) /\ Followed(v)' = Followed(v)
      \/ /\ f.ep = "follow" /\ f.at = "gotFollower" /\ f.req.follower = v
         /\ Following(v)' = Following(v) \cup {f.req.followee}
         /\ Followed(v)' = Followed(v)
      \/ /\ f.ep = "follow" /\ f.at = "gotFollowee" /\ f.req.followee = v
         /\ Following(v)' = Following(v)
         /\ Followed(v)' = Followed(v) \cup {f.req.follower}
  BY <1>1, <1>3, <1>4, GraphChange
<1>9. Following(u) \subseteq Following(u)' /\ Followed(v) \subseteq Followed(v)' BY <1>7, <1>8
<1>10. ASSUME u \in Followed(v)' PROVE v \in Following(u)'
  <2>1. CASE u \in Followed(v) BY <1>6, <1>9, <2>1
  <2>2. CASE u \notin Followed(v)
    <3>1. f.ep = "follow" /\ f.at = "gotFollowee" /\ f.req.followee = v /\ f.req.follower = u
      BY <1>8, <1>10, <2>2
    <3>2. <<"graph", u>> \notin raced BY <1>4, <1>5
    <3>3. v \in Following(u) BY <1>1, <1>3, <3>1, <3>2 DEF GraphOK, Wrote
    <3> QED BY <1>9, <3>3
  <2> QED BY <2>1, <2>2
<1>11. ASSUME v \in Following(u)', u \notin Followed(v)'
       PROVE  \E d \in Clients : Witness(d, u, v)'
  <2>1. CASE v \notin Following(u)
    <3>1. f.ep = "follow" /\ f.at = "gotFollower" /\ f.req.follower = u /\ f.req.followee = v
      BY <1>7, <1>11, <2>1
    <3>2. Witness(c, u, v)' BY <1>1, <1>3, <3>1, WitnessStays
    <3> QED BY <3>2
  <2>2. CASE v \in Following(u)
    <3>1. PICK d \in Clients : Witness(d, u, v) BY <1>6, <1>9, <1>11, <2>2
    <3>2. CASE d # c
      <4>1. call'[d] = call[d] /\ answer'[d] = answer[d] BY <1>2, <3>2 DEF Others
      <4>2. Witness(d, u, v)' BY <3>1, <4>1 DEF Witness, Idle, Serving, At, Req
      <4> QED BY <4>2
    <3>3. CASE d = c
      <4>1. answer[c].ep = "none" /\ Head(call[c]) = f BY <1>1, <1>3, StackOf
      <4>2. f.ep = "follow" /\ f.at # "start" /\ f.req = [follower |-> u, followee |-> v]
        BY <3>1, <3>3, <4>1 DEF Witness, Serving, At, Req
      <4>3. f.req.follower = u /\ f.req.followee = v BY <4>2
      <4>4. f.at # "gotFollowee"
        <5> SUFFICES ASSUME f.at = "gotFollowee" PROVE FALSE OBVIOUS
        <5>1. ~Calm(f) BY <4>2 DEF Calm
        <5>2. ~Stored(c) /\ \A k, w : ~Lined(c, k, w)
          BY <1>3, <4>2 DEF Stored, Stores, Lined
        <5>3. PICK w \in Users, x \in SGVertex : Vertexed(c, w, x)
          BY <1>1, <1>3, <5>1, <5>2 DEF Changed
        <5>4. w = v BY <1>3, <4>2, <4>3, <5>3 DEF Vertexed, VertexIs
        <5>5. Vertexed(c, v, x) BY <5>3, <5>4
        <5>6. Followed(v)' = Followed(v) \cup {f.req.follower}
          BY <1>1, <1>3, <1>4, <4>2, <5>5, VertexChange
        <5> QED BY <1>11, <4>3, <5>6
      <4>5. Witness(c, u, v)' BY <1>1, <1>3, <4>2, <4>3, <4>4, WitnessStays
      <4> QED BY <4>5
    <3> QED BY <3>2, <3>3
  <2> QED BY <2>1, <2>2
<1> QED BY <1>10, <1>11

LEMMA GraphHandled ==
  ASSUME CallsOK, StatesOK, HeldOK, GraphOK, NEW c \in Clients, Handled(c)
  PROVE  GraphOK'
<1>1. call[c] # <<>> /\ Step(c) /\ Changed(c) BY DEF Handled
<1>2. CallsOK' /\ Others(c) /\ Outcome(c) BY <1>1, StepOK
<1>3. PICK f : f = call[c][1] OBVIOUS
<1>4. raced \subseteq raced' BY <1>1 DEF Changed, state, Stored, Vertexed, Lined, Appends
<1>5. ASSUME NEW w \in Users, <<"graph", w>> \notin raced'
      PROVE  /\ Has(graph, w) => Has(graph, w)'
             /\ Following(w) \subseteq Following(w)' /\ Followed(w) \subseteq Followed(w)'
  <2>1. /\ Has(graph, w) => Has(graph, w)'
        /\ \/ Following(w)' = Following(w) /\ Followed(w)' = Followed(w)
           \/ /\ f.ep = "follow" /\ f.at = "gotFollower" /\ f.req.follower = w
              /\ Following(w)' = Following(w) \cup {f.req.followee}
              /\ Followed(w)' = Followed(w)
           \/ /\ f.ep = "follow" /\ f.at = "gotFollowee" /\ f.req.followee = w
              /\ Following(w)' = Following(w)
              /\ Followed(w)' = Followed(w) \cup {f.req.follower}
    BY <1>1, <1>3, <1>5, GraphChange
  <2> QED BY <2>1
<1>6. ASSUME NEW u \in DOMAIN Populated, <<"graph", u>> \notin raced'
      PROVE  Has(graph, u)' /\ Elements(Populated[u].followers) \subseteq Elements(graph'[u].followers)
  <2>1. u \in Users BY PopulatedUsers
  <2>2. Has(graph, u) /\ Elements(Populated[u].followers) \subseteq Elements(graph[u].followers)
    BY <1>4, <1>6 DEF GraphOK
  <2>3. Has(graph, u)' /\ Followed(u) \subseteq Followed(u)' BY <1>5, <1>6, <2>1, <2>2
  <2>4. Followed(u) = Elements(graph[u].followers) BY <2>2 DEF Followed
  <2>5. Followed(u)' = Elements(graph'[u].followers) BY <2>3 DEF Followed
  <2> QED BY <2>2, <2>3, <2>4, <2>5
<1>7. ASSUME NEW d \in Clients, call'[d] # <<>>, Wrote(call'[d][1]),
             NEW x, x = call'[d][1].req.follower, <<"graph", x>> \notin raced'
      PROVE  call'[d][1].req.followee \in Following(x)'
  <2>1. CASE d # c
    <3>1. call'[d] = call[d] BY <1>2, <2>1 DEF Others
    <3>2. call[d][1].req.followee \in Following(x) BY <1>4, <1>7, <3>1 DEF GraphOK
    <3>3. x \in Users
      <4>1. call[d][1] \in Frames(d) /\ call[d][1].ep = "follow" BY <1>7, <3>1, StackOf DEF Wrote
      <4> QED BY <1>7, <3>1, <4>1, FrameTypes
    <3> QED BY <1>5, <1>7, <3>1, <3>2, <3>3
  <2>2. CASE d = c
    <3>1. PICK g : g = call'[c][1] OBVIOUS
    <3>2. g.ep = "follow" /\ g.at \in {"wroteFollower", "gotFollowee"} /\ x = g.req.follower
          /\ call'[c] # <<>>
      BY <1>7, <2>2, <3>1 DEF Wrote
    <3>3. f \in Frames(c) BY <1>1, <1>3, StackOf
    <3>4. ~Over(c, FALSE, <<>>) /\ \A r : ~Over(c, TRUE, r) BY <3>2 DEF Over
    <3>5. ASSUME NEW r, Back(c, r), <<call[c][2].ep, call[c][2].at, f.ep>> \in Sites PROVE FALSE
      <4>1. PICK h : h = call[c][2] OBVIOUS
      <4>2. Len(call[c]) # 1
        <5>1. Len(call[c]) > 1 BY <3>5 DEF Back
        <5> QED BY <1>1, <5>1, StackOf
      <4>3. h \in Frames(c) BY <1>1, <4>1, <4>2, SecondOf
      <4>4. h = [ep |-> h.ep, req |-> h.req, at |-> h.at, my |-> h.my, res |-> h.res]
        BY <4>3, FrameParts
      <4>5. g = Answered(h, r) BY <3>1, <3>5, <4>1 DEF Back
      <4>6. g.ep = h.ep
        <5>1. DOMAIN h = {"ep", "req", "at", "my", "res"} BY <4>4
        <5> QED BY <4>5, <5>1 DEF Answered
      <4>7. <<h.ep, h.at, f.ep>> \in Sites BY <3>5, <4>1
      <4>8. h.ep \in Composers \cup Readers \cup {"write_home_timeline"} BY <4>7, WaitsFor
      <4> QED BY <3>2, <4>6, <4>8 DEF Composers, Readers
    <3>6. ASSUME NEW e, NEW q, NEW place, NEW my, Deeper(c, e, q, place, my) PROVE FALSE
      <4>1. g = Frame(e, q) BY <3>1, <3>6 DEF Deeper
      <4>2. g.at = "start" BY <4>1 DEF Frame
      <4> QED BY <3>2, <4>2
    <3>7. ASSUME NEW place, NEW my, GoesTo(f, place, my), Went(c, place, my)
          PROVE  g.req.followee \in Following(x)'
      <4>1. g = Gone(f, place, my) BY <1>3, <3>1, <3>7 DEF Went
      <4>2. g.ep = f.ep /\ g.req = f.req /\ g.at = place
        <5>1. f = [ep |-> f.ep, req |-> f.req, at |-> f.at, my |-> f.my, res |-> f.res]
          BY <3>3, FrameParts
        <5>2. DOMAIN f = {"ep", "req", "at", "my", "res"} BY <5>1
        <5> QED BY <4>1, <5>2 DEF Gone
      <4>3. f.ep = "follow" /\ x = f.req.follower /\ x \in Users
        BY <3>2, <3>3, <4>2, FrameTypes
      <4>4. CASE f.at = "gotFollower"
        <5>1. ~Calm(f) BY <4>3, <4>4 DEF Calm
        <5>2. ~Stored(c) /\ \A k, w : ~Lined(c, k, w)
          BY <1>3, <4>3 DEF Stored, Stores, Lined
        <5>3. PICK w \in Users, y \in SGVertex : Vertexed(c, w, y)
          BY <1>1, <1>3, <5>1, <5>2 DEF Changed
        <5>4. w = x BY <1>3, <4>3, <4>4, <5>3 DEF Vertexed, VertexIs
        <5>5. Vertexed(c, x, y) BY <5>3, <5>4
        <5>6. Following(x)' = Following(x) \cup {f.req.followee}
          BY <1>1, <1>3, <1>7, <4>3, <4>4, <5>5, VertexChange
        <5> QED BY <4>2, <5>6
      <4>5. CASE f.at = "wroteFollower"
        <5>1. <<"graph", x>> \notin raced BY <1>4, <1>7
        <5>2. f.req.followee \in Following(x)
          BY <1>1, <1>3, <4>3, <4>5, <5>1 DEF GraphOK, Wrote
        <5> QED BY <1>5, <1>7, <4>2, <4>3, <5>2
      <4>6. f.at \in {"gotFollower", "wroteFollower"} BY <3>2, <3>7, <4>2, <4>3 DEF GoesTo
      <4> QED BY <4>4, <4>5, <4>6
    <3>8. g.req.followee \in Following(x)'
      BY <1>2, <1>3, <3>4, <3>5, <3>6, <3>7 DEF Outcome
    <3> QED BY <2>2, <3>1, <3>8
  <2> QED BY <2>1, <2>2
<1>8. FollowedBothWays' BY FollowedHandled
<1>9. \A d \in Clients : call'[d] # <<>> /\ Wrote(call'[d][1])
        /\ <<"graph", call'[d][1].req.follower>> \notin raced'
        => call'[d][1].req.followee \in Following(call[d][1].req.follower)'
  <2> SUFFICES ASSUME NEW d \in Clients, call'[d] # <<>>, Wrote(call'[d][1]),
                      <<"graph", call'[d][1].req.follower>> \notin raced'
               PROVE  call'[d][1].req.followee \in Following(call[d][1].req.follower)'
    OBVIOUS
  <2>1. PICK x : x = call'[d][1].req.follower OBVIOUS
  <2>2. call'[d][1].req.followee \in Following(x)' BY <1>7, <2>1
  <2> QED BY <2>1, <2>2 DEF Following
<1> QED BY <1>6, <1>8, <1>9 DEF GraphOK

-----------------------------------------------------------------------------
(* The inductive invariant. *)

LEMMA KeptAtFirst == Init => KeptInv
<1> SUFFICES ASSUME Init PROVE KeptInv OBVIOUS
<1>1. CallsOK /\ StatesOK BY InitOK
<1> DEFINE a == [ep |-> "none", req |-> <<>>, ok |-> FALSE, res |-> <<>>]
<1>2. /\ \A c \in Clients : call[c] = <<>> /\ answer[c] = a
      /\ graph = Populated /\ posts = <<>> /\ userTimelines = <<>> /\ homeTimelines = <<>>
      /\ \A kind \in Kinds : \A u \in Users : log[kind][u] = <<>>
  BY DEF Init, InitServices, Kinds
<1>3. a.ok = FALSE OBVIOUS
<1> HIDE DEF a
<1>4. FramesOK
  <2>1. \A c \in Clients : 1 .. Len(call[c]) = {}
    <3>1. \A c \in Clients : Len(call[c]) = 0 BY <1>2, EmptySeq
    <3> QED BY <3>1
  <2> QED BY <1>2, <1>3, <2>1 DEF FramesOK, AnswerOK
<1>5. LinesOK
  <2>1. \A kind, u : Line(kind, u) = <<>> BY <1>2 DEF Line, Timeline, Has
  <2>2. Len(<<>>) = 0 /\ <<>> \in Seq(PostIds) BY EmptySeq
  <2>3. Elements(<<>>) = {} BY DEF Elements
  <2>4. Extra(<<>>) \in Nat BY <2>2, ExtraNat
  <2>5. Len(<<>>) <= MaxKept + Extra(<<>>) BY <2>2, <2>4, SocialAssumption
  <2>6. Tailed(<<>>, <<>>)
    <3>1. 1 .. Len(<<>>) = {} BY <2>2
    <3>2. Len(<<>>) <= Len(<<>>) BY <2>2
    <3> QED BY <3>1, <3>2 DEF Tailed, IsSuffix
  <2> QED BY <1>2, <2>1, <2>3, <2>5, <2>6 DEF LinesOK, ListOK
<1>6. HeldOK BY <1>2 DEF HeldOK
<1>7. GraphOK
  <2>1. FollowedBothWays
    <3> SUFFICES ASSUME NEW u \in Users, NEW v \in Users, ~OneSided(u, v)
                 PROVE  u \in Followed(v) <=> v \in Following(u)
      BY DEF FollowedBothWays
    <3> QED BY <1>2 DEF OneSided, Followed, Following
  <2>2. \A c \in Clients : call[c] = <<>> BY <1>2
  <2>3. \A u \in DOMAIN Populated :
          Has(graph, u) /\ Elements(Populated[u].followers) \subseteq Elements(graph[u].followers)
    BY <1>2 DEF Has
  <2> QED BY <2>1, <2>2, <2>3 DEF GraphOK
<1> QED BY <1>1, <1>4, <1>5, <1>6, <1>7 DEF KeptInv

\* A request that a client makes.
LEMMA KeptAsked ==
  ASSUME KeptInv, CallsOK', NEW c \in Clients, Asked(c), UNCHANGED state
  PROVE  FramesOK' /\ LinesOK' /\ HeldOK' /\ GraphOK'
<1> USE DEF KeptInv
<1>1. PICK e \in Entries : \E q \in RequestFor(c, e) : Asks(c, e, q) BY DEF Asked
<1>2. PICK q \in RequestFor(c, e) : Asks(c, e, q) BY <1>1
<1>3. /\ UNCHANGED answer /\ answer[c].ep = "none" /\ call[c] = <<>>
      /\ call'[c] # <<>> /\ Len(call'[c]) = 1 /\ call'[c][1] = Frame(e, q)
      /\ \A d \in Clients : d # c => call'[d] = call[d]
  BY <1>2, AsksStep
<1>4. PICK f : f = Frame(e, q) OBVIOUS
<1>5. f.ep = e /\ f.at = "start" BY <1>4 DEF Frame
<1>6. UNCHANGED <<graph, posts, userTimelines, homeTimelines, log, raced>> BY DEF state
<1>7. FramesOK'
  <2>1. FrameOK(c, f, DOMAIN posts, log, raced) /\ TopOK(c, f, DOMAIN posts, log, raced)
    <3>1. e \notin Writers BY Names DEF Writers
    <3>2. e # "write_home_timeline" /\ e # "write_user_timeline" BY <3>1 DEF Writers
    <3> QED BY <1>5, <3>1, <3>2 DEF FrameOK, TopOK
  <2>2. \A i \in 1 .. Len(call'[c]) : i = 1 BY <1>3
  <2>3. \A d \in Clients : AnswerOK(d, answer'[d], log', raced') BY <1>3, <1>6 DEF FramesOK
  <2>4. ASSUME NEW d \in Clients
        PROVE  /\ \A i \in 1 .. Len(call'[d]) :
                    FrameOK(d, call'[d][i], (DOMAIN posts)', log', raced')
               /\ call'[d] # <<>> => TopOK(d, call'[d][1], (DOMAIN posts)', log', raced')
    <3>1. CASE d = c BY <1>3, <1>4, <1>6, <2>1, <2>2, <3>1
    <3>2. CASE d # c
      <4>1. call'[d] = call[d] BY <1>3, <3>2
      <4> QED BY <1>6, <4>1 DEF FramesOK
    <3> QED BY <3>1, <3>2
  <2> QED BY <2>3, <2>4 DEF FramesOK
<1>8. \A kind, u : Line(kind, u)' = Line(kind, u) BY <1>6 DEF Line
<1>9. LinesOK' BY <1>6, <1>8 DEF LinesOK
<1>10. HeldOK'
  <2>1. \A kind, u : Now(kind, u)' = Now(kind, u) BY <1>6, <1>8 DEF Now, VertexOf
  <2>2. \A kind, u : ~Holder(f, kind, u) BY <1>5 DEF Holder
  <2>3. ASSUME NEW d \in Clients, NEW kind \in Kinds \cup {"graph"}, NEW u \in Users,
               call'[d] # <<>>, Holder(call'[d][1], kind, u), <<kind, u>> \notin raced'
        PROVE  Copy(call'[d][1], kind) = Now(kind, u)'
    <3>1. d # c BY <1>3, <1>4, <2>2, <2>3
    <3>2. call'[d] = call[d] BY <1>3, <3>1
    <3> QED BY <1>6, <2>1, <2>3, <3>2 DEF HeldOK
  <2> QED BY <2>3 DEF HeldOK
<1>11. /\ \A u : Following(u)' = Following(u)
       /\ \A u : Followed(u)' = Followed(u)
  BY <1>6 DEF Following, Followed
<1>12. GraphOK'
  <2>1. ASSUME NEW d \in Clients, NEW u, NEW v, Witness(d, u, v) PROVE Witness(d, u, v)'
    <3>1. d # c BY <1>3, <2>1 DEF Witness, Idle
    <3>2. call'[d] = call[d] /\ answer'[d] = answer[d] BY <1>3, <3>1
    <3> QED BY <2>1, <3>2 DEF Witness, Idle, Serving, At, Req
  <2>2. FollowedBothWays'
    <3> SUFFICES ASSUME NEW u \in Users, NEW v \in Users,
                        <<"graph", u>> \notin raced', <<"graph", v>> \notin raced', ~OneSided(u, v)
                 PROVE  /\ u \in Followed(v)' => v \in Following(u)'
                        /\ v \in Following(u)' /\ u \notin Followed(v)' =>
                             \E d \in Clients : Witness(d, u, v)'
      BY DEF FollowedBothWays, Witness, OneSided, Has
    <3>1. /\ u \in Followed(v) => v \in Following(u)
          /\ v \in Following(u) /\ u \notin Followed(v) => \E d \in Clients : Witness(d, u, v)
      BY <1>6 DEF GraphOK, FollowedBothWays, Witness
    <3> QED BY <1>11, <2>1, <3>1
  <2>3. ~Wrote(f) BY <1>5 DEF Wrote
  <2>4. ASSUME NEW d \in Clients, call'[d] # <<>>, Wrote(call'[d][1]),
               <<"graph", call'[d][1].req.follower>> \notin raced'
        PROVE  call'[d][1].req.followee \in Following(call[d][1].req.follower)'
    <3>1. d # c BY <1>3, <1>4, <2>3, <2>4
    <3>2. call'[d] = call[d] BY <1>3, <3>1
    <3>3. call[d][1].req.followee \in Following(call[d][1].req.follower)
      BY <1>6, <2>4, <3>2 DEF GraphOK
    <3> QED BY <1>6, <3>2, <3>3 DEF Following
  <2>5. \A u \in DOMAIN Populated : <<"graph", u>> \notin raced' =>
          Has(graph, u)' /\ Elements(Populated[u].followers) \subseteq Elements(graph'[u].followers)
    BY <1>6 DEF GraphOK, Has
  <2> QED BY <2>2, <2>4, <2>5 DEF GraphOK
<1> QED BY <1>7, <1>9, <1>10, <1>12

LEMMA KeptStep == ASSUME KeptInv, [Next]_vars PROVE KeptInv'
<1> USE DEF KeptInv
<1>1. /\ CallsOK' /\ StatesOK'
      /\ \/ UNCHANGED <<call, answer, state>>
         \/ \E c \in Clients : Asked(c) /\ UNCHANGED state
         \/ \E c \in Clients : Handled(c)
  BY NextCases
<1>2. CASE UNCHANGED <<call, answer, state>>
  <2>1. UNCHANGED <<call, answer, graph, posts, userTimelines, homeTimelines, log, raced>>
    BY <1>2 DEF state
  <2>2. FramesOK' BY <2>1 DEF FramesOK
  <2>3. \A kind, u : Line(kind, u)' = Line(kind, u) BY <2>1 DEF Line
  <2>4. LinesOK' BY <2>1, <2>3 DEF LinesOK
  <2>5. \A kind, u : Now(kind, u)' = Now(kind, u) BY <2>1, <2>3 DEF Now, VertexOf
  <2>6. HeldOK' BY <2>1, <2>5 DEF HeldOK
  <2>7. GraphOK'
    <3>1. FollowedBothWays'
      BY <2>1 DEF GraphOK, FollowedBothWays, Following, Followed, Idle, Serving, At, Req
    <3> QED BY <2>1, <3>1 DEF GraphOK, Has, Following
  <2> QED BY <1>1, <2>2, <2>4, <2>6, <2>7
<1>3. ASSUME NEW c \in Clients, Asked(c), UNCHANGED state PROVE KeptInv'
  BY <1>1, <1>3, KeptAsked
<1>4. ASSUME NEW c \in Clients, Handled(c) PROVE KeptInv'
  BY <1>1, <1>4, FramesHandled, LinesHandled, HeldHandled, GraphHandled
<1> QED BY <1>1, <1>2, <1>3, <1>4

LEMMA AlwaysKept == Spec => []KeptInv
<1>1. KeptInv /\ [Next]_vars => KeptInv' BY KeptStep
<1> QED BY KeptAtFirst, <1>1, PTL DEF Spec

LEMMA SuffixIsNewest ==
  ASSUME NEW s \in Seq(PostIds), NEW line \in Seq(PostIds), IsSuffix(line, s)
  PROVE  line = Newest(s, Len(line))
<1> DEFINE n == Newest(s, Len(line))
<1>1. Len(line) \in Nat /\ Len(s) \in Nat BY LenProperties
<1>2. Len(line) <= Len(s) /\ \A i \in 1 .. Len(line) : line[i] = s[Len(s) - Len(line) + i]
  BY DEF IsSuffix
<1>3. /\ n \in Seq(PostIds)
      /\ Len(n) = IF Len(s) > Len(line) THEN Len(line) ELSE Len(s)
      /\ \A i \in 1 .. Len(n) : n[i] = s[Len(s) - Len(n) + i]
  BY <1>1, NewestParts
<1> HIDE DEF n
<1>4. Len(n) = Len(line) BY <1>1, <1>2, <1>3
<1>5. \A i \in 1 .. Len(line) : n[i] = line[i] BY <1>2, <1>3, <1>4
<1>6. n = line BY <1>3, <1>4, <1>5, SeqEqual
<1> QED BY <1>6 DEF n

(* Timelines name stored posts only, whoever composed and whatever failed  *)
(* on the way, so that ReadPosts finds each of them; a timeline that no    *)
(* two writers have read and written at once ends with the newest posts    *)
(* written to it, at least as many as its bound; and it never exceeds the  *)
(* bound by more than the posts that were composed together                *)
(* (home_timeline.go, user_timeline.go, post_storage.go).                  *)
THEOREM TimelinesAlwaysKept == Spec => []TimelinesKept
<1>1. KeptInv => TimelinesKept
  <2> SUFFICES ASSUME KeptInv PROVE TimelinesKept OBVIOUS
  <2>1. /\ \A kind, u : Line(kind, u) \in Seq(PostIds)
        /\ \A u : Line("user", u) = Timeline(userTimelines, u)
        /\ \A u : Line("home", u) = Timeline(homeTimelines, u)
    BY Reads DEF KeptInv
  <2>2. "user" \in Kinds /\ "home" \in Kinds BY DEF Kinds
  <2>3. NoDanglingPost BY <2>1, <2>2 DEF KeptInv, LinesOK, ListOK, NoDanglingPost
  <2>4. ASSUME NEW u \in Users, NEW kind \in Kinds
        PROVE  LET line == Line(kind, u)
                   written == log[kind][u]
               IN  /\ <<kind, u>> \notin raced =>
                        /\ line = Newest(written, Len(line))
                        /\ Len(line) >= MaxKept \/ line = written
                   /\ Len(line) <= MaxKept + Extra(written)
    <3>1. log[kind][u] \in Seq(PostIds) BY DEF KeptInv, StatesOK
    <3> QED BY <2>1, <3>1, SuffixIsNewest DEF KeptInv, LinesOK, ListOK, Tailed
  <2> QED BY <2>3, <2>4 DEF TimelinesKept, Line, Extra, Kinds
<1> QED BY <1>1, AlwaysKept, PTL

(* A post whose composition was answered has been written to its author's  *)
(* timeline and to the home timeline of everyone who followed the author   *)
(* since the graph was populated, whatever else was composed or followed   *)
(* meanwhile and however the writers of timelines overlapped; excepted are *)
(* authors whose vertex two requests rewrote at once (ComposePost in       *)
(* compose_post.go, WriteHomeTimeline in home_timeline.go).                *)
THEOREM AlwaysFannedOut == Spec => []FannedOut
<1>1. KeptInv => FannedOut
  <2> SUFFICES ASSUME KeptInv, NEW c \in Clients, answer[c].ok,
                      answer[c].ep \in {"compose_post", "compose_post_multi"}
               PROVE  LET author == answer[c].req.creator
                      IN  /\ <<c, 1>> \in Elements(log["user"][author])
                          /\ author \in DOMAIN Populated /\ <<"graph", author>> \notin raced =>
                               \A f \in Elements(Populated[author].followers) :
                                 <<c, 1>> \in Elements(log["home"][f])
    BY DEF FannedOut
  <2>1. AnswerOK(c, answer[c], log, raced) BY DEF KeptInv, FramesOK
  <2>2. \A f : f \notin Elements(<<>>) BY DEF Elements
  <2> QED BY <2>1, <2>2 DEF AnswerOK, Composers, Authored, Fanned
<1> QED BY <1>1, AlwaysKept, PTL

(* Following is on both sides: whoever a vertex lists as a follower lists  *)
(* that user as a followee, and the other way round unless the request to  *)
(* follow is on its way or has failed in between; excepted are vertices    *)
(* that were populated anew or that two requests rewrote at once, and      *)
(* pairs that populating left one-sided (Follow, FollowMulti and           *)
(* InsertUser in social_graph.go).                                         *)
THEOREM AlwaysFollowedBothWays == Spec => []FollowedBothWays
<1>1. KeptInv => FollowedBothWays BY DEF KeptInv, GraphOK
<1> QED BY <1>1, AlwaysKept, PTL
=============================================================================
