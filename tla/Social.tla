-------------------------------- MODULE Social --------------------------------
(***************************************************************************)
(* The social network (src/app/internal/social, src/app/cmd/social): posts *)
(* are stored, then written to the author's timeline and to the home       *)
(* timeline of each follower; timelines are read back as posts.            *)
(***************************************************************************)
EXTENDS Services, FiniteSets

CONSTANTS Visitors,    \* clients that do more than composing a post
          Users,
          Populated,   \* the vertices that the populating script left
          Numbers,     \* of posts that are composed at once
          ManyLists,   \* lists of users that follow_multi is given
          MaxKept,     \* elements a timeline keeps, 10 in the code
          Late         \* services that may be called before they listen

VARIABLES graph,       \* social graph: a vertex for each user
          posts,       \* post storage
          userTimelines, homeTimelines,
          log,         \* log[k]: the post ids appended to timeline k
          raced        \* timelines and vertices written in between a request's
                       \* read and write, and vertices that were written anew

state == <<graph, posts, userTimelines, homeTimelines, log, raced>>
vars == <<svars, state>>

composePostMain == {"compose_post", "compose_post_multi"}
postStorageMain == {"store_post", "store_post_multi", "ro_read_post", "ro_read_posts"}
socialGraphMain ==
  {"insert_user", "ro_get_followers", "ro_get_followees", "follow", "follow_multi"}
homeTimelineMain == {"ro_read_home_timeline", "write_home_timeline"}
userTimelineMain == {"ro_read_user_timeline", "write_user_timeline"}
Endpoints ==
  [composepost |-> composePostMain, poststorage |-> postStorageMain,
   socialgraph |-> socialGraphMain, hometimeline |-> homeTimelineMain,
   usertimeline |-> userTimelineMain]

-----------------------------------------------------------------------------
(* Values and messages. A post id is fresh: who composed it, and which one. *)
PostIds == Clients \X (Nat \ {0})
Post == [id : PostIds, creator : Users]
SGVertex == [followers : Seq(Users), followees : Seq(Users)]

ReadPostRequest == [post : PostIds]
ReadPostResponse == [post : Post]
ReadPostsRequest == [posts : Seq(PostIds)]
ReadPostsResponse == [posts : Seq(Post)]
StorePostRequest == [creator : Users]
StorePostResponse == [post : PostIds]
StorePostMultiRequest == [creator : Users, number : Numbers]
StorePostMultiResponse == [posts : Seq(PostIds)]
ReadHomeTimelineRequest == [user : Users]
ReadHomeTimelineResponse == [posts : Seq(Post)]
WriteHomeTimelineRequest == [user : Users, posts : Seq(PostIds)]
ReadUserTimelineRequest == [user : Users]
ReadUserTimelineResponse == [posts : Seq(Post)]
WriteUserTimelineRequest == [user : Users, posts : Seq(PostIds)]
InsertUserRequest == [user : Users]
GetFollowersRequest == [user : Users]
GetFollowersResponse == [followers : Seq(Users)]
GetFolloweesRequest == [user : Users]
GetFolloweesResponse == [followees : Seq(Users)]
FollowRequest == [follower : Users, followee : Users]
FollowManyRequest == [user : Users, followers : ManyLists, followees : ManyLists]
ComposePostRequest == [creator : Users]
ComposePostMultiRequest == [creator : Users, number : Numbers]
OK == [text |-> "OK"]

ASSUME SocialAssumption ==
  /\ Visitors \subseteq Clients
  /\ StateOf(Populated, Users, SGVertex)
  /\ Numbers \subseteq Nat \ {0} /\ ManyLists \subseteq Seq(Users)
  /\ MaxKept \in Nat \ {0}

-----------------------------------------------------------------------------
(* holds says that a request has a copy of a vertex or a timeline that it  *)
(* is going to write.                                                      *)
holds(c, kind, user) ==
  /\ call[c] # <<>>
  /\ \/ kind = "graph" /\ Serving(c, "follow")
        /\ \/ At(c, "gotFollower") /\ Req(c).follower = user
           \/ At(c, "gotFollowee") /\ Req(c).followee = user
     \/ kind = "home" /\ Serving(c, "write_home_timeline") /\ At(c, "loaded")
        /\ Head(My(c).followers) = user
     \/ kind = "user" /\ Serving(c, "write_user_timeline") /\ At(c, "loaded")
        /\ Req(c).user = user

Races(c, kind, user) ==
  IF \E d \in Clients \ {c} : holds(d, kind, user) THEN {<<kind, user>>} ELSE {}

Appends(c, kind, user, ids) ==
  /\ log' = [log EXCEPT ![kind][user] = @ \o ids]
  /\ raced' = raced \cup Races(c, kind, user)

-----------------------------------------------------------------------------
(* The social graph. *)
(* Mutant: the wrong side of the vertex is answered. *)
GetFollowersSwapped(c, user) ==
  /\ UNCHANGED state
  /\ IF Has(graph, user) THEN Return(c, [followers |-> GetState(graph, user).followees])
                         ELSE Panic(c)

GetFollowers(c, user) ==
  /\ UNCHANGED state
  /\ IF Has(graph, user) THEN Return(c, [followers |-> GetState(graph, user).followers])
                         ELSE Panic(c)

GetFollowees(c, user) ==
  /\ UNCHANGED state
  /\ IF Has(graph, user) THEN Return(c, [followees |-> GetState(graph, user).followees])
                         ELSE Panic(c)

NoVertex == [followers |-> <<>>, followees |-> <<>>]

(* Mutant: the follower is entered as a followee. *)
AddFollowee(vertex, user) == [vertex EXCEPT !.followees = Append(@, user)]
AddFollower(vertex, user) == [vertex EXCEPT !.followers = Append(@, user)]

(* The followee is written into the follower's vertex first; a followee    *)
(* without a vertex is found out only then.                                *)
Follow(c, follower, followee) ==
  /\ UNCHANGED <<posts, userTimelines, homeTimelines, log>>
  /\ \/ /\ At(c, "start")
        /\ Goto(c, "gotFollower",
                IF Has(graph, follower) THEN GetState(graph, follower) ELSE NoVertex)
        /\ UNCHANGED <<graph, raced>>
     \/ /\ At(c, "gotFollower")
        /\ graph' = SetState(graph, follower, [My(c) EXCEPT !.followees = Append(@, followee)])
        /\ raced' = raced \cup Races(c, "graph", follower)
        /\ Goto(c, "wroteFollower", <<>>)
     \/ /\ At(c, "wroteFollower")
        /\ IF Has(graph, followee) THEN Goto(c, "gotFollowee", GetState(graph, followee))
                                   ELSE Panic(c)
        /\ UNCHANGED <<graph, raced>>
     \/ /\ At(c, "gotFollowee")
        /\ graph' = SetState(graph, followee, AddFollower(My(c), follower))
        /\ raced' = raced \cup Races(c, "graph", followee)
        /\ Return(c, OK)

FollowMulti(c, user, followers, followees) ==
  /\ graph' = SetState(graph, user, [followers |-> Oldest(followers, MaxKept),
                                     followees |-> Oldest(followees, MaxKept)])
  /\ raced' = raced \cup {<<"graph", user>>}
  /\ Return(c, OK)
  /\ UNCHANGED <<posts, userTimelines, homeTimelines, log>>

InsertUser(c, user) ==
  /\ graph' = SetState(graph, user, NoVertex)
  /\ raced' = raced \cup (IF Has(graph, user) THEN {<<"graph", user>>} ELSE {})
                    \cup Races(c, "graph", user)
  /\ Return(c, OK)
  /\ UNCHANGED <<posts, userTimelines, homeTimelines, log>>

GetFollowersHandler(c) == Serving(c, "ro_get_followers") /\ GetFollowers(c, Req(c).user)
GetFolloweesHandler(c) == Serving(c, "ro_get_followees") /\ GetFollowees(c, Req(c).user)
FollowHandler(c) == Serving(c, "follow") /\ Follow(c, Req(c).follower, Req(c).followee)
FollowMultiHandler(c) ==
  Serving(c, "follow_multi") /\ FollowMulti(c, Req(c).user, Req(c).followers, Req(c).followees)
InsertUserHandler(c) == Serving(c, "insert_user") /\ InsertUser(c, Req(c).user)

-----------------------------------------------------------------------------
(* Post storage. The ids of the new posts are unknown to others until the  *)
(* response, so the order in which they are stored cannot be seen.         *)
SetPosts(creator, ids) == SetBulkState(posts, [id \in ids |-> [id |-> id, creator |-> creator]])

NewIds(c, number) == {<<c, i>> : i \in 1..number}

StorePostMulti(c, number, creator, response) ==
  /\ posts' = SetPosts(creator, NewIds(c, number))
  /\ Return(c, response)
  /\ UNCHANGED <<graph, userTimelines, homeTimelines, log, raced>>

StorePost(c, creator) == StorePostMulti(c, 1, creator, [post |-> <<c, 1>>])

ReadPost(c, id) ==
  /\ UNCHANGED state
  /\ IF Has(posts, id) THEN Return(c, [post |-> GetState(posts, id)]) ELSE Panic(c)

ReadPosts(c, ids) ==
  /\ UNCHANGED state
  /\ \/ GetBulkState(c, posts, ids)
     \/ AllRead(c, ids) /\ Return(c, [posts |-> My(c)])

storePost(c) == Serving(c, "store_post") /\ StorePost(c, Req(c).creator)
storePostMulti(c) ==
  /\ Serving(c, "store_post_multi")
  /\ StorePostMulti(c, Req(c).number, Req(c).creator,
                    [posts |-> [i \in 1..Req(c).number |-> <<c, i>>]])
readPost(c) == Serving(c, "ro_read_post") /\ ReadPost(c, Req(c).post)
readPosts(c) == Serving(c, "ro_read_posts") /\ ReadPosts(c, Req(c).posts)

-----------------------------------------------------------------------------
(* The timelines. A list that has reached the bound loses one element,     *)
(* however many are appended.                                              *)
Timeline(timelines, user) == IF Has(timelines, user) THEN GetState(timelines, user) ELSE <<>>
WrittenInFront(old, ids) == ids \o DropOldest(old, MaxKept)    \* mutant
Written(old, ids) == DropOldest(old, MaxKept) \o ids

ReadTimeline(c, timelines, user) ==
  /\ UNCHANGED state
  /\ \/ At(c, "start") /\ ~Has(timelines, user) /\ Return(c, [posts |-> <<>>])
     \/ At(c, "start") /\ Has(timelines, user)
        /\ Invoke(c, "poststorage", "ro_read_posts",
                  [posts |-> GetState(timelines, user)], "gotPosts")
     \/ At(c, "gotPosts") /\ Return(c, [posts |-> Res(c).posts])

ReadHomeTimeline(c, user) == ReadTimeline(c, homeTimelines, user)
ReadUserTimeline(c, user) == ReadTimeline(c, userTimelines, user)

WriteHomeTimeline(c, creator, ids) ==
  LET left == IF At(c, "gotFollowers") THEN Res(c).followers ELSE My(c).followers
      user == Head(left)
  IN /\ UNCHANGED <<graph, posts, userTimelines>>
     /\ \/ /\ At(c, "start")
           /\ Invoke(c, "socialgraph", "ro_get_followers", [user |-> creator], "gotFollowers")
           /\ UNCHANGED <<homeTimelines, log, raced>>
        \/ /\ At(c, "gotFollowers") \/ At(c, "next")
           /\ IF left = <<>>
              THEN Return(c, OK)
              ELSE Goto(c, "loaded", [followers |-> left, list |-> Timeline(homeTimelines, user)])
           /\ UNCHANGED <<homeTimelines, log, raced>>
        \/ /\ At(c, "loaded")
           /\ homeTimelines' = SetState(homeTimelines, user, Written(My(c).list, ids))
           /\ Appends(c, "home", user, ids)
           /\ Goto(c, "next", [followers |-> Tail(left)])

WriteUserTimeline(c, user, ids) ==
  /\ UNCHANGED <<graph, posts, homeTimelines>>
  /\ \/ /\ At(c, "start")
        /\ Goto(c, "loaded", Timeline(userTimelines, user))
        /\ UNCHANGED <<userTimelines, log, raced>>
     \/ /\ At(c, "loaded")
        /\ userTimelines' = SetState(userTimelines, user, Written(My(c), ids))
        /\ Appends(c, "user", user, ids)
        /\ Return(c, OK)

readHomeTimeline(c) == Serving(c, "ro_read_home_timeline") /\ ReadHomeTimeline(c, Req(c).user)
writeHomeTimeline(c) ==
  Serving(c, "write_home_timeline") /\ WriteHomeTimeline(c, Req(c).user, Req(c).posts)
readUserTimeline(c) == Serving(c, "ro_read_user_timeline") /\ ReadUserTimeline(c, Req(c).user)
writeUserTimeline(c) ==
  Serving(c, "write_user_timeline") /\ WriteUserTimeline(c, Req(c).user, Req(c).posts)

-----------------------------------------------------------------------------
(* Composing. *)
Publishes(c, creator) ==
  \/ /\ At(c, "wroteUser")
     /\ Invoke(c, "hometimeline", "write_home_timeline",
               [user |-> creator, posts |-> My(c)], "wroteHome")
  \/ At(c, "wroteHome") /\ Return(c, OK)

ComposePost(c, creator) ==
  /\ UNCHANGED state
  /\ \/ At(c, "start") /\ Invoke(c, "poststorage", "store_post", [creator |-> creator], "stored")
     \/ /\ At(c, "stored")
        /\ InvokeWith(c, "usertimeline", "write_user_timeline",
             [user |-> creator, posts |-> <<Res(c).post>>], "wroteUser", <<Res(c).post>>)
     \/ Publishes(c, creator)

ComposeMulti(c, number, creator) ==
  /\ UNCHANGED state
  /\ \/ /\ At(c, "start")
        /\ Invoke(c, "poststorage", "store_post_multi",
                  [creator |-> creator, number |-> number], "storedAll")
     \/ /\ At(c, "storedAll")
        /\ InvokeWith(c, "usertimeline", "write_user_timeline",
             [user |-> creator, posts |-> Res(c).posts], "wroteUser", Res(c).posts)
     \/ Publishes(c, creator)

ComposePostHandler(c) == Serving(c, "compose_post") /\ ComposePost(c, Req(c).creator)
ComposePostMulti(c) ==
  Serving(c, "compose_post_multi") /\ ComposeMulti(c, Req(c).number, Req(c).creator)

-----------------------------------------------------------------------------
Client(c) == UNCHANGED state /\ \E u \in Users : AsksServed(c, "compose_post", [creator |-> u])

Visitor(c) ==
  /\ UNCHANGED state
  /\ \/ \E u \in Users, ep \in {"ro_read_home_timeline", "ro_read_user_timeline",
                                "insert_user", "ro_get_followees"} : AsksServed(c, ep, [user |-> u])
     \/ \E q \in ComposePostMultiRequest : AsksServed(c, "compose_post_multi", q)
     \/ \E q \in FollowRequest : AsksServed(c, "follow", q)
     \/ \E q \in FollowManyRequest : AsksServed(c, "follow_multi", q)
     \/ \E p \in DOMAIN posts : AsksServed(c, "ro_read_post", [post |-> p])

Start(service) ==
  /\ service \in Late
  /\ Listen(service, Endpoints[service])
  /\ UNCHANGED state

Handle(c) ==
  \/ ComposePostHandler(c) \/ ComposePostMulti(c)
  \/ storePost(c) \/ storePostMulti(c) \/ readPost(c) \/ readPosts(c)
  \/ InsertUserHandler(c) \/ GetFollowersHandler(c) \/ GetFolloweesHandler(c)
  \/ FollowHandler(c) \/ FollowMultiHandler(c)
  \/ readHomeTimeline(c) \/ writeHomeTimeline(c)
  \/ readUserTimeline(c) \/ writeUserTimeline(c)

Init ==
  /\ InitServices(Endpoints, Late)
  /\ graph = Populated
  /\ posts = <<>> /\ userTimelines = <<>> /\ homeTimelines = <<>>
  /\ log = [kind \in {"user", "home"} |-> [u \in Users |-> <<>>]]
  /\ raced = {}

Next ==
  \/ \E s \in Late : Start(s)
  \/ \E c \in Visitors : Visitor(c)
  \/ \E c \in Clients : Client(c) \/ Handle(c)

Spec == Init /\ [][Next]_vars

-----------------------------------------------------------------------------
RequestOf ==
  [compose_post |-> ComposePostRequest, compose_post_multi |-> ComposePostMultiRequest,
   store_post |-> StorePostRequest, store_post_multi |-> StorePostMultiRequest,
   ro_read_post |-> ReadPostRequest, ro_read_posts |-> ReadPostsRequest,
   insert_user |-> InsertUserRequest, ro_get_followers |-> GetFollowersRequest,
   ro_get_followees |-> GetFolloweesRequest, follow |-> FollowRequest,
   follow_multi |-> FollowManyRequest, ro_read_home_timeline |-> ReadHomeTimelineRequest,
   write_home_timeline |-> WriteHomeTimelineRequest,
   ro_read_user_timeline |-> ReadUserTimelineRequest,
   write_user_timeline |-> WriteUserTimelineRequest]

(* The response a handler has when it goes on after a call. *)
ResponseAt ==
  [stored |-> StorePostResponse, storedAll |-> StorePostMultiResponse,
   wroteUser |-> {OK}, wroteHome |-> {OK},
   gotFollowers |-> GetFollowersResponse, gotPosts |-> ReadPostsResponse]

ResponseOf ==
  [ro_read_post |-> ReadPostResponse, ro_get_followees |-> GetFolloweesResponse,
   ro_read_home_timeline |-> ReadHomeTimelineResponse,
   ro_read_user_timeline |-> ReadUserTimelineResponse]

(* Types: requests, responses and stored values have the fields that their *)
(* declarations name.                                                      *)
TypeOK ==
  /\ StateOf(graph, Users, SGVertex)
  /\ StateOf(posts, PostIds, Post)
  /\ StateOf(userTimelines, Users, Seq(PostIds))
  /\ StateOf(homeTimelines, Users, Seq(PostIds))
  /\ \A c \in Clients :
       /\ \A f \in Handlers(c) : f.req \in RequestOf[f.ep]
       /\ ~Idle(c) /\ Head(call[c]).at \in DOMAIN ResponseAt
            => Res(c) \in ResponseAt[Head(call[c]).at]
       /\ answer[c].ok /\ answer[c].ep \in DOMAIN ResponseOf
            => answer[c].res \in ResponseOf[answer[c].ep]

Elements(list) == {list[i] : i \in DOMAIN list}

(* Every post a timeline names is stored, so that no reader of a timeline  *)
(* fails (GetBulkState, and with it ReadPosts, panics on a missing one):   *)
(* posts are stored before they are written to timelines, also when a      *)
(* request ends in between. This is the first part of TimelinesKept.       *)
NoDanglingPost ==
  \A u \in Users : /\ Elements(Timeline(userTimelines, u)) \subseteq DOMAIN posts
                   /\ Elements(Timeline(homeTimelines, u)) \subseteq DOMAIN posts

(* Timelines name stored posts only.                                       *)
(* Unless two writers of it overlapped, a timeline ends with the newest of *)
(* the posts written to it, at least as many as the bound. Overlapping or  *)
(* not, it exceeds the bound by at most one for every post after the first *)
(* of those that were composed at once: each write drops one only.         *)
TimelinesKept ==
  /\ NoDanglingPost
  /\ \A u \in Users, kind \in {"user", "home"} :
       LET line == Timeline(IF kind = "user" THEN userTimelines ELSE homeTimelines, u)
           written == log[kind][u]
       IN /\ <<kind, u>> \notin raced =>
               /\ line = Newest(written, Len(line))
               /\ Len(line) >= MaxKept \/ line = written
          /\ Len(line) <= MaxKept + Cardinality({i \in DOMAIN written : written[i][2] > 1})

(* A post whose composition was answered has been written to its author's  *)
(* timeline and to that of everyone who followed the author all the time,  *)
(* whatever was composed and followed meanwhile.                           *)
FannedOut ==
  \A c \in Clients : answer[c].ok /\ answer[c].ep \in {"compose_post", "compose_post_multi"} =>
    LET author == answer[c].req.creator IN
    /\ <<c, 1>> \in Elements(log["user"][author])
    /\ author \in DOMAIN Populated /\ <<"graph", author>> \notin raced =>
         \A f \in Elements(Populated[author].followers) : <<c, 1>> \in Elements(log["home"][f])

(* Following is recorded on both sides: who is listed as a follower has    *)
(* that followee, and a followee lists the follower, unless that request   *)
(* to follow is on its way or has failed (Follow writes the follower's     *)
(* side first, and may panic before the other one). Vertices that two      *)
(* requests rewrote at once, or that were populated anew, are excepted,    *)
(* and pairs of which populating left one side only (follow_multi cuts the *)
(* lists it is given).                                                     *)
Following(u) == IF Has(graph, u) THEN Elements(graph[u].followees) ELSE {}
Followed(u) == IF Has(graph, u) THEN Elements(graph[u].followers) ELSE {}
OneSided(u, v) ==
  (Has(Populated, v) /\ u \in Elements(Populated[v].followers))
    # (Has(Populated, u) /\ v \in Elements(Populated[u].followees))
FollowedBothWays ==
  \A u, v \in Users : {<<"graph", u>>, <<"graph", v>>} \cap raced = {} /\ ~OneSided(u, v) =>
    /\ u \in Followed(v) => v \in Following(u)
    /\ v \in Following(u) /\ u \notin Followed(v) =>
         \E c \in Clients :
           \/ ~Idle(c) /\ Serving(c, "follow") /\ ~At(c, "start")
              /\ Req(c) = [follower |-> u, followee |-> v]
           \/ answer[c].ep = "follow" /\ ~answer[c].ok
              /\ answer[c].req = [follower |-> u, followee |-> v]
=============================================================================
