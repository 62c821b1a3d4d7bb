---------------------------- MODULE SocialProofs ----------------------------
(***************************************************************************)
(* The social application, for any chains, timestamps, posts, events and   *)
(* blocks: indices count posts, likes and comments follow the posts they   *)
(* are about, and what a subscriber has received is what the streams say.  *)
(*                                                                         *)
(* A block of process_streams is a fold of updates, each a fold of events. *)
(* Both become runs: functions from 0..n to the states of the map, each    *)
(* got from the one before (RunOfEvents, RunOfBlock), over which claims    *)
(* are shown by induction (UpTo).  An event brings a subscriber from       *)
(* n events of the author to n + 1 (EventMatches), an update to where it   *)
(* ends (UpdateMatches), and a block does so for all authors it lists,     *)
(* because no two authors share a key (BlockMatches).  ReadersInv says so  *)
(* for any keys users name, as long as reactions follow their posts on the *)
(* streams; PostsInv adds that they do where users name posts that they    *)
(* see: every key in any state or message was posted.                      *)
(***************************************************************************)
EXTENDS Social, SumTheorems, SequenceTheorems

-----------------------------------------------------------------------------
(* The posts that a chain has received.                                     *)

Comment == [chain_id : Chains, text : Chains]
Post == [likes : Nat, comments : Seq(Comment)]
PostMaps == UNION {[keys -> Post] : keys \in SUBSET Key}
Views == [posts : PostMaps, panicked : BOOLEAN]

LEMMA PostMapsAre ==
  ASSUME NEW posts
  PROVE  posts \in PostMaps
           <=> /\ posts = [k \in DOMAIN posts |-> posts[k]]
               /\ DOMAIN posts \in SUBSET Key
               /\ \A k \in DOMAIN posts : posts[k] \in Post
<1>1. ASSUME posts \in PostMaps
      PROVE  /\ posts = [k \in DOMAIN posts |-> posts[k]]
             /\ DOMAIN posts \in SUBSET Key
             /\ \A k \in DOMAIN posts : posts[k] \in Post
  <2>1. PICK keys \in SUBSET Key : posts \in [keys -> Post]
    BY <1>1 DEF PostMaps
  <2>2. QED BY <2>1
<1>2. ASSUME /\ posts = [k \in DOMAIN posts |-> posts[k]]
             /\ DOMAIN posts \in SUBSET Key
             /\ \A k \in DOMAIN posts : posts[k] \in Post
      PROVE  posts \in PostMaps
  <2>1. posts \in [DOMAIN posts -> Post]
    BY <1>2
  <2>2. QED BY <1>2, <2>1 DEF PostMaps
<1>3. QED BY <1>1, <1>2

(* What an event is.                                                        *)
LEMMA EventsAre ==
  ASSUME NEW a \in Chains, NEW event \in Event
  PROVE  /\ event.type \in {"Post", "Like", "Comment"}
         /\ event.type = "Post" => /\ PostKey(a, event) \in Key
                                   /\ event.timestamp \in Times /\ event.index \in 0..MaxPosts
         /\ event.type # "Post" => event.key \in Key /\ event.key.author \in Chains
         /\ event.type = "Comment" => event.comment \in Chains
BY DEF Event, Key, PostKey

(* An event that does not panic leaves other posts as they are.             *)
Executed(view, new, a, event) ==
  /\ ~view.panicked
  /\ event.type = "Post" =>
       /\ DOMAIN new.posts = DOMAIN view.posts \cup {PostKey(a, event)}
       /\ new.posts[PostKey(a, event)] = [likes |-> 0, comments |-> <<>>]
       /\ \A k \in DOMAIN view.posts :
            k # PostKey(a, event) => new.posts[k] = view.posts[k]
  /\ event.type # "Post" =>
       /\ DOMAIN new.posts = DOMAIN view.posts /\ event.key \in DOMAIN view.posts
       /\ \A k \in DOMAIN view.posts : k # event.key => new.posts[k] = view.posts[k]
  /\ event.type = "Like" =>
       /\ new.posts[event.key].likes = view.posts[event.key].likes + 1
       /\ new.posts[event.key].comments = view.posts[event.key].comments
  /\ event.type = "Comment" =>
       /\ new.posts[event.key].likes = view.posts[event.key].likes
       /\ new.posts[event.key].comments
            = Append(view.posts[event.key].comments, [chain_id |-> a, text |-> event.comment])

LEMMA EventEffect ==
  ASSUME NEW view \in Views, NEW a \in Chains, NEW event \in Event,
         NEW new, new = ExecuteEvent(view, a, event)
  PROVE  /\ new \in Views
         /\ ~view.panicked /\ (event.type = "Post" \/ event.key \in DOMAIN view.posts)
              => ~new.panicked /\ Executed(view, new, a, event)
<1> DEFINE posts == view.posts
<1>1. /\ posts \in PostMaps /\ view.panicked \in BOOLEAN
      /\ view = [posts |-> posts, panicked |-> view.panicked]
  BY DEF Views
<1>2. /\ posts = [k \in DOMAIN posts |-> posts[k]]
      /\ DOMAIN posts \in SUBSET Key
      /\ \A k \in DOMAIN posts : posts[k] \in Post
  BY <1>1, PostMapsAre
<1>3. event.type \in {"Post", "Like", "Comment"}
  BY EventsAre
<1> DEFINE bad == view.panicked \/ (event.type # "Post" /\ event.key \notin DOMAIN view.posts)
<1>4. CASE bad
  <2>1. new = [view EXCEPT !.panicked = TRUE]
    BY <1>4 DEF ExecuteEvent
  <2>2. new = [posts |-> posts, panicked |-> TRUE]
    BY <1>1, <2>1
  <2>3. new \in Views /\ new.panicked
    BY <1>1, <2>2 DEF Views
  <2>4. QED BY <1>4, <2>3
<1>5. CASE ~bad /\ event.type = "Post"
  <2> DEFINE key == PostKey(a, event)
             empty == [likes |-> 0, comments |-> <<>>]
             made == [i \in DOMAIN posts \cup {key} |-> IF i = key THEN empty ELSE posts[i]]
  <2>1. new = [view EXCEPT !.posts = made]
    <3>1. made = ExecutePostEvent(posts, a, event)
      BY DEF ExecutePostEvent, Put, PostKey
    <3> HIDE DEF made
    <3>2. new = [view EXCEPT !.posts = ExecutePostEvent(@, a, event)]
      BY <1>5 DEF ExecuteEvent
    <3>3. QED BY <3>1, <3>2
  <2>2. empty \in Post
    BY DEF Post
  <2>3. key \in Key
    BY <1>5, EventsAre
  <2>4. made \in [DOMAIN posts \cup {key} -> Post]
    BY <1>2, <2>2
  <2>5. made \in PostMaps
    <3>1. DOMAIN posts \cup {key} \in SUBSET Key
      BY <1>2, <2>3
    <3> HIDE DEF made
    <3>2. QED BY <2>4, <3>1 DEF PostMaps
  <2> HIDE DEF made
  <2>6. new = [posts |-> made, panicked |-> view.panicked]
    BY <1>1, <2>1
  <2>7. new \in Views /\ new.posts = made /\ new.panicked = view.panicked
    BY <1>1, <2>5, <2>6 DEF Views
  <2>8. /\ DOMAIN made = DOMAIN posts \cup {key} /\ made[key] = empty
        /\ \A k \in DOMAIN posts : k # key => made[k] = posts[k]
    BY DEF made
  <2>9. QED BY <1>5, <2>7, <2>8 DEF Executed
<1>6. CASE ~bad /\ event.type = "Like"
  <2> DEFINE made == [posts EXCEPT ![event.key].likes = @ + 1]
  <2>1. new = [view EXCEPT !.posts = made]
    BY <1>6 DEF ExecuteEvent, ExecuteLikeEvent
  <2>2. event.key \in DOMAIN posts
    BY <1>6
  <2>3. /\ DOMAIN made = DOMAIN posts
        /\ made[event.key] = [posts[event.key] EXCEPT !.likes = @ + 1]
        /\ \A k \in DOMAIN posts : k # event.key => made[k] = posts[k]
    BY <1>2, <2>2
  <2>4. /\ made[event.key] = [likes |-> posts[event.key].likes + 1,
                              comments |-> posts[event.key].comments]
        /\ made[event.key] \in Post
    BY <1>2, <2>2, <2>3 DEF Post
  <2>5. made \in PostMaps
    <3>1. made \in [DOMAIN posts -> Post]
      BY <1>2, <2>2, <2>3, <2>4
    <3>2. QED BY <1>2, <3>1 DEF PostMaps
  <2> HIDE DEF made
  <2>6. new = [posts |-> made, panicked |-> view.panicked]
    BY <1>1, <2>1
  <2>7. new \in Views /\ new.posts = made /\ new.panicked = view.panicked
    BY <1>1, <2>5, <2>6 DEF Views
  <2>8. QED BY <1>6, <2>2, <2>3, <2>4, <2>7 DEF Executed
<1>7. CASE ~bad /\ event.type = "Comment"
  <2> DEFINE comment == [chain_id |-> a, text |-> event.comment]
             made == [posts EXCEPT ![event.key].comments = Append(@, comment)]
  <2>1. new = [view EXCEPT !.posts = made]
    BY <1>7 DEF ExecuteEvent, ExecuteCommentEvent
  <2>2. event.key \in DOMAIN posts
    BY <1>7
  <2>3. comment \in Comment
    BY <1>7, EventsAre DEF Comment
  <2> HIDE DEF comment
  <2>4. /\ DOMAIN made = DOMAIN posts
        /\ made[event.key] = [posts[event.key] EXCEPT !.comments = Append(@, comment)]
        /\ \A k \in DOMAIN posts : k # event.key => made[k] = posts[k]
    BY <1>2, <2>2
  <2>5. /\ made[event.key] = [likes |-> posts[event.key].likes,
                              comments |-> Append(posts[event.key].comments, comment)]
        /\ made[event.key] \in Post
    <3> DEFINE post == posts[event.key]
    <3>1. post \in Post /\ made[event.key] = [post EXCEPT !.comments = Append(@, comment)]
      BY <1>2, <2>2, <2>4
    <3> HIDE DEF post, made
    <3>2. post.likes \in Nat /\ post.comments \in Seq(Comment)
          /\ post = [likes |-> post.likes, comments |-> post.comments]
      BY <3>1 DEF Post
    <3>3. Append(post.comments, comment) \in Seq(Comment)
      BY <2>3, <3>2
    <3>4. made[event.key] = [likes |-> post.likes, comments |-> Append(post.comments, comment)]
      BY <3>1, <3>2
    <3>5. QED BY <3>2, <3>3, <3>4 DEF Post, post
  <2>6. made \in PostMaps
    <3>1. made \in [DOMAIN posts -> Post]
      BY <1>2, <2>2, <2>4, <2>5
    <3>2. QED BY <1>2, <3>1 DEF PostMaps
  <2> HIDE DEF made
  <2>7. new = [posts |-> made, panicked |-> view.panicked]
    BY <1>1, <2>1
  <2>8. new \in Views /\ new.posts = made /\ new.panicked = view.panicked
    BY <1>1, <2>6, <2>7 DEF Views
  <2>9. QED BY <1>7, <2>2, <2>4, <2>5, <2>8 DEF comment, Executed
<1>8. QED BY <1>3, <1>4, <1>5, <1>6, <1>7

-----------------------------------------------------------------------------
(* Folds of events and of updates.                                          *)

EventEquation(g, view, a, events) ==
  g = [s \in SUBSET (DOMAIN events) |->
         IF s = {} THEN view ELSE ExecuteEvent(g[s \ {Max(s)}], a, events[Max(s)])]

LEMMA UpdateUnfold ==
  ASSUME NEW view, NEW c, NEW a, NEW next
  PROVE  ExecuteUpdate(view, c, a, next)
           = (CHOOSE g : EventEquation(g, view, a, NewIndices(c, a, next)))
               [DOMAIN NewIndices(c, a, next)]
BY Zenon DEF ExecuteUpdate, FoldLeft, MapThenFoldSet, EventEquation

(* An update is a run of its events.                                        *)
RunOfEvents(views, view, a, events, new) ==
  /\ views \in [0..Len(events) -> Views]
  /\ views[0] = view
  /\ \A i \in 1..Len(events) : views[i] = ExecuteEvent(views[i - 1], a, events[i])
  /\ views[Len(events)] = new

LEMMA UpdateRuns ==
  ASSUME NEW view \in Views, NEW c, NEW a \in Chains, NEW next,
         NewIndices(c, a, next) \in Seq(Event)
  PROVE  \E views :
           RunOfEvents(views, view, a, NewIndices(c, a, next), ExecuteUpdate(view, c, a, next))
<1> DEFINE events == NewIndices(c, a, next)
           n == Len(events)
           act == [i \in 1..n |-> [v \in Views |-> ExecuteEvent(v, a, events[i])]]
<1>1. n \in Nat /\ DOMAIN events = 1..n /\ \A i \in 1..n : events[i] \in Event
  OBVIOUS
<1>2. ExecuteUpdate(view, c, a, next)
        = (CHOOSE g : EventEquation(g, view, a, events))[DOMAIN events]
  BY UpdateUnfold, Zenon
<1> HIDE DEF n, events
<1>3. \A v \in Views : \A i \in 1..n : ExecuteEvent(v, a, events[i]) \in Views
  BY <1>1, EventEffect
<1>4. act \in [1..n -> [Views -> Views]]
  BY <1>3
<1>5. PICK g \in [SUBSET (1..n) -> Views] : FoldSolution(g, act, view, n)
  BY <1>1, <1>4, FoldSolvable
<1>6. EventEquation(g, view, a, events)
  <2>1. ASSUME NEW s \in SUBSET (1..n)
        PROVE  g[s] = IF s = {} THEN view ELSE ExecuteEvent(g[s \ {Max(s)}], a, events[Max(s)])
    <3>1. CASE s = {}
      BY <1>5, <3>1 DEF FoldSolution
    <3>2. CASE s # {}
      <4>1. Max(s) \in 1..n /\ s \ {Max(s)} \in SUBSET (1..n)
        BY <1>1, <3>2, GreatestUpTo
      <4>2. g[s] = act[Max(s)][g[s \ {Max(s)}]]
        BY <1>5, <3>2 DEF FoldSolution
      <4>3. g[s \ {Max(s)}] \in Views
        BY <4>1
      <4>4. QED BY <3>2, <4>1, <4>2, <4>3
    <3>3. QED BY <3>1, <3>2
  <2>2. g = [s \in SUBSET (1..n) |-> g[s]]
    OBVIOUS
  <2>3. g = [s \in SUBSET (1..n) |->
               IF s = {} THEN view ELSE ExecuteEvent(g[s \ {Max(s)}], a, events[Max(s)])]
    BY <2>1, <2>2, Zenon
  <2>4. QED BY <1>1, <2>3, Zenon DEF EventEquation
<1> DEFINE f == CHOOSE h : EventEquation(h, view, a, events)
<1>7. EventEquation(f, view, a, events)
  BY <1>6, Zenon
<1> HIDE DEF f
<1>8. \A s \in SUBSET (1..n) :
        f[s] = IF s = {} THEN view ELSE ExecuteEvent(f[s \ {Max(s)}], a, events[Max(s)])
  BY <1>1, <1>7, Zenon DEF EventEquation
<1>9. f[1..0] = view
  <2>1. 1..0 = {}
    OBVIOUS
  <2>2. QED BY <1>8, <2>1
<1>10. ASSUME NEW k \in 1..n
       PROVE  f[1..k] = ExecuteEvent(f[1..(k - 1)], a, events[k])
  <2>1. 1..k \in SUBSET (1..n) /\ 1..k # {} /\ Max(1..k) = k /\ (1..k) \ {k} = 1..(k - 1)
    BY <1>1, FirstOnes
  <2>2. QED BY <1>8, <2>1
<1> DEFINE Good == {k \in 0..n : f[1..k] \in Views}
<1>11. \A k \in 0..n : k \in Good
  <2>1. 0 \in Good
    BY <1>1, <1>9
  <2>2. ASSUME NEW k \in 1..n, k - 1 \in Good PROVE k \in Good
    <3>1. f[1..k] \in Views /\ k \in 0..n
      BY <1>3, <1>10, <2>2
    <3>2. QED BY <3>1
  <2> HIDE DEF Good
  <2>3. QED BY <1>1, <2>1, <2>2, UpTo
<1> DEFINE views == [k \in 0..n |-> f[1..k]]
<1>12. views \in [0..n -> Views]
  BY <1>11
<1>13. 0 \in 0..n /\ n \in 0..n /\ \A k \in 1..n : k \in 0..n /\ k - 1 \in 0..n
  BY <1>1
<1>14. views[0] = view /\ \A k \in 1..n : views[k] = ExecuteEvent(views[k - 1], a, events[k])
  BY <1>9, <1>10, <1>13
<1>15. views[n] = ExecuteUpdate(view, c, a, next)
  BY <1>1, <1>2, <1>13 DEF f
<1> HIDE DEF views
<1>16. RunOfEvents(views, view, a, events, ExecuteUpdate(view, c, a, next))
  BY <1>12, <1>14, <1>15 DEF n, RunOfEvents
<1>17. QED BY <1>16 DEF events

UpdateEquation(g, view, c, order, next) ==
  g = [s \in SUBSET (DOMAIN order) |->
         IF s = {} THEN view
         ELSE ExecuteUpdate(g[s \ {Max(s)}], c, order[Max(s)], next[order[Max(s)]])]

Updated(view, c, order, next) ==
  FoldLeft(LAMBDA v, a : ExecuteUpdate(v, c, a, next[a]), view, order)

LEMMA ProcessedUnfold ==
  ASSUME NEW view, NEW c, NEW order, NEW next
  PROVE  Updated(view, c, order, next)
           = (CHOOSE g : UpdateEquation(g, view, c, order, next))[DOMAIN order]
BY Zenon DEF Updated, FoldLeft, MapThenFoldSet, UpdateEquation

(* A block of updates is a run of them.                                     *)
RunOfUpdates(views, view, c, n, order, next) ==
  /\ views \in [0..n -> Views]
  /\ views[0] = view
  /\ \A i \in 1..n : views[i] = ExecuteUpdate(views[i - 1], c, order[i], next[order[i]])
  /\ views[n] = Updated(view, c, order, next)

LEMMA ProcessedRuns ==
  ASSUME NEW view \in Views, NEW c, NEW n \in Nat, NEW order, DOMAIN order = 1..n, NEW next,
         \A i \in 1..n : order[i] \in Chains
           /\ NewIndices(c, order[i], next[order[i]]) \in Seq(Event)
  PROVE  \E views : RunOfUpdates(views, view, c, n, order, next)
<1> DEFINE act == [i \in 1..n |->
                     [v \in Views |-> ExecuteUpdate(v, c, order[i], next[order[i]])]]
<1>1. \A v \in Views : \A i \in 1..n : ExecuteUpdate(v, c, order[i], next[order[i]]) \in Views
  <2> SUFFICES ASSUME NEW v \in Views, NEW i \in 1..n
      PROVE  ExecuteUpdate(v, c, order[i], next[order[i]]) \in Views
    OBVIOUS
  <2>1. PICK a, last : a = order[i] /\ last = next[order[i]]
    OBVIOUS
  <2>2. a \in Chains /\ NewIndices(c, a, last) \in Seq(Event)
    BY <2>1
  <2>3. PICK views :
          RunOfEvents(views, v, a, NewIndices(c, a, last), ExecuteUpdate(v, c, a, last))
    BY <2>2, UpdateRuns
  <2>4. Len(NewIndices(c, a, last)) \in 0..Len(NewIndices(c, a, last))
    BY <2>2
  <2>5. QED BY <2>1, <2>3, <2>4 DEF RunOfEvents
<1>2. act \in [1..n -> [Views -> Views]]
  BY <1>1
<1>3. PICK g \in [SUBSET (1..n) -> Views] : FoldSolution(g, act, view, n)
  BY <1>2, FoldSolvable
<1>4. UpdateEquation(g, view, c, order, next)
  <2>1. ASSUME NEW s \in SUBSET (1..n)
        PROVE  g[s] = IF s = {} THEN view
                      ELSE ExecuteUpdate(g[s \ {Max(s)}], c, order[Max(s)], next[order[Max(s)]])
    <3>1. CASE s = {}
      BY <1>3, <3>1 DEF FoldSolution
    <3>2. CASE s # {}
      <4>1. Max(s) \in 1..n /\ s \ {Max(s)} \in SUBSET (1..n)
        BY <3>2, GreatestUpTo
      <4>2. g[s] = act[Max(s)][g[s \ {Max(s)}]]
        BY <1>3, <3>2 DEF FoldSolution
      <4>3. g[s \ {Max(s)}] \in Views
        BY <4>1
      <4>4. QED BY <3>2, <4>1, <4>2, <4>3
    <3>3. QED BY <3>1, <3>2
  <2>2. g = [s \in SUBSET (1..n) |-> g[s]]
    OBVIOUS
  <2>3. g = [s \in SUBSET (1..n) |->
               IF s = {} THEN view
               ELSE ExecuteUpdate(g[s \ {Max(s)}], c, order[Max(s)], next[order[Max(s)]])]
    BY <2>1, <2>2, Zenon
  <2>4. QED BY <2>3, Zenon DEF UpdateEquation
<1> DEFINE f == CHOOSE h : UpdateEquation(h, view, c, order, next)
<1>5. UpdateEquation(f, view, c, order, next)
  BY <1>4, Zenon
<1> HIDE DEF f
<1>6. \A s \in SUBSET (1..n) :
        f[s] = IF s = {} THEN view
               ELSE ExecuteUpdate(f[s \ {Max(s)}], c, order[Max(s)], next[order[Max(s)]])
  BY <1>5, Zenon DEF UpdateEquation
<1>7. f[1..0] = view
  <2>1. 1..0 = {}
    OBVIOUS
  <2>2. QED BY <1>6, <2>1
<1>8. ASSUME NEW k \in 1..n
      PROVE  f[1..k] = ExecuteUpdate(f[1..(k - 1)], c, order[k], next[order[k]])
  <2>1. 1..k \in SUBSET (1..n) /\ 1..k # {} /\ Max(1..k) = k /\ (1..k) \ {k} = 1..(k - 1)
    BY FirstOnes
  <2>2. QED BY <1>6, <2>1
<1> DEFINE Good == {k \in 0..n : f[1..k] \in Views}
<1>9. \A k \in 0..n : k \in Good
  <2>1. 0 \in Good
    BY <1>7
  <2>2. ASSUME NEW k \in 1..n, k - 1 \in Good PROVE k \in Good
    <3>1. f[1..k] \in Views /\ k \in 0..n
      BY <1>1, <1>8, <2>2
    <3>2. QED BY <3>1
  <2> HIDE DEF Good
  <2>3. QED BY <2>1, <2>2, UpTo
<1> DEFINE views == [k \in 0..n |-> f[1..k]]
<1>10. views \in [0..n -> Views]
  BY <1>9
<1>11. 0 \in 0..n /\ n \in 0..n /\ \A k \in 1..n : k \in 0..n /\ k - 1 \in 0..n
  OBVIOUS
<1>12. views[0] = view
       /\ \A k \in 1..n : views[k] = ExecuteUpdate(views[k - 1], c, order[k], next[order[k]])
  BY <1>7, <1>8, <1>11
<1>13. views[n] = Updated(view, c, order, next)
  BY <1>11, ProcessedUnfold DEF f
<1> HIDE DEF views
<1>14. QED BY <1>10, <1>12, <1>13 DEF RunOfUpdates

-----------------------------------------------------------------------------
(* What indices count.                                                      *)

Published(a, n) == {j \in 1..n : stream[a][j].type = "Post"}
Count(a) == Cardinality(Published(a, Len(stream[a])))

(* An author keeps as many posts as its stream has.                         *)
PostsKept ==
  /\ DOMAIN own_posts = Chains
  /\ \A c \in Chains :
       Count(c) <= MaxPosts /\ own_posts[c] \in [0..(Count(c) - 1) -> Times]

Typed ==
  /\ received_posts \in [Chains -> PostMaps]
  /\ stream \in [Chains -> Seq(Event)]
  /\ next_index \in [Chains -> [Chains -> NotSubscribed..MaxEvents]]
  /\ \A c, a \in Chains : next_index[c][a] <= Len(stream[a])
  /\ inbox \in [Chains -> [Chains -> Seq(Message)]]

CountsInv == Typed /\ PostsKept /\ IndexCountsPosts

LEMMA PublishedFinite ==
  ASSUME NEW a, NEW n \in Nat
  PROVE  IsFiniteSet(Published(a, n)) /\ Cardinality(Published(a, n)) \in Nat
<1>1. IsFiniteSet(1..n) /\ Published(a, n) \subseteq 1..n
  BY FS_Interval DEF Published
<1>2. QED BY <1>1, FS_Subset, FS_CardinalityType

LEMMA CountsInitInv == Init => CountsInv
<1> SUFFICES ASSUME Init PROVE CountsInv
  OBVIOUS
<1>1. \A c \in Chains : stream[c] = <<>> /\ own_posts[c] = <<>> /\ Len(stream[c]) = 0
  BY DEF Init
<1>2. \A a : Published(a, 0) = {}
  BY DEF Published
<1>3. Cardinality({}) = 0
  BY FS_EmptySet
<1>4. \A c \in Chains : Count(c) = 0
  BY <1>1, <1>2, <1>3 DEF Count
<1>5. <<>> \in [0..(0 - 1) -> Times] /\ <<>> \in PostMaps
  <2>1. <<>> \in [{} -> Times] /\ <<>> \in [{} -> Post] /\ 0..(0 - 1) = {}
    OBVIOUS
  <2>2. QED BY <2>1 DEF PostMaps
<1>6. PostsKept
  BY <1>1, <1>4, <1>5, SocialAssumption DEF PostsKept, Init
<1>7. Typed
  BY <1>1, <1>5, SocialAssumption DEF Typed, Init, NotSubscribed
<1>8. IndexCountsPosts
  BY <1>1 DEF IndexCountsPosts
<1>9. QED BY <1>6, <1>7, <1>8 DEF CountsInv

(* What is on the streams stays there.                                      *)
Grows ==
  /\ stream' \in [Chains -> Seq(Event)]
  /\ \A a \in Chains :
       /\ Len(stream[a]) \in Nat /\ Len(stream'[a]) \in Nat /\ Len(stream[a]) <= Len(stream'[a])
       /\ \A i \in 1..Len(stream[a]) : stream'[a][i] = stream[a][i]

LEMMA EmitGrows ==
  ASSUME Typed, NEW a \in Chains, NEW event \in Event, Emit(a, event)
  PROVE  /\ Grows
         /\ Len(stream'[a]) = Len(stream[a]) + 1
         /\ stream'[a][Len(stream[a]) + 1] = event
         /\ \A b \in Chains : b # a => stream'[b] = stream[b]
<1>1. stream \in [Chains -> Seq(Event)] /\ stream' = [stream EXCEPT ![a] = Append(@, event)]
  BY DEF Typed, Emit
<1>2. ASSUME NEW s \in Seq(Event)
      PROVE  /\ Append(s, event) \in Seq(Event) /\ Len(s) \in Nat
             /\ Len(Append(s, event)) = Len(s) + 1
             /\ \A i \in 1..Len(s) : Append(s, event)[i] = s[i]
             /\ Append(s, event)[Len(s) + 1] = event
  OBVIOUS
<1>3. stream'[a] = Append(stream[a], event) /\ \A b \in Chains : b # a => stream'[b] = stream[b]
  BY <1>1
<1>4. stream' \in [Chains -> Seq(Event)]
  BY <1>1, <1>2
<1>5. QED BY <1>1, <1>2, <1>3, <1>4 DEF Grows

LEMMA SameGrows ==
  ASSUME Typed, UNCHANGED stream
  PROVE  Grows
<1>1. \A a \in Chains : Len(stream[a]) \in Nat
  BY DEF Typed
<1>2. QED BY <1>1 DEF Typed, Grows

LEMMA PublishedStays ==
  ASSUME Grows, NEW a \in Chains, NEW n \in Nat, n <= Len(stream[a])
  PROVE  Published(a, n)' = Published(a, n)
<1>1. \A j \in 1..n : j \in 1..Len(stream[a])
  BY DEF Grows
<1>2. QED BY <1>1 DEF Grows, Published

(* Likes and comments, or nothing, are added to streams.                    *)
LEMMA CountsOther ==
  ASSUME CountsInv, Typed', Grows, UNCHANGED own_posts,
         \A a \in Chains : \A i \in 1..Len(stream'[a]) :
           i > Len(stream[a]) => stream'[a][i].type # "Post"
  PROVE  CountsInv'
<1>1. ASSUME NEW a \in Chains PROVE Count(a)' = Count(a)
  <2>1. Published(a, Len(stream[a]))' = Published(a, Len(stream[a]))
    BY DEF Grows, Published
  <2>2. QED BY <2>1 DEF Count
<1>2. PostsKept'
  BY <1>1 DEF CountsInv, PostsKept
<1>3. ASSUME NEW a \in Chains, NEW i \in 1..Len(stream'[a]), stream'[a][i].type = "Post"
      PROVE  /\ stream'[a][i].index = Cardinality(Published(a, i - 1))'
             /\ stream'[a][i].index \in DOMAIN own_posts[a]
             /\ own_posts[a][stream'[a][i].index] = stream'[a][i].timestamp
  <2>1. i \in 1..Len(stream[a]) /\ stream'[a][i] = stream[a][i]
    BY <1>3 DEF Grows
  <2>2. i - 1 \in Nat /\ i - 1 <= Len(stream[a])
    BY <2>1 DEF Grows
  <2>3. Published(a, i - 1)' = Published(a, i - 1)
    BY <2>2, PublishedStays
  <2>4. QED BY <1>3, <2>1, <2>3 DEF CountsInv, IndexCountsPosts, Published
<1>4. IndexCountsPosts'
  BY <1>3 DEF IndexCountsPosts, Published
<1>5. QED BY <1>2, <1>4 DEF CountsInv

(* The index of a new post is the number of those before it.                *)
LEMMA CountsPost ==
  ASSUME CountsInv, NEW c \in Chains, NEW time \in Times, ExecutePostOperation(c, time)
  PROVE  CountsInv'
<1> PICK n \in Nat : n = Len(stream[c])
  BY DEF CountsInv, Typed
<1> PICK m : m = Count(c)
  OBVIOUS
<1> DEFINE event == [type |-> "Post", timestamp |-> time, index |-> m]
<1>1. Typed /\ PostsKept
  BY DEF CountsInv
<1>2. m \in Nat /\ m <= MaxPosts /\ own_posts[c] \in [0..(m - 1) -> Times]
      /\ DOMAIN own_posts = Chains
  BY <1>1, PublishedFinite DEF PostsKept, Count
<1>3. DOMAIN own_posts[c] = 0..(m - 1) /\ Cardinality(0..(m - 1)) = m
  <2>1. Cardinality(0..(m - 1)) = IF 0 > m - 1 THEN 0 ELSE (m - 1) - 0 + 1
    <3>1. m - 1 \in Int /\ 0 \in Int
      BY <1>2
    <3>2. QED BY <3>1, FS_Interval
  <2>2. QED BY <1>2, <2>1
<1>4. PostIndex(c) = m /\ m < MaxPosts
  BY <1>3 DEF PostIndex, ExecutePostOperation
<1>5. event \in Event
  BY <1>2, <1>4, SocialAssumption DEF Event
<1>6. Emit(c, event) /\ UNCHANGED <<received_posts, next_index, inbox>>
      /\ own_posts' = [own_posts EXCEPT ![c] = Put(@, m, time)]
  BY <1>4 DEF ExecutePostOperation
<1>7. /\ Grows /\ Len(stream'[c]) = n + 1 /\ stream'[c][n + 1] = event
      /\ \A b \in Chains : b # c => stream'[b] = stream[b]
  BY <1>1, <1>5, <1>6, EmitGrows
<1> HIDE DEF event
<1>8. Typed'
  <2>1. \A d, a \in Chains : next_index[d][a] \in Int /\ next_index[d][a] <= Len(stream[a])
    BY <1>1, SocialAssumption DEF Typed, NotSubscribed
  <2>2. \A d, a \in Chains : next_index'[d][a] <= Len(stream'[a])
    <3> SUFFICES ASSUME NEW d \in Chains, NEW a \in Chains
        PROVE  next_index'[d][a] <= Len(stream'[a])
      OBVIOUS
    <3>1. PICK k \in Int : k = next_index[d][a] /\ k <= Len(stream[a])
      BY <2>1
    <3>2. next_index' = next_index
      BY <1>6
    <3>3. Len(stream[a]) \in Nat /\ Len(stream'[a]) \in Nat /\ Len(stream[a]) <= Len(stream'[a])
      BY <1>7 DEF Grows
    <3>4. k <= Len(stream'[a])
      BY <3>1, <3>3
    <3>5. QED BY <3>1, <3>2, <3>4
  <2>3. stream' \in [Chains -> Seq(Event)]
    BY <1>7 DEF Grows
  <2>4. QED BY <1>1, <1>6, <2>2, <2>3 DEF Typed
<1>9. Published(c, n)' = Published(c, n)
  BY <1>1, <1>7, PublishedStays
<1>10. Published(c, n + 1)' = Published(c, n)' \cup {n + 1} /\ n + 1 \notin Published(c, n)
  BY <1>1, <1>7 DEF Published, event
<1>11. Count(c)' = m + 1
  <2>1. Published(c, n + 1)' = Published(c, n) \cup {n + 1}
    BY <1>9, <1>10
  <2>2. Cardinality(Published(c, n) \cup {n + 1}) = Cardinality(Published(c, n)) + 1
    BY <1>1, <1>10, PublishedFinite, FS_AddElement
  <2>3. Count(c)' = Cardinality(Published(c, n + 1)')
    BY <1>7 DEF Count, Published
  <2>4. QED BY <2>1, <2>2, <2>3 DEF Count
<1>12. \A b \in Chains : b # c => Count(b)' = Count(b) /\ own_posts'[b] = own_posts[b]
  BY <1>2, <1>6, <1>7 DEF Count, Published
<1>13. own_posts'[c] = [i \in 0..m |-> IF i = m THEN time ELSE own_posts[c][i]]
       /\ DOMAIN own_posts' = Chains
  <2>1. (0..(m - 1)) \cup {m} = 0..m
    BY <1>2
  <2>2. own_posts'[c] = Put(own_posts[c], m, time) /\ DOMAIN own_posts' = Chains
    BY <1>2, <1>6
  <2>3. QED BY <1>3, <2>1, <2>2 DEF Put
<1>14. PostsKept'
  <2>1. own_posts'[c] \in [0..m -> Times]
    <3>1. \A i \in 0..m : i # m => i \in 0..(m - 1)
      BY <1>2
    <3>2. QED BY <1>2, <1>13, <3>1
  <2>2. (m + 1) - 1 = m /\ m + 1 <= MaxPosts
    BY <1>2, <1>4, SocialAssumption
  <2>3. ASSUME NEW b \in Chains
        PROVE  Count(b)' <= MaxPosts /\ own_posts'[b] \in [0..(Count(b)' - 1) -> Times]
    <3>1. CASE b = c
      BY <1>11, <2>1, <2>2, <3>1
    <3>2. CASE b # c
      BY <1>1, <1>12, <3>2 DEF PostsKept
    <3>3. QED BY <3>1, <3>2
  <2>4. QED BY <1>13, <2>3 DEF PostsKept
<1>15. ASSUME NEW a \in Chains, NEW i \in 1..Len(stream'[a]), stream'[a][i].type = "Post"
       PROVE  /\ stream'[a][i].index = Cardinality(Published(a, i - 1))'
              /\ stream'[a][i].index \in DOMAIN own_posts'[a]
              /\ own_posts'[a][stream'[a][i].index] = stream'[a][i].timestamp
  <2>1. CASE i \in 1..Len(stream[a])
    <3>1. stream'[a][i] = stream[a][i] /\ i - 1 \in Nat /\ i - 1 <= Len(stream[a])
      BY <1>7, <2>1 DEF Grows
    <3>2. Published(a, i - 1)' = Published(a, i - 1)
      BY <1>7, <3>1, PublishedStays
    <3>3. /\ stream[a][i].index = Cardinality(Published(a, i - 1))
          /\ stream[a][i].index \in DOMAIN own_posts[a]
          /\ own_posts[a][stream[a][i].index] = stream[a][i].timestamp
      BY <1>15, <2>1, <3>1 DEF CountsInv, IndexCountsPosts, Published
    <3>4. CASE a = c
      <4>1. stream[a][i].index \in 0..(m - 1)
        BY <1>3, <3>3, <3>4
      <4>2. stream[a][i].index \in 0..m /\ stream[a][i].index # m
        BY <1>2, <4>1
      <4>3. QED BY <1>13, <3>1, <3>2, <3>3, <3>4, <4>2
    <3>5. CASE a # c
      BY <1>12, <3>1, <3>2, <3>3, <3>5
    <3>6. QED BY <3>4, <3>5
  <2>2. CASE i \notin 1..Len(stream[a])
    <3>1. a = c /\ i = n + 1 /\ i - 1 = n
      BY <1>1, <1>7, <2>2
    <3>2. stream'[a][i] = event /\ event.index = m /\ event.timestamp = time
      BY <1>7, <3>1 DEF event
    <3>3. Cardinality(Published(c, n))' = m
      BY <1>9 DEF Count
    <3>4. m \in 0..m
      BY <1>2
    <3>5. QED BY <1>13, <3>1, <3>2, <3>3, <3>4
  <2>3. QED BY <2>1, <2>2
<1>16. IndexCountsPosts'
  BY <1>15 DEF IndexCountsPosts, Published
<1>17. QED BY <1>8, <1>14, <1>16 DEF CountsInv

(* The events that an update brings.                                        *)
Brings(events, a, m, last) ==
  /\ events \in Seq(Event) /\ Len(events) = last - m /\ last - m \in Nat
  /\ \A i \in 1..(last - m) : events[i] = stream[a][m + i]

LEMMA NewEvents ==
  ASSUME stream \in [Chains -> Seq(Event)], NEW c, NEW a \in Chains, NEW m \in Nat,
         NEW last \in Nat, m = next_index[c][a], m <= last, last <= Len(stream[a])
  PROVE  Brings(NewIndices(c, a, last), a, m, last)
<1>1. stream[a] \in Seq(Event) /\ Len(stream[a]) \in Nat
  OBVIOUS
<1>2. NewIndices(c, a, last) = SubSeq(stream[a], m + 1, last)
  BY DEF NewIndices
<1>3. \A i \in (m + 1)..last : i \in 1..Len(stream[a])
  BY <1>1
<1>4. /\ SubSeq(stream[a], m + 1, last) \in Seq(Event)
      /\ Len(SubSeq(stream[a], m + 1, last)) = IF m + 1 <= last THEN last - (m + 1) + 1 ELSE 0
      /\ \A i \in 1..(last - (m + 1) + 1) :
           SubSeq(stream[a], m + 1, last)[i] = stream[a][(m + 1) + i - 1]
  <2>1. PICK s \in Seq(Event), l \in Nat : s = stream[a] /\ l = m + 1
    BY <1>1
  <2>2. \A i \in l..last : s[i] \in Event
    BY <1>1, <1>3, <2>1
  <2>3. /\ SubSeq(s, l, last) \in Seq(Event)
        /\ Len(SubSeq(s, l, last)) = IF l <= last THEN last - l + 1 ELSE 0
        /\ \A i \in 1..(last - l + 1) : SubSeq(s, l, last)[i] = s[l + i - 1]
    <3>1. l \in Int /\ last \in Int
      OBVIOUS
    <3>2. QED BY <2>2, <3>1, SubSeqProperties
  <2>4. QED BY <2>1, <2>3
<1>5. last - (m + 1) + 1 = last - m /\ \A i \in 1..(last - m) : (m + 1) + i - 1 = m + i
  OBVIOUS
<1>6. Len(SubSeq(stream[a], m + 1, last)) = last - m /\ last - m \in Nat
  BY <1>4
<1>7. \A i \in 1..(last - m) : SubSeq(stream[a], m + 1, last)[i] = stream[a][m + i]
  BY <1>4, <1>5
<1>8. QED BY <1>2, <1>4, <1>6, <1>7 DEF Brings

(* A block that processes news is a run of updates.                         *)
Block(c, authors, order, next) ==
  /\ authors \in SUBSET {a \in Chains : HasNews(c, a)}
  /\ order \in SetToSeqs(authors) /\ next \in Updates(c, authors)

Ahead(c, a, last) ==
  /\ a \in Chains /\ last \in Nat /\ next_index[c][a] \in Nat
  /\ next_index[c][a] <= last /\ last <= Len(stream[a]) /\ last <= MaxEvents

RunOfBlock(n, views, c, authors, order, next) ==
  /\ n \in Nat /\ views \in [0..n -> Views]
  /\ DOMAIN order = 1..n /\ \A i \in 1..n : order[i] \in authors
  /\ \A i, j \in 1..n : i # j => order[i] # order[j]
  /\ views[0] = [posts |-> received_posts[c], panicked |-> FALSE]
  /\ \A i \in 1..n : views[i] = ExecuteUpdate(views[i - 1], c, order[i], next[order[i]])
  /\ views[n] = Processed(c, order, next)

LEMMA NewsRun ==
  ASSUME Typed, NEW c \in Chains, NEW authors, NEW order, NEW next,
         Block(c, authors, order, next)
  PROVE  /\ \A a \in authors : Ahead(c, a, next[a])
         /\ \E n, views : RunOfBlock(n, views, c, authors, order, next)
<1>1. /\ authors \in SUBSET {a \in Chains : HasNews(c, a)}
      /\ order \in SetToSeqs(authors) /\ next \in Updates(c, authors)
  BY DEF Block
<1>2. ASSUME NEW a \in authors
      PROVE  /\ a \in Chains /\ next[a] \in Nat /\ next_index[c][a] \in Nat
             /\ next_index[c][a] <= next[a] /\ next[a] <= Len(stream[a])
             /\ next[a] <= MaxEvents
  <2>1. a \in Chains /\ next_index[c][a] # NotSubscribed /\ Len(stream[a]) \in Nat
        /\ next_index[c][a] \in NotSubscribed..MaxEvents
    BY <1>1 DEF HasNews, Typed
  <2>2. next_index[c][a] \in Nat
    BY <2>1, SocialAssumption DEF NotSubscribed
  <2>3. next[a] \in 1..MaxEvents /\ next[a] \in (next_index[c][a] + 1)..Len(stream[a])
    BY <1>1 DEF Updates
  <2>4. QED BY <2>1, <2>2, <2>3, SocialAssumption
<1>3. authors \subseteq Chains /\ IsFiniteSet(authors) /\ Cardinality(authors) \in Nat
  BY <1>1, SocialAssumption, FS_Subset, FS_CardinalityType
<1>4. PICK n \in Nat : n = Cardinality(authors)
  BY <1>3
<1>5. /\ DOMAIN order = 1..n /\ \A i \in 1..n : order[i] \in authors
      /\ \A i, j \in 1..n : i # j => order[i] # order[j]
  BY <1>1, <1>4 DEF SetToSeqs
<1>6. ASSUME NEW i \in 1..n
      PROVE  order[i] \in Chains /\ NewIndices(c, order[i], next[order[i]]) \in Seq(Event)
  <2>1. PICK a, last : a = order[i] /\ last = next[a]
    OBVIOUS
  <2>2. /\ a \in authors /\ a \in Chains /\ last \in Nat /\ next_index[c][a] \in Nat
        /\ next_index[c][a] <= last /\ last <= Len(stream[a])
    BY <1>2, <1>5, <2>1
  <2>3. stream \in [Chains -> Seq(Event)]
    BY DEF Typed
  <2>4. NewIndices(c, a, last) \in Seq(Event)
    BY <2>2, <2>3, NewEvents DEF Brings
  <2>5. QED BY <2>1, <2>2, <2>4
<1> DEFINE start == [posts |-> received_posts[c], panicked |-> FALSE]
<1>7. start \in Views
  BY DEF Typed, Views
<1>8. Processed(c, order, next) = Updated(start, c, order, next)
  BY Zenon DEF Processed, Updated
<1> HIDE DEF start
<1>9. \E views : RunOfUpdates(views, start, c, n, order, next)
  <2>1. PICK view \in Views : view = start
    BY <1>7
  <2>2. \A i \in 1..n : order[i] \in Chains
          /\ NewIndices(c, order[i], next[order[i]]) \in Seq(Event)
    BY <1>6
  <2>3. DOMAIN order = 1..n
    BY <1>5
  <2>4. \E views : RunOfUpdates(views, view, c, n, order, next)
    BY <2>2, <2>3, ProcessedRuns
  <2>5. QED BY <2>1, <2>4
<1>10. \E k, views : RunOfBlock(k, views, c, authors, order, next)
  <2>1. PICK views : RunOfUpdates(views, start, c, n, order, next)
    BY <1>9
  <2>2. RunOfBlock(n, views, c, authors, order, next)
    BY <1>5, <1>8, <2>1 DEF RunOfBlock, RunOfUpdates, start
  <2>3. QED BY <2>2
<1>11. QED BY <1>2, <1>10 DEF Ahead

(* The keys that users name.                                                *)
LEMMA NamedKeys ==
  ASSUME Typed, PostsKept, NEW c \in Chains, NEW key \in VisibleKeys(c) \cup TypedKeys
  PROVE  key \in Key
<1>1. CASE key \in TypedKeys
  BY <1>1, SocialAssumption
<1>2. CASE key \in DOMAIN received_posts[c]
  BY <1>2, PostMapsAre DEF Typed
<1>3. CASE \E i \in DOMAIN own_posts[c] :
             key = [timestamp |-> own_posts[c][i], author |-> c, index |-> i]
  <2>1. PICK i \in DOMAIN own_posts[c] :
          key = [timestamp |-> own_posts[c][i], author |-> c, index |-> i]
    BY <1>3
  <2>2. Count(c) \in Nat /\ Count(c) <= MaxPosts /\ own_posts[c] \in [0..(Count(c) - 1) -> Times]
    <3>1. Len(stream[c]) \in Nat
      BY DEF Typed
    <3>2. Cardinality(Published(c, Len(stream[c]))) \in Nat
      BY <3>1, PublishedFinite
    <3>3. QED BY <3>2 DEF PostsKept, Count
  <2>3. i \in 0..MaxPosts /\ own_posts[c][i] \in Times
    BY <2>1, <2>2, SocialAssumption
  <2>4. QED BY <2>1, <2>3 DEF Key
<1>4. QED BY <1>1, <1>2, <1>3 DEF VisibleKeys

(* A like or a comment is put on a stream.                                  *)
LEMMA EmitReaction ==
  ASSUME CountsInv, NEW a \in Chains, NEW reaction \in Message, Emit(a, reaction),
         UNCHANGED <<own_posts, received_posts, next_index>>,
         inbox' \in [Chains -> [Chains -> Seq(Message)]]
  PROVE  CountsInv'
<1>1. Typed /\ reaction \in Event /\ reaction.type # "Post"
  BY DEF CountsInv, Message
<1>2. /\ Grows /\ Len(stream'[a]) = Len(stream[a]) + 1
      /\ stream'[a][Len(stream[a]) + 1] = reaction
      /\ \A b \in Chains : b # a => stream'[b] = stream[b]
  BY <1>1, EmitGrows
<1>3. ASSUME NEW b \in Chains, NEW i \in 1..Len(stream'[b]), i > Len(stream[b])
      PROVE  stream'[b][i].type # "Post"
  <2>1. Len(stream[b]) \in Nat /\ Len(stream'[b]) \in Nat
    BY <1>2 DEF Grows
  <2>2. b = a /\ i = Len(stream[a]) + 1
    BY <1>2, <1>3, <2>1
  <2>3. QED BY <1>1, <1>2, <2>2
<1>4. Typed'
  <2>1. ASSUME NEW c \in Chains, NEW b \in Chains
        PROVE  next_index'[c][b] <= Len(stream'[b])
    <3>1. PICK k \in Int : k = next_index[c][b] /\ k <= Len(stream[b])
      BY <1>1, SocialAssumption DEF Typed, NotSubscribed
    <3>2. /\ Len(stream[b]) \in Nat /\ Len(stream'[b]) \in Nat
          /\ Len(stream[b]) <= Len(stream'[b])
      BY <1>2 DEF Grows
    <3>3. k <= Len(stream'[b])
      BY <3>1, <3>2
    <3>4. QED BY <3>1, <3>3
  <2>2. stream' \in [Chains -> Seq(Event)]
    BY <1>2 DEF Grows
  <2>3. QED BY <1>1, <2>1, <2>2 DEF Typed
<1>5. QED BY <1>2, <1>3, <1>4, CountsOther

(* What leaves streams and posts alone leaves the counts alone.             *)
LEMMA CountsSame ==
  ASSUME CountsInv, Typed', UNCHANGED <<own_posts, stream>>
  PROVE  CountsInv'
<1>1. Grows /\ \A a \in Chains : Len(stream[a]) \in Nat
  BY SameGrows DEF CountsInv, Typed
<1>2. \A a \in Chains : \A i \in 1..Len(stream'[a]) : ~(i > Len(stream[a]))
  BY <1>1
<1>3. QED BY <1>1, <1>2, CountsOther

LEMMA CountsSubscription ==
  ASSUME CountsInv, NEW c \in Chains, NEW a \in Chains, Subscribe(c, a) \/ Unsubscribe(c, a)
  PROVE  CountsInv'
<1>1. Typed
  BY DEF CountsInv
<1>2. /\ NotSubscribed \in NotSubscribed..MaxEvents /\ 0 \in NotSubscribed..MaxEvents
      /\ \A b \in Chains : NotSubscribed <= Len(stream[b]) /\ 0 <= Len(stream[b])
  <2>1. \A b \in Chains : Len(stream[b]) \in Nat
    BY <1>1 DEF Typed
  <2>2. MaxEvents \in Nat
    BY SocialAssumption
  <2>3. QED BY <2>1, <2>2 DEF NotSubscribed
<1>3. UNCHANGED <<own_posts, received_posts, stream, inbox>>
  BY DEF Subscribe, Unsubscribe
<1>4. PICK k \in {0, NotSubscribed, next_index[c][a]} :
        next_index' = [next_index EXCEPT ![c][a] = k]
  BY <1>1 DEF Subscribe, Unsubscribe, Typed
<1>5. next_index \in [Chains -> [Chains -> NotSubscribed..MaxEvents]]
      /\ \A d, b \in Chains : next_index[d][b] <= Len(stream[b])
  BY <1>1 DEF Typed
<1>6. k \in NotSubscribed..MaxEvents /\ k <= Len(stream[a])
  BY <1>2, <1>5
<1>7. /\ next_index' \in [Chains -> [Chains -> NotSubscribed..MaxEvents]]
      /\ \A d, b \in Chains :
           next_index'[d][b] = IF d = c /\ b = a THEN k ELSE next_index[d][b]
  BY <1>4, <1>5, <1>6
<1>8. \A d, b \in Chains : next_index'[d][b] <= Len(stream[b])
  BY <1>5, <1>6, <1>7
<1>9. Typed'
  BY <1>1, <1>3, <1>7, <1>8 DEF Typed
<1>10. QED BY <1>3, <1>9, CountsSame

(* What becomes of a like or a comment.                                     *)
LEMMA SentToAuthor ==
  ASSUME Typed, NEW c \in Chains, NEW reaction \in Message, SendToAuthor(c, reaction)
  PROVE  \/ /\ reaction.key.author = c /\ Emit(c, reaction) /\ UNCHANGED inbox
         \/ /\ reaction.key.author \in Chains /\ reaction.key.author # c
            /\ inbox' = [inbox EXCEPT ![reaction.key.author][c] = Append(@, reaction)]
            /\ inbox' \in [Chains -> [Chains -> Seq(Message)]]
            /\ UNCHANGED stream
<1>1. reaction.key.author \in Chains
  BY EventsAre DEF Message
<1>2. CASE reaction.key.author = c
  BY <1>2 DEF SendToAuthor
<1>3. CASE reaction.key.author # c
  <2>1. PICK a \in Chains : a = reaction.key.author
    BY <1>1
  <2>2. inbox' = [inbox EXCEPT ![a][c] = Append(@, reaction)] /\ UNCHANGED stream
    BY <1>3, <2>1 DEF SendToAuthor
  <2>3. inbox \in [Chains -> [Chains -> Seq(Message)]]
    BY DEF Typed
  <2>4. Append(inbox[a][c], reaction) \in Seq(Message)
    BY <2>3
  <2>5. inbox' \in [Chains -> [Chains -> Seq(Message)]]
    BY <2>2, <2>3, <2>4
  <2>6. QED BY <1>1, <1>3, <2>1, <2>2, <2>5
<1>4. QED BY <1>2, <1>3

LEMMA CountsSend ==
  ASSUME CountsInv, NEW c \in Chains, NEW reaction \in Message, SendToAuthor(c, reaction),
         UNCHANGED <<own_posts, received_posts, next_index>>
  PROVE  CountsInv'
<1>1. Typed
  BY DEF CountsInv
<1>2. CASE Emit(c, reaction) /\ UNCHANGED inbox
  <2>1. inbox' \in [Chains -> [Chains -> Seq(Message)]]
    BY <1>1, <1>2 DEF Typed
  <2>2. QED BY <1>2, <2>1, EmitReaction
<1>3. CASE inbox' \in [Chains -> [Chains -> Seq(Message)]] /\ UNCHANGED stream
  <2>1. Typed'
    BY <1>1, <1>3 DEF Typed
  <2>2. QED BY <1>3, <2>1, CountsSame
<1>4. QED BY <1>1, <1>2, <1>3, SentToAuthor

(* What is taken from an inbox.                                             *)
LEMMA TakenFromInbox ==
  ASSUME Typed, NEW a \in Chains, NEW c \in Chains, Received(a, c)
  PROVE  /\ Head(inbox[a][c]) \in Message
         /\ inbox' \in [Chains -> [Chains -> Seq(Message)]]
         /\ \A b, d \in Chains : \A i \in 1..Len(inbox'[b][d]) :
              \E j \in 1..Len(inbox[b][d]) : inbox'[b][d][i] = inbox[b][d][j]
<1>1. inbox \in [Chains -> [Chains -> Seq(Message)]] /\ inbox[a][c] # <<>>
      /\ inbox' = [inbox EXCEPT ![a][c] = Tail(@)]
  BY DEF Typed, Received
<1>2. PICK s \in Seq(Message) : s = inbox[a][c] /\ s # <<>>
  BY <1>1
<1>3. /\ Head(s) \in Message /\ Tail(s) \in Seq(Message) /\ Len(s) \in Nat
      /\ Len(Tail(s)) = Len(s) - 1
      /\ \A i \in 1..Len(Tail(s)) : Tail(s)[i] = s[i + 1]
  BY <1>2
<1>4. inbox' \in [Chains -> [Chains -> Seq(Message)]]
      /\ \A b, d \in Chains : inbox'[b][d] = IF b = a /\ d = c THEN Tail(s) ELSE inbox[b][d]
  BY <1>1, <1>2, <1>3
<1>5. \A i \in 1..Len(Tail(s)) : i + 1 \in 1..Len(s)
  BY <1>3
<1>6. ASSUME NEW b \in Chains, NEW d \in Chains, NEW i \in 1..Len(inbox'[b][d])
      PROVE  \E j \in 1..Len(inbox[b][d]) : inbox'[b][d][i] = inbox[b][d][j]
  <2>1. CASE b = a /\ d = c
    <3>1. inbox'[b][d] = Tail(s) /\ inbox[b][d] = s /\ i \in 1..Len(Tail(s))
      BY <1>2, <1>4, <1>6, <2>1
    <3>2. i + 1 \in 1..Len(s) /\ Tail(s)[i] = s[i + 1]
      BY <1>3, <1>5, <3>1
    <3>3. QED BY <3>1, <3>2
  <2>2. CASE ~(b = a /\ d = c)
    BY <1>4, <1>6, <2>2
  <2>3. QED BY <2>1, <2>2
<1>7. QED BY <1>2, <1>3, <1>4, <1>6

LEMMA CountsMessage ==
  ASSUME CountsInv, NEW a \in Chains, NEW c \in Chains,
         ExecuteMessage(a, c) \/ RejectMessage(a, c)
  PROVE  CountsInv'
<1>1. Typed /\ Received(a, c) /\ UNCHANGED <<own_posts, received_posts, next_index>>
  BY DEF CountsInv, ExecuteMessage, RejectMessage
<1>2. Head(inbox[a][c]) \in Message /\ inbox' \in [Chains -> [Chains -> Seq(Message)]]
  BY <1>1, TakenFromInbox
<1>3. CASE ExecuteMessage(a, c)
  BY <1>1, <1>2, <1>3, EmitReaction DEF ExecuteMessage
<1>4. CASE RejectMessage(a, c)
  <2>1. UNCHANGED stream
    BY <1>4 DEF RejectMessage
  <2>2. Typed'
    BY <1>1, <1>2, <2>1 DEF Typed
  <2>3. QED BY <1>1, <2>1, <2>2, CountsSame
<1>5. QED BY <1>3, <1>4

LEMMA NewsTyped ==
  ASSUME Typed, NEW c \in Chains, NEW authors, NEW order, NEW next,
         Block(c, authors, order, next), ProcessStreams(c, order, next)
  PROVE  /\ Typed' /\ UNCHANGED <<own_posts, stream, inbox>>
         /\ \A a \in Chains : \A d \in Chains :
              next_index'[d][a] = IF d = c /\ a \in ToSet(order) THEN next[a]
                                  ELSE next_index[d][a]
<1>1. /\ \A a \in authors : Ahead(c, a, next[a])
      /\ next_index' = [next_index EXCEPT ![c] =
           [a \in Chains |-> IF a \in ToSet(order) THEN next[a] ELSE @[a]]]
      /\ UNCHANGED <<own_posts, stream, inbox>>
  <2>1. \A a \in authors : Ahead(c, a, next[a])
    BY NewsRun
  <2>2. QED BY <2>1 DEF ProcessStreams
<1>2. PICK n, views : RunOfBlock(n, views, c, authors, order, next)
  BY NewsRun
<1>3. n \in Nat /\ DOMAIN order = 1..n /\ \A i \in 1..n : order[i] \in authors
  BY <1>2 DEF RunOfBlock
<1>4. views[n].posts \in PostMaps
      /\ received_posts' = [received_posts EXCEPT ![c] = views[n].posts]
  <2>1. n \in 0..n
    BY <1>3
  <2>2. views[n] = Processed(c, order, next) /\ views[n] \in Views
    BY <1>2, <2>1 DEF RunOfBlock
  <2>3. QED BY <2>2 DEF ProcessStreams, Views
<1>5. received_posts' \in [Chains -> PostMaps]
  BY <1>4 DEF Typed
<1>6. ToSet(order) \subseteq authors
  BY <1>3 DEF ToSet
<1>7. next_index \in [Chains -> [Chains -> NotSubscribed..MaxEvents]]
      /\ \A d, b \in Chains : next_index[d][b] <= Len(stream[b])
  BY DEF Typed
<1>8. \A a \in Chains : \A d \in Chains :
        next_index'[d][a] = IF d = c /\ a \in ToSet(order) THEN next[a] ELSE next_index[d][a]
  BY <1>1, <1>7
<1>9. \A a \in ToSet(order) : next[a] \in NotSubscribed..MaxEvents /\ next[a] <= Len(stream[a])
  BY <1>1, <1>6, SocialAssumption DEF NotSubscribed, Ahead
<1>10. next_index' \in [Chains -> [Chains -> NotSubscribed..MaxEvents]]
  <2>1. [a \in Chains |-> IF a \in ToSet(order) THEN next[a] ELSE next_index[c][a]]
          \in [Chains -> NotSubscribed..MaxEvents]
    BY <1>7, <1>9
  <2>2. QED BY <1>1, <1>7, <2>1
<1>11. \A d, a \in Chains : next_index'[d][a] <= Len(stream[a])
  BY <1>7, <1>8, <1>9
<1>12. Typed'
  BY <1>1, <1>5, <1>10, <1>11 DEF Typed
<1>13. QED BY <1>1, <1>8, <1>12

LEMMA CountsStep == CountsInv /\ [Next]_vars => CountsInv'
<1> SUFFICES ASSUME CountsInv, [Next]_vars PROVE CountsInv'
  OBVIOUS
<1>1. Typed /\ PostsKept
  BY DEF CountsInv
<1>2. ASSUME NEW c \in Chains, ExecuteOperation(c) PROVE CountsInv'
  <2>1. ASSUME NEW a \in Chains, Subscribe(c, a) \/ Unsubscribe(c, a) PROVE CountsInv'
    BY <2>1, CountsSubscription
  <2>2. ASSUME NEW time \in Times, ExecutePostOperation(c, time) PROVE CountsInv'
    BY <2>2, CountsPost
  <2>3. ASSUME NEW key \in VisibleKeys(c) \cup TypedKeys,
               ExecuteLikeOperation(c, key) \/ ExecuteCommentOperation(c, key, c)
        PROVE  CountsInv'
    <3>1. key \in Key
      BY <1>1, NamedKeys
    <3>2. CASE ExecuteLikeOperation(c, key)
      <4>1. [type |-> "Like", key |-> key] \in Message
        BY <3>1 DEF Message, Event
      <4>2. QED BY <3>2, <4>1, CountsSend DEF ExecuteLikeOperation
    <3>3. CASE ExecuteCommentOperation(c, key, c)
      <4>1. [type |-> "Comment", key |-> key, comment |-> c] \in Message
        BY <3>1 DEF Message, Event
      <4>2. QED BY <3>3, <4>1, CountsSend DEF ExecuteCommentOperation
    <3>4. QED BY <2>3, <3>2, <3>3
  <2>4. QED BY <1>2, <2>1, <2>2, <2>3 DEF ExecuteOperation
<1>3. ASSUME NEW c \in Chains, NEW a \in Chains, ExecuteMessage(a, c) \/ RejectMessage(a, c)
      PROVE  CountsInv'
  BY <1>3, CountsMessage
<1>4. ASSUME NEW c \in Chains, NEW authors \in SUBSET {a \in Chains : HasNews(c, a)},
             ProcessNews(c, authors)
      PROVE  CountsInv'
  <2>1. PICK order \in SetToSeqs(authors), next \in Updates(c, authors) :
          ProcessStreams(c, order, next)
    BY <1>4 DEF ProcessNews
  <2>2. Block(c, authors, order, next)
    BY <2>1 DEF Block
  <2>3. Typed' /\ UNCHANGED <<own_posts, stream>>
    BY <1>1, <2>1, <2>2, NewsTyped
  <2>4. QED BY <2>3, CountsSame
<1>5. CASE UNCHANGED vars
  <2>1. Typed' /\ UNCHANGED <<own_posts, stream>>
    BY <1>1, <1>5 DEF vars, Typed
  <2>2. QED BY <2>1, CountsSame
<1>6. CASE Next
  BY <1>2, <1>3, <1>4, <1>6 DEF Next
<1>7. QED BY <1>5, <1>6

(* The index of a post is the number of posts before it on the stream, and  *)
(* leads its author back to it, whatever keys users name.                   *)
THEOREM PostsAreCounted == Spec => []IndexCountsPosts
<1>1. CountsInv => IndexCountsPosts
  BY DEF CountsInv
<1>2. QED BY <1>1, CountsInitInv, CountsStep, PTL DEF Spec

-----------------------------------------------------------------------------
(* What a stream says of a post.                                            *)

LEMMA PositionsFinite ==
  ASSUME NEW a, NEW n \in Nat, NEW type, NEW key
  PROVE  /\ IsFiniteSet(Positions(a, n, type, key))
         /\ Cardinality(Positions(a, n, type, key)) \in 0..n
<1>1. IsFiniteSet(1..n) /\ Cardinality(1..n) = n /\ Positions(a, n, type, key) \subseteq 1..n
  <2>1. Cardinality(1..n) = IF 1 > n THEN 0 ELSE n - 1 + 1
    BY FS_Interval
  <2>2. QED BY <2>1, FS_Interval DEF Positions
<1>2. QED BY <1>1, FS_Subset, FS_CardinalityType

LEMMA StreamSaysStill ==
  ASSUME Grows, NEW a \in Chains, NEW n \in Nat, n <= Len(stream[a])
  PROVE  /\ PostedKeys(a, n)' = PostedKeys(a, n)
         /\ \A type, key : Positions(a, n, type, key)' = Positions(a, n, type, key)
         /\ \A post, key : AsStreamed(post, a, n, key)' = AsStreamed(post, a, n, key)
<1>1. \A j \in 1..n : stream'[a][j] = stream[a][j]
  BY DEF Grows
<1>2. PostedKeys(a, n)' = PostedKeys(a, n)
  <2>1. {j \in 1..n : stream'[a][j].type = "Post"} = {j \in 1..n : stream[a][j].type = "Post"}
    BY <1>1
  <2>2. \A j \in 1..n : PostKey(a, stream'[a][j]) = PostKey(a, stream[a][j])
    BY <1>1
  <2>3. QED BY <2>1, <2>2 DEF PostedKeys
<1>3. \A type, key : Positions(a, n, type, key)' = Positions(a, n, type, key)
  BY <1>1 DEF Positions
<1>4. ASSUME NEW post, NEW key
      PROVE  AsStreamed(post, a, n, key)' = AsStreamed(post, a, n, key)
  <2>1. \A i \in Positions(a, n, "Comment", key) : stream'[a][i] = stream[a][i]
    BY <1>1 DEF Positions
  <2>2. QED BY <1>3, <2>1 DEF AsStreamed
<1>5. QED BY <1>2, <1>3, <1>4

(* More events post more, under other keys.                                 *)
LEMMA PostedGrow ==
  ASSUME NEW a, NEW n \in Nat, NEW m \in Nat, n <= m
  PROVE  PostedKeys(a, n) \subseteq PostedKeys(a, m)
BY DEF PostedKeys

LEMMA PostedByAuthor ==
  ASSUME NEW a, NEW n, NEW key \in PostedKeys(a, n)
  PROVE  key.author = a
BY DEF PostedKeys, PostKey

LEMMA PostedNext ==
  ASSUME NEW a, NEW n \in Nat
  PROVE  PostedKeys(a, n + 1)
           = PostedKeys(a, n) \cup (IF stream[a][n + 1].type = "Post"
                                    THEN {PostKey(a, stream[a][n + 1])} ELSE {})
<1>1. {j \in 1..(n + 1) : stream[a][j].type = "Post"}
        = {j \in 1..n : stream[a][j].type = "Post"}
            \cup (IF stream[a][n + 1].type = "Post" THEN {n + 1} ELSE {})
  <2>1. 1..(n + 1) = (1..n) \cup {n + 1}
    OBVIOUS
  <2>2. QED BY <2>1
<1>2. QED BY <1>1 DEF PostedKeys

LEMMA PositionsNext ==
  ASSUME NEW a, NEW n \in Nat, NEW type, NEW key
  PROVE  /\ stream[a][n + 1].type = type /\ stream[a][n + 1].key = key
              => Positions(a, n + 1, type, key) = Positions(a, n, type, key) \cup {n + 1}
         /\ stream[a][n + 1].type # type \/ stream[a][n + 1].key # key
              => Positions(a, n + 1, type, key) = Positions(a, n, type, key)
         /\ n + 1 \notin Positions(a, n, type, key)
<1>1. 1..(n + 1) = (1..n) \cup {n + 1} /\ n + 1 \notin 1..n
  OBVIOUS
<1>2. QED BY <1>1 DEF Positions

(* No two posts have the same index.                                        *)
LEMMA NewKey ==
  ASSUME CountsInv, NEW a \in Chains, NEW n \in Nat, n + 1 <= Len(stream[a]),
         stream[a][n + 1].type = "Post"
  PROVE  PostKey(a, stream[a][n + 1]) \notin PostedKeys(a, n)
<1> SUFFICES ASSUME PostKey(a, stream[a][n + 1]) \in PostedKeys(a, n) PROVE FALSE
  OBVIOUS
<1>1. PICK i \in 1..n : stream[a][i].type = "Post"
                        /\ PostKey(a, stream[a][n + 1]) = PostKey(a, stream[a][i])
  BY DEF PostedKeys
<1>2. stream[a][n + 1].index = stream[a][i].index
  BY <1>1 DEF PostKey
<1>3. Len(stream[a]) \in Nat /\ i \in 1..Len(stream[a]) /\ n + 1 \in 1..Len(stream[a])
  BY DEF CountsInv, Typed
<1>4. stream[a][i].index = Cardinality(Published(a, i - 1))
  BY <1>1, <1>3 DEF CountsInv, IndexCountsPosts, Published
<1>5. stream[a][n + 1].index = Cardinality(Published(a, n))
  <2>1. (n + 1) - 1 = n
    OBVIOUS
  <2>2. stream[a][n + 1].index = Cardinality(Published(a, (n + 1) - 1))
    BY <1>3 DEF CountsInv, IndexCountsPosts, Published
  <2>3. QED BY <2>1, <2>2
<1>6. Published(a, i - 1) \cup {i} \subseteq Published(a, n) /\ i \notin Published(a, i - 1)
  BY <1>1 DEF Published
<1>7. /\ IsFiniteSet(Published(a, n)) /\ Cardinality(Published(a, n)) \in Nat
      /\ IsFiniteSet(Published(a, i - 1)) /\ Cardinality(Published(a, i - 1)) \in Nat
  <2>1. i - 1 \in Nat
    OBVIOUS
  <2>2. QED BY <2>1, PublishedFinite
<1>8. Cardinality(Published(a, i - 1) \cup {i}) = Cardinality(Published(a, i - 1)) + 1
  BY <1>6, <1>7, FS_AddElement
<1>9. Cardinality(Published(a, i - 1) \cup {i}) <= Cardinality(Published(a, n))
  BY <1>6, <1>7, FS_Subset
<1>10. QED BY <1>2, <1>4, <1>5, <1>7, <1>8, <1>9

(* What is said is up to date when the next event is about something else.  *)
LEMMA OtherPost ==
  ASSUME NEW post, NEW a, NEW n \in Nat, NEW key, AsStreamed(post, a, n, key),
         stream[a][n + 1].type = "Post" \/ stream[a][n + 1].key # key
  PROVE  AsStreamed(post, a, n + 1, key)
<1>1. /\ Positions(a, n + 1, "Like", key) = Positions(a, n, "Like", key)
      /\ Positions(a, n + 1, "Comment", key) = Positions(a, n, "Comment", key)
  BY PositionsNext
<1>2. QED BY <1>1 DEF AsStreamed

LEMMA LikedPost ==
  ASSUME NEW post, NEW new, NEW a, NEW n \in Nat, NEW key, AsStreamed(post, a, n, key),
         stream[a][n + 1].type = "Like", stream[a][n + 1].key = key,
         new.likes = post.likes + 1, new.comments = post.comments
  PROVE  AsStreamed(new, a, n + 1, key)
<1>1. /\ Positions(a, n + 1, "Like", key) = Positions(a, n, "Like", key) \cup {n + 1}
      /\ Positions(a, n + 1, "Comment", key) = Positions(a, n, "Comment", key)
      /\ n + 1 \notin Positions(a, n, "Like", key)
  BY PositionsNext
<1>2. IsFiniteSet(Positions(a, n, "Like", key))
  BY PositionsFinite
<1>3. Cardinality(Positions(a, n + 1, "Like", key)) = Cardinality(Positions(a, n, "Like", key)) + 1
  BY <1>1, <1>2, FS_AddElement
<1>4. QED BY <1>1, <1>3 DEF AsStreamed

LEMMA CommentedPost ==
  ASSUME NEW post, NEW new, NEW a, NEW n \in Nat, NEW k, k = n + 1, NEW key,
         AsStreamed(post, a, n, key),
         stream[a][k].type = "Comment", stream[a][k].key = key,
         new.likes = post.likes,
         Len(new.comments) = Len(post.comments) + 1,
         \A i \in 1..Len(post.comments) : new.comments[i] = post.comments[i],
         new.comments[Len(new.comments)] = [chain_id |-> a, text |-> stream[a][k].comment]
  PROVE  AsStreamed(new, a, k, key)
<1> DEFINE P == Positions(a, n, "Comment", key)
           Q == Positions(a, k, "Comment", key)
<1>1. /\ Positions(a, k, "Like", key) = Positions(a, n, "Like", key)
      /\ Q = P \cup {k} /\ k \notin P
  <2>1. 1..k = (1..n) \cup {k} /\ k \notin 1..n
    OBVIOUS
  <2>2. QED BY <2>1 DEF Positions
<1>2. IsFiniteSet(P) /\ Cardinality(P) \in Nat /\ P \subseteq 1..n
  <2>1. IsFiniteSet(P) /\ Cardinality(P) \in 0..n
    BY PositionsFinite
  <2>2. QED BY <2>1 DEF Positions
<1>3. Cardinality(Q) = Cardinality(P) + 1
  BY <1>1, <1>2, FS_AddElement
<1>4. Len(post.comments) = Cardinality(P)
  BY DEF AsStreamed
<1>5. \A i \in P : post.comments[Cardinality(P \cap 1..i)]
                     = [chain_id |-> a, text |-> stream[a][i].comment]
  BY DEF AsStreamed
<1> HIDE DEF P, Q
<1>6. /\ Len(new.comments) = Cardinality(Q)
      /\ \A i \in 1..Cardinality(P) : new.comments[i] = post.comments[i]
      /\ new.comments[Cardinality(Q)] = [chain_id |-> a, text |-> stream[a][k].comment]
  BY <1>3, <1>4
<1>7. ASSUME NEW i \in Q
      PROVE  new.comments[Cardinality(Q \cap 1..i)]
               = [chain_id |-> a, text |-> stream[a][i].comment]
  <2>1. CASE i = k
    <3>1. Q \cap 1..i = Q
      <4>1. \A j \in 1..n : j \in 1..k
        OBVIOUS
      <4>2. k \in 1..k
        OBVIOUS
      <4>3. \A j \in Q : j \in 1..i
        BY <1>1, <1>2, <2>1, <4>1, <4>2
      <4>4. QED BY <4>3
    <3>2. QED BY <1>6, <2>1, <3>1
  <2>2. CASE i # k
    <3>1. i \in P /\ i \in 1..n
      BY <1>1, <1>2, <2>2
    <3>2. Q \cap 1..i = P \cap 1..i
      BY <1>1, <3>1
    <3>3. IsFiniteSet(P \cap 1..i) /\ Cardinality(P \cap 1..i) <= Cardinality(P)
          /\ Cardinality(P \cap 1..i) \in Nat
      <4>1. P \cap 1..i \subseteq P
        OBVIOUS
      <4>2. QED BY <1>2, <4>1, FS_Subset, FS_CardinalityType
    <3>4. Cardinality(P \cap 1..i) # 0
      <4>1. i \in P \cap 1..i
        BY <3>1
      <4>2. QED BY <3>3, <4>1, FS_EmptySet
    <3>5. Cardinality(P \cap 1..i) \in 1..Cardinality(P)
      BY <1>2, <3>3, <3>4
    <3>6. QED BY <1>5, <1>6, <3>1, <3>2, <3>5
  <2>3. QED BY <2>1, <2>2
<1>8. new.likes = Cardinality(Positions(a, k, "Like", key))
  BY <1>1 DEF AsStreamed
<1>9. QED BY <1>6, <1>7, <1>8 DEF AsStreamed, Q

-----------------------------------------------------------------------------
(* What a subscriber has caught up with.                                    *)

Caught(posts, a, n) ==
  \A key \in PostedKeys(a, n) : key \in DOMAIN posts /\ AsStreamed(posts[key], a, n, key)

Kept(posts, new, key) ==
  /\ key \in DOMAIN new <=> key \in DOMAIN posts
  /\ key \in DOMAIN posts => new[key] = posts[key]

(* Nobody reacted to a post before it.                                      *)
LEMMA NoReactionYet ==
  ASSUME CountsInv, ReactionsFollowPosts, NEW a \in Chains, NEW n \in Nat,
         NEW k \in 1..Len(stream[a]), k = n + 1, stream[a][k].type = "Post",
         NEW type \in {"Like", "Comment"}
  PROVE  Positions(a, k, type, PostKey(a, stream[a][k])) = {}
<1> DEFINE key == PostKey(a, stream[a][k])
<1>1. Len(stream[a]) \in Nat
  BY DEF CountsInv, Typed
<1>2. key \notin PostedKeys(a, n)
  BY <1>1, NewKey
<1>3. ASSUME NEW i \in Positions(a, k, type, key) PROVE FALSE
  <2>1. i \in 1..k /\ stream[a][i].type = type /\ stream[a][i].key = key
    BY DEF Positions
  <2>2. i \in 1..n /\ i - 1 \in Nat /\ i - 1 <= n /\ i \in 1..Len(stream[a])
    BY <1>1, <2>1
  <2>3. key \in PostedKeys(a, i - 1)
    BY <2>1, <2>2 DEF ReactionsFollowPosts
  <2>4. PostedKeys(a, i - 1) \subseteq PostedKeys(a, n)
    BY <2>2, PostedGrow
  <2>5. QED BY <1>2, <2>3, <2>4
<1>4. QED BY <1>3

(* A subscriber that has caught up with n events executes the next one, has *)
(* caught up with n + 1, and has left the posts of others alone.            *)
CatchesUp(posts, after, a, n) ==
  /\ Caught(after, a, n)
  /\ \A key : key \notin PostedKeys(a, n) => Kept(posts, after, key)

LEMMA EventMatches ==
  ASSUME CountsInv, ReactionsFollowPosts, NEW a \in Chains, NEW n \in Nat,
         NEW k \in 1..Len(stream[a]), k = n + 1,
         NEW view \in Views, Caught(view.posts, a, n), ~view.panicked,
         NEW new, new = ExecuteEvent(view, a, stream[a][k])
  PROVE  ~new.panicked /\ CatchesUp(view.posts, new.posts, a, k)
<1> PICK event : event = stream[a][k]
  OBVIOUS
<1> PICK posts, after : posts = view.posts /\ after = new.posts
  OBVIOUS
<1>1. event \in Event /\ event.type \in {"Post", "Like", "Comment"}
  <2>1. event \in Event
    BY DEF CountsInv, Typed
  <2>2. QED BY <2>1, EventsAre
<1>2. PostedKeys(a, k) = PostedKeys(a, n) \cup
        (IF event.type = "Post" THEN {PostKey(a, event)} ELSE {})
  BY PostedNext
<1>3. \A key \in PostedKeys(a, n) : key \in DOMAIN posts /\ AsStreamed(posts[key], a, n, key)
  BY DEF Caught
<1>4. \A key \in PostedKeys(a, n) :
        event.type = "Post" \/ event.key # key => AsStreamed(posts[key], a, k, key)
  BY <1>3, OtherPost
<1>5. event.type # "Post" => event.key \in PostedKeys(a, n)
  <2>1. k - 1 = n
    OBVIOUS
  <2>2. QED BY <2>1 DEF ReactionsFollowPosts
<1>6. ~new.panicked /\ Executed(view, new, a, event)
  <2>1. event.type = "Post" \/ event.key \in DOMAIN view.posts
    BY <1>3, <1>5
  <2>2. QED BY <1>1, <2>1, EventEffect
<1>7. CASE event.type = "Post"
  <2> PICK key : key = PostKey(a, event)
    OBVIOUS
  <2>1. /\ DOMAIN after = DOMAIN posts \cup {key}
        /\ after[key] = [likes |-> 0, comments |-> <<>>]
        /\ \A q \in DOMAIN posts : q # key => after[q] = posts[q]
    <3>1. /\ DOMAIN new.posts = DOMAIN view.posts \cup {PostKey(a, event)}
          /\ new.posts[PostKey(a, event)] = [likes |-> 0, comments |-> <<>>]
          /\ \A q \in DOMAIN view.posts :
               q # PostKey(a, event) => new.posts[q] = view.posts[q]
      BY <1>1, <1>6, <1>7, Zenon DEF Executed
    <3>2. QED BY <3>1
  <2>2. key \notin PostedKeys(a, n)
    <3>1. n + 1 <= Len(stream[a])
      BY DEF CountsInv, Typed
    <3>2. QED BY <1>7, <3>1, NewKey
  <2>3. Positions(a, k, "Like", key) = {} /\ Positions(a, k, "Comment", key) = {}
    BY <1>7, NoReactionYet
  <2>4. AsStreamed(after[key], a, k, key)
    <3>1. Cardinality({}) = 0 /\ Len(<<>>) = 0
      BY FS_EmptySet
    <3>2. PICK p : p = after[key] /\ p.likes = 0 /\ Len(p.comments) = 0
      BY <2>1, <3>1
    <3>3. AsStreamed(p, a, k, key)
      BY <2>3, <3>1, <3>2 DEF AsStreamed
    <3>4. QED BY <3>2, <3>3
  <2>5. ASSUME NEW q \in PostedKeys(a, k)
        PROVE  q \in DOMAIN after /\ AsStreamed(after[q], a, k, q)
    <3>1. CASE q = key
      BY <2>1, <2>4, <3>1
    <3>2. CASE q # key
      <4>1. q \in PostedKeys(a, n)
        BY <1>2, <1>7, <3>2
      <4>2. q \in DOMAIN posts /\ AsStreamed(posts[q], a, k, q)
        BY <1>3, <1>4, <1>7, <4>1
      <4>3. QED BY <2>1, <3>2, <4>2
    <3>3. QED BY <3>1, <3>2
  <2>6. \A q : q # key => Kept(posts, after, q)
    BY <2>1 DEF Kept
  <2>7. key \in PostedKeys(a, k)
    BY <1>2, <1>7
  <2>8. QED BY <1>6, <2>5, <2>6, <2>7 DEF Caught, CatchesUp
<1>8. CASE event.type # "Post"
  <2> PICK key : key = event.key
    OBVIOUS
  <2>1. /\ DOMAIN after = DOMAIN posts /\ key \in DOMAIN posts
        /\ \A q \in DOMAIN posts : q # key => after[q] = posts[q]
    <3>1. /\ DOMAIN new.posts = DOMAIN view.posts /\ event.key \in DOMAIN view.posts
          /\ \A q \in DOMAIN view.posts : q # event.key => new.posts[q] = view.posts[q]
      BY <1>1, <1>6, <1>8, Zenon DEF Executed
    <3>2. QED BY <3>1
  <2>2. key \in PostedKeys(a, n) /\ key \in PostedKeys(a, k)
    <3>1. key \in PostedKeys(a, n)
      BY <1>5, <1>8
    <3>2. QED BY <1>2, <3>1
  <2>3. AsStreamed(posts[key], a, n, key)
    BY <1>3, <2>2
  <2>4. AsStreamed(after[key], a, k, key)
    <3>1. CASE event.type = "Like"
      <4>1. after[key].likes = posts[key].likes + 1 /\ after[key].comments = posts[key].comments
        <5>1. /\ new.posts[event.key].likes = view.posts[event.key].likes + 1
              /\ new.posts[event.key].comments = view.posts[event.key].comments
          BY <1>1, <1>6, <3>1, Zenon DEF Executed
        <5>2. QED BY <5>1
      <4>2. QED BY <2>3, <3>1, <4>1, LikedPost
    <3>2. CASE event.type = "Comment"
      <4> PICK said : said = [chain_id |-> a, text |-> event.comment]
        OBVIOUS
      <4>1. /\ after[key].likes = posts[key].likes
            /\ after[key].comments = Append(posts[key].comments, said)
        <5>1. /\ new.posts[event.key].likes = view.posts[event.key].likes
              /\ new.posts[event.key].comments
                   = Append(view.posts[event.key].comments,
                            [chain_id |-> a, text |-> event.comment])
          BY <1>1, <1>6, <3>2, Zenon DEF Executed
        <5>2. QED BY <5>1
      <4>2. posts[key].comments \in Seq(Comment) /\ said \in Comment
        <5>1. posts[key] \in Post
          BY <2>1, PostMapsAre DEF Views
        <5>2. said \in Comment
          BY <1>1, <3>2, EventsAre DEF Comment
        <5>3. QED BY <5>1, <5>2 DEF Post
      <4>3. PICK old, p : old = posts[key] /\ p = after[key]
        OBVIOUS
      <4>4. PICK s \in Seq(Comment) : s = old.comments
        BY <4>2, <4>3
      <4>5. p.comments = Append(s, said) /\ p.likes = old.likes
        BY <4>1, <4>3, <4>4
      <4>6. /\ Len(Append(s, said)) = Len(s) + 1
            /\ \A i \in 1..Len(s) : Append(s, said)[i] = s[i]
            /\ Append(s, said)[Len(s) + 1] = said
        BY <4>2
      <4>7. AsStreamed(p, a, k, key)
        <5>1. AsStreamed(old, a, n, key)
          BY <2>3, <4>3
        <5>2. stream[a][k].type = "Comment" /\ stream[a][k].key = key
          BY <3>2
        <5>3. said = [chain_id |-> a, text |-> stream[a][k].comment]
          OBVIOUS
        <5>4. /\ Len(p.comments) = Len(old.comments) + 1
              /\ \A i \in 1..Len(old.comments) : p.comments[i] = old.comments[i]
              /\ p.comments[Len(p.comments)] = said
          BY <4>4, <4>5, <4>6
        <5>5. QED BY <4>5, <5>1, <5>2, <5>3, <5>4, CommentedPost
      <4>8. QED BY <4>3, <4>7
    <3>3. QED BY <1>1, <1>8, <3>1, <3>2
  <2>5. ASSUME NEW q \in PostedKeys(a, k)
        PROVE  q \in DOMAIN after /\ AsStreamed(after[q], a, k, q)
    <3>1. CASE q = key
      BY <2>1, <2>4, <3>1
    <3>2. CASE q # key
      <4>1. q \in PostedKeys(a, n)
        BY <1>2, <1>8
      <4>2. q \in DOMAIN posts /\ AsStreamed(posts[q], a, k, q)
        BY <1>3, <1>4, <3>2, <4>1
      <4>3. QED BY <2>1, <3>2, <4>2
    <3>3. QED BY <3>1, <3>2
  <2>6. \A q : q # key => Kept(posts, after, q)
    BY <2>1 DEF Kept
  <2>7. QED BY <1>6, <2>2, <2>5, <2>6 DEF Caught, CatchesUp
<1>9. QED BY <1>6, <1>7, <1>8

LEMMA KeptTwice ==
  ASSUME NEW p, NEW q, NEW r, NEW key, Kept(p, q, key), Kept(q, r, key)
  PROVE  Kept(p, r, key)
BY DEF Kept

LEMMA CaughtKept ==
  ASSUME NEW p, NEW q, NEW a, NEW n, Caught(p, a, n),
         \A key \in PostedKeys(a, n) : Kept(p, q, key)
  PROVE  Caught(q, a, n)
BY DEF Caught, Kept

(* An update: the events from where the subscriber is to `last`.            *)
RunOfUpdate(m, n, views, view, c, a, last, new) ==
  /\ m \in Nat /\ n \in Nat /\ m = next_index[c][a] /\ m + n = last
  /\ views \in [0..n -> Views] /\ views[0] = view /\ views[n] = new
  /\ \A i \in 1..n : views[i] = ExecuteEvent(views[i - 1], a, stream[a][m + i])

LEMMA UpdateRun ==
  ASSUME Typed, NEW c, NEW a \in Chains, NEW last, Ahead(c, a, last),
         NEW view \in Views, NEW new, new = ExecuteUpdate(view, c, a, last)
  PROVE  \E m, n, views : RunOfUpdate(m, n, views, view, c, a, last, new)
<1> PICK m \in Nat : m = next_index[c][a]
  BY DEF Ahead
<1>1. last \in Nat /\ m <= last /\ last <= Len(stream[a]) /\ Len(stream[a]) \in Nat
      /\ stream \in [Chains -> Seq(Event)]
  BY DEF Ahead, Typed
<1>2. Brings(NewIndices(c, a, last), a, m, last)
  BY <1>1, NewEvents
<1>3. PICK events : events = NewIndices(c, a, last)
  OBVIOUS
<1>4. PICK n \in Nat : n = last - m
  BY <1>1
<1>5. events \in Seq(Event) /\ Len(events) = n
      /\ \A i \in 1..n : events[i] = stream[a][m + i]
  BY <1>2, <1>3, <1>4 DEF Brings
<1>6. PICK views : RunOfEvents(views, view, a, events, new)
  <2>1. NewIndices(c, a, last) \in Seq(Event)
    BY <1>3, <1>5
  <2>2. \E views :
          RunOfEvents(views, view, a, NewIndices(c, a, last), ExecuteUpdate(view, c, a, last))
    BY <2>1, UpdateRuns
  <2>3. QED BY <1>3, <2>2
<1>7. /\ views \in [0..n -> Views] /\ views[0] = view /\ views[n] = new
      /\ \A i \in 1..n : views[i] = ExecuteEvent(views[i - 1], a, stream[a][m + i])
  BY <1>5, <1>6 DEF RunOfEvents
<1>8. m + n = last
  BY <1>1, <1>4
<1>9. RunOfUpdate(m, n, views, view, c, a, last, new)
  BY <1>7, <1>8 DEF RunOfUpdate
<1>10. QED BY <1>9

LEMMA UpdateMatches ==
  ASSUME CountsInv, ReactionsFollowPosts, NEW c, NEW a \in Chains, NEW last,
         Ahead(c, a, last), NEW view \in Views, Caught(view.posts, a, next_index[c][a]),
         ~view.panicked, NEW new, new = ExecuteUpdate(view, c, a, last)
  PROVE  ~new.panicked /\ CatchesUp(view.posts, new.posts, a, last)
<1>1. Typed
  BY DEF CountsInv
<1>2. PICK m, n, views : RunOfUpdate(m, n, views, view, c, a, last, new)
  BY <1>1, UpdateRun
<1>3. /\ m \in Nat /\ n \in Nat /\ m = next_index[c][a] /\ m + n = last
      /\ views \in [0..n -> Views] /\ views[0] = view /\ views[n] = new
      /\ \A i \in 1..n : views[i] = ExecuteEvent(views[i - 1], a, stream[a][m + i])
  BY <1>2 DEF RunOfUpdate
<1>4. last \in Nat /\ last <= Len(stream[a]) /\ Len(stream[a]) \in Nat
  BY <1>1 DEF Ahead, Typed
<1> DEFINE Good == {i \in 0..n : /\ ~views[i].panicked
                                 /\ CatchesUp(view.posts, views[i].posts, a, m + i)}
<1>5. 0 \in Good
  <2>1. m + 0 = m /\ 0 \in 0..n
    BY <1>3
  <2>2. \A key : Kept(view.posts, view.posts, key)
    BY DEF Kept
  <2>3. Caught(view.posts, a, m)
    BY <1>3
  <2>4. CatchesUp(view.posts, view.posts, a, m)
    BY <2>2, <2>3 DEF CatchesUp
  <2>5. QED BY <1>3, <2>1, <2>4
<1>6. ASSUME NEW i \in 1..n, i - 1 \in Good PROVE i \in Good
  <2>1. PICK j \in Nat, k \in 1..Len(stream[a]) : j = m + (i - 1) /\ k = m + i /\ k = j + 1
    <3>1. m \in Nat /\ n \in Nat /\ m + n <= Len(stream[a]) /\ Len(stream[a]) \in Nat
      BY <1>3, <1>4
    <3>2. PICK l \in Nat : l = Len(stream[a])
      BY <3>1
    <3>3. m + (i - 1) \in Nat /\ m + i \in 1..l /\ m + i = (m + (i - 1)) + 1
      BY <3>1, <3>2
    <3>4. QED BY <3>2, <3>3
  <2>2. PICK before \in Views, after \in Views : before = views[i - 1] /\ after = views[i]
    BY <1>3
  <2>3. after = ExecuteEvent(before, a, stream[a][k])
    BY <1>3, <2>1, <2>2
  <2>4. ~before.panicked /\ CatchesUp(view.posts, before.posts, a, j)
    BY <1>6, <2>1, <2>2
  <2>5. Caught(before.posts, a, j)
    BY <2>4 DEF CatchesUp
  <2>6. ~after.panicked /\ CatchesUp(before.posts, after.posts, a, k)
    BY <2>1, <2>3, <2>4, <2>5, EventMatches
  <2>7. PostedKeys(a, j) \subseteq PostedKeys(a, k)
    BY <2>1, PostedGrow
  <2>8. \A key : key \notin PostedKeys(a, k) => Kept(view.posts, after.posts, key)
    BY <2>4, <2>6, <2>7, KeptTwice DEF CatchesUp
  <2>9. CatchesUp(view.posts, after.posts, a, k)
    BY <2>6, <2>8 DEF CatchesUp
  <2>10. QED BY <2>1, <2>2, <2>6, <2>9
<1>7. n \in Good
  <2> HIDE DEF Good
  <2>1. n \in 0..n
    BY <1>3
  <2>2. \A i \in 0..n : i \in Good
    BY <1>3, <1>5, <1>6, UpTo
  <2>3. QED BY <2>1, <2>2
<1>8. QED BY <1>3, <1>7

(* A block of updates: only the posts of the authors listed change.         *)
LEMMA BlockMatches ==
  ASSUME CountsInv, ReactionsFollowPosts, NEW c \in Chains, NEW authors, NEW order, NEW next,
         NEW n, NEW views, RunOfBlock(n, views, c, authors, order, next),
         \A a \in authors : Ahead(c, a, next[a]),
         \A a \in authors : Caught(received_posts[c], a, next_index[c][a])
  PROVE  /\ ~views[n].panicked
         /\ \A i \in 1..n : Caught(views[n].posts, order[i], next[order[i]])
         /\ \A key : (\A i \in 1..n : key \notin PostedKeys(order[i], next[order[i]])) =>
              Kept(received_posts[c], views[n].posts, key)
<1>1. /\ n \in Nat /\ views \in [0..n -> Views]
      /\ \A i \in 1..n : order[i] \in authors
      /\ \A i, j \in 1..n : i # j => order[i] # order[j]
      /\ views[0] = [posts |-> received_posts[c], panicked |-> FALSE]
      /\ \A i \in 1..n : views[i] = ExecuteUpdate(views[i - 1], c, order[i], next[order[i]])
  BY DEF RunOfBlock
<1>2. Typed
  BY DEF CountsInv
<1> PICK old : old = received_posts[c]
  OBVIOUS
<1>3. views[0].posts = old /\ ~views[0].panicked
  BY <1>1
<1>4. ASSUME NEW j \in 1..n
      PROVE  \E a \in Chains, last \in Nat, before \in Views, after \in Views :
               /\ a = order[j] /\ last = next[a] /\ before = views[j - 1] /\ after = views[j]
               /\ Ahead(c, a, last) /\ Caught(old, a, next_index[c][a])
               /\ after = ExecuteUpdate(before, c, a, last)
  <2>1. PICK a \in authors : a = order[j]
    BY <1>1
  <2>2. PICK last : last = next[a]
    OBVIOUS
  <2>3. a \in Chains /\ last \in Nat /\ Ahead(c, a, last)
    BY <2>1, <2>2 DEF Ahead
  <2>4. Caught(old, a, next_index[c][a])
    BY <2>1
  <2>5. PICK before \in Views, after \in Views : before = views[j - 1] /\ after = views[j]
    BY <1>1
  <2>6. after = ExecuteUpdate(before, c, a, last)
    BY <1>1, <2>1, <2>2, <2>5
  <2>7. QED BY <2>1, <2>2, <2>3, <2>4, <2>5, <2>6
<1> DEFINE Done(j) ==
             /\ ~views[j].panicked
             /\ \A i \in 1..j : Caught(views[j].posts, order[i], next[order[i]])
             /\ \A key : (\A i \in 1..j : key \notin PostedKeys(order[i], next[order[i]])) =>
                  Kept(old, views[j].posts, key)
           Good == {j \in 0..n : Done(j)}
<1>5. ASSUME NEW j \in 1..n, Done(j - 1) PROVE Done(j)
  <2>1. PICK a \in Chains, last \in Nat, before \in Views, after \in Views :
          /\ a = order[j] /\ last = next[a] /\ before = views[j - 1] /\ after = views[j]
          /\ Ahead(c, a, last) /\ Caught(old, a, next_index[c][a])
          /\ after = ExecuteUpdate(before, c, a, last)
    BY <1>4
  <2>2. PICK m \in Nat : m = next_index[c][a]
    BY <2>1 DEF Ahead
  <2>3. \A i \in 1..(j - 1) : i \in 1..n /\ order[i] # a
    BY <1>1, <2>1
  <2>4. ASSUME NEW key, key.author = a
        PROVE  \A i \in 1..(j - 1) : key \notin PostedKeys(order[i], next[order[i]])
    BY <2>3, <2>4, PostedByAuthor
  <2>5. \A key \in PostedKeys(a, m) : Kept(old, before.posts, key)
    BY <1>5, <2>1, <2>4, PostedByAuthor
  <2>6. Caught(before.posts, a, m)
    BY <2>1, <2>2, <2>5, CaughtKept
  <2>7. ~after.panicked /\ CatchesUp(before.posts, after.posts, a, last)
    <3>1. Caught(before.posts, a, next_index[c][a])
      BY <2>2, <2>6
    <3>2. ~before.panicked
      BY <1>5, <2>1
    <3>3. QED BY <2>1, <3>1, <3>2, UpdateMatches
  <2>8. ASSUME NEW i \in 1..j PROVE Caught(after.posts, order[i], next[order[i]])
    <3>1. CASE i = j
      BY <2>1, <2>7, <3>1 DEF CatchesUp
    <3>2. CASE i # j
      <4>1. i \in 1..(j - 1)
        BY <3>2
      <4>2. Caught(before.posts, order[i], next[order[i]])
        BY <1>5, <2>1, <4>1
      <4>3. \A key \in PostedKeys(order[i], next[order[i]]) : key \notin PostedKeys(a, last)
        BY <2>3, <4>1, PostedByAuthor
      <4>4. \A key \in PostedKeys(order[i], next[order[i]]) : Kept(before.posts, after.posts, key)
        BY <2>7, <4>3 DEF CatchesUp
      <4>5. QED BY <4>2, <4>4, CaughtKept
    <3>3. QED BY <3>1, <3>2
  <2>9. ASSUME NEW key, \A i \in 1..j : key \notin PostedKeys(order[i], next[order[i]])
        PROVE  Kept(old, after.posts, key)
    <3>1. \A i \in 1..(j - 1) : i \in 1..j
      OBVIOUS
    <3>2. Kept(old, before.posts, key)
      BY <1>5, <2>1, <2>9, <3>1
    <3>3. key \notin PostedKeys(a, last)
      BY <2>1, <2>9
    <3>4. Kept(before.posts, after.posts, key)
      BY <2>7, <3>3 DEF CatchesUp
    <3>5. QED BY <3>2, <3>4, KeptTwice
  <2>10. QED BY <2>1, <2>7, <2>8, <2>9
<1>6. Done(0)
  <2>1. \A key : Kept(old, old, key)
    BY DEF Kept
  <2>2. 1..0 = {}
    OBVIOUS
  <2>3. QED BY <1>3, <2>1, <2>2
<1> HIDE DEF Done
<1>7. Done(n)
  <2>1. 0 \in Good /\ n \in 0..n
    BY <1>1, <1>6
  <2>2. \A j \in 1..n : j - 1 \in Good => j \in Good
    BY <1>1, <1>5
  <2> HIDE DEF Good
  <2>3. n \in Good
    BY <1>1, <2>1, <2>2, UpTo
  <2>4. QED BY <2>3 DEF Good
<1>8. QED BY <1>7 DEF Done

-----------------------------------------------------------------------------
(* Users name posts that exist, as long as they name posts they see.        *)

AllPosted(a) == PostedKeys(a, Len(stream[a]))

OwnPosted ==
  \A c \in Chains : \A i \in DOMAIN own_posts[c] :
    [timestamp |-> own_posts[c][i], author |-> c, index |-> i] \in AllPosted(c)

ReceivedPosted ==
  \A c \in Chains : \A key \in DOMAIN received_posts[c] :
    key \in AllPosted(key.author) /\ received_posts[c][key].likes <= MaxEvents

SentPosted ==
  \A a, c \in Chains : \A i \in 1..Len(inbox[a][c]) : inbox[a][c][i].key \in AllPosted(a)

PostsInv ==
  CountsInv /\ OwnPosted /\ ReceivedPosted /\ SentPosted
    /\ ReactionsFollowPosts /\ ReceivedMatchesStream

LEMMA PostsInitInv == Init => PostsInv
<1> SUFFICES ASSUME Init PROVE PostsInv
  OBVIOUS
<1>1. CountsInv
  BY CountsInitInv
<1>2. /\ \A c \in Chains : /\ own_posts[c] = <<>> /\ received_posts[c] = <<>>
                           /\ Len(stream[c]) = 0
      /\ \A a, c \in Chains : next_index[c][a] = NotSubscribed /\ Len(inbox[a][c]) = 0
  BY DEF Init
<1>3. OwnPosted /\ ReceivedPosted
  BY <1>2 DEF OwnPosted, ReceivedPosted
<1>4. SentPosted
  BY <1>2 DEF SentPosted
<1>5. ReactionsFollowPosts /\ ReceivedMatchesStream
  BY <1>2 DEF ReactionsFollowPosts, ReceivedMatchesStream
<1>6. QED BY <1>1, <1>3, <1>4, <1>5 DEF PostsInv

LEMMA PostedStays ==
  ASSUME Grows, NEW a \in Chains
  PROVE  AllPosted(a) \subseteq AllPosted(a)'
<1> PICK n \in Nat : n = Len(stream[a])
  BY DEF Grows
<1>1. Len(stream'[a]) \in Nat /\ n <= Len(stream'[a])
  BY DEF Grows
<1>2. PostedKeys(a, n)' = PostedKeys(a, n)
  BY StreamSaysStill
<1>3. PostedKeys(a, n)' \subseteq AllPosted(a)'
  <2>1. \A j \in 1..n : j \in 1..Len(stream'[a])
    BY <1>1
  <2>2. QED BY <2>1 DEF PostedKeys, AllPosted
<1>4. QED BY <1>2, <1>3 DEF AllPosted

(* Whoever read a stream has read what it still says.                       *)
LEMMA ReadersKeep ==
  ASSUME Typed, ReceivedPosted, ReceivedMatchesStream, Grows,
         UNCHANGED <<received_posts, next_index>>
  PROVE  ReceivedPosted' /\ ReceivedMatchesStream'
<1>1. Typed
  OBVIOUS
<1>2. ReceivedPosted'
  <2> SUFFICES ASSUME NEW c \in Chains, NEW key \in DOMAIN received_posts[c]
      PROVE  key \in AllPosted(key.author)' /\ received_posts[c][key].likes <= MaxEvents
    BY DEF ReceivedPosted
  <2>1. key \in Key
    BY <1>1, PostMapsAre DEF Typed
  <2>2. PICK a \in Chains : a = key.author
    BY <2>1 DEF Key
  <2>3. key \in AllPosted(a) /\ received_posts[c][key].likes <= MaxEvents
    BY <2>2 DEF ReceivedPosted
  <2>4. key \in AllPosted(a)'
    BY <2>3, PostedStays
  <2>5. QED BY <2>2, <2>3, <2>4
<1>3. ASSUME NEW c \in Chains, NEW a \in Chains, next_index[c][a] # NotSubscribed,
             NEW key \in PostedKeys(a, next_index[c][a])'
      PROVE  /\ key \in DOMAIN received_posts[c]
             /\ AsStreamed(received_posts[c][key], a, next_index[c][a], key)'
  <2>1. PICK n \in Nat : n = next_index[c][a] /\ n <= Len(stream[a])
    BY <1>1, <1>3, SocialAssumption DEF Typed, NotSubscribed
  <2>2. PICK post : post = received_posts[c][key]
    OBVIOUS
  <2>3. PostedKeys(a, n)' = PostedKeys(a, n)
        /\ AsStreamed(post, a, n, key)' = AsStreamed(post, a, n, key)
    BY <2>1, StreamSaysStill
  <2>4. key \in PostedKeys(a, n)
    BY <1>3, <2>1, <2>3
  <2>5. key \in DOMAIN received_posts[c] /\ AsStreamed(post, a, n, key)
    BY <1>3, <2>1, <2>2, <2>4 DEF ReceivedMatchesStream
  <2>6. QED BY <2>1, <2>2, <2>3, <2>5
<1>4. ReceivedMatchesStream'
  BY <1>3 DEF ReceivedMatchesStream
<1>5. QED BY <1>2, <1>4

(* What is put on a stream next is a post, or about a post that is there.   *)
LEMMA ReactionsKeep ==
  ASSUME ReactionsFollowPosts, Grows,
         \A a \in Chains : \A i \in 1..Len(stream'[a]) :
           i > Len(stream[a]) /\ stream'[a][i].type # "Post" =>
             i = Len(stream[a]) + 1 /\ stream'[a][i].key \in AllPosted(a)
  PROVE  ReactionsFollowPosts'
<1> SUFFICES ASSUME NEW a \in Chains, NEW i \in 1..Len(stream'[a]), stream'[a][i].type # "Post"
    PROVE  stream'[a][i].key \in PostedKeys(a, i - 1)'
  BY DEF ReactionsFollowPosts
<1>1. PICK j \in Nat, n \in Nat : j = i - 1 /\ n = Len(stream[a])
  <2>1. Len(stream[a]) \in Nat
    BY DEF Grows
  <2>2. i - 1 \in Nat
    OBVIOUS
  <2>3. QED BY <2>1, <2>2
<1>2. i \in 1..n \/ i > n
  BY <1>1 DEF Grows
<1>3. CASE i \in 1..n
  <2>1. stream'[a][i] = stream[a][i] /\ j <= n
    BY <1>1, <1>3 DEF Grows
  <2>2. stream[a][i].key \in PostedKeys(a, j)
    BY <1>1, <1>3, <2>1 DEF ReactionsFollowPosts
  <2>3. PostedKeys(a, j)' = PostedKeys(a, j)
    BY <1>1, <2>1, StreamSaysStill
  <2>4. QED BY <1>1, <2>1, <2>2, <2>3
<1>4. CASE i > n
  <2>1. i = n + 1 /\ stream'[a][i].key \in AllPosted(a)
    BY <1>1, <1>4
  <2>2. j = n
    BY <1>1, <2>1
  <2>3. PostedKeys(a, n)' = PostedKeys(a, n)
    BY <1>1, StreamSaysStill
  <2>4. stream'[a][i].key \in PostedKeys(a, n)
    BY <1>1, <2>1 DEF AllPosted
  <2>5. QED BY <1>1, <2>2, <2>3, <2>4
<1>5. QED BY <1>2, <1>3, <1>4

LEMMA VisiblePosted ==
  ASSUME PostsInv, NEW c \in Chains, NEW key \in VisibleKeys(c)
  PROVE  key \in AllPosted(key.author)
BY DEF PostsInv, OwnPosted, ReceivedPosted, VisibleKeys

LEMMA OwnKeep ==
  ASSUME PostsInv, Grows, UNCHANGED own_posts
  PROVE  OwnPosted'
<1>1. \A c \in Chains : AllPosted(c) \subseteq AllPosted(c)'
  BY PostedStays
<1>2. QED BY <1>1 DEF PostsInv, OwnPosted

LEMMA PostTyped ==
  ASSUME Typed, PostsKept, NEW c \in Chains, NEW time \in Times,
         ExecutePostOperation(c, time)
  PROVE  /\ PostIndex(c) \in 0..MaxPosts
         /\ [type |-> "Post", timestamp |-> time, index |-> PostIndex(c)] \in Event
<1>1. Count(c) \in Nat
  <2>1. Len(stream[c]) \in Nat
    BY DEF Typed
  <2>2. QED BY <2>1, PublishedFinite DEF Count
<1>2. DOMAIN own_posts[c] = 0..(Count(c) - 1)
  BY DEF PostsKept
<1>3. IsFiniteSet(0..(Count(c) - 1))
  <2>1. Count(c) - 1 \in Int /\ 0 \in Int
    BY <1>1
  <2>2. QED BY <2>1, FS_Interval
<1>4. Cardinality(DOMAIN own_posts[c]) \in Nat
  BY <1>2, <1>3, FS_CardinalityType
<1>5. PostIndex(c) \in 0..MaxPosts
  BY <1>4, SocialAssumption DEF PostIndex, ExecutePostOperation
<1>6. QED BY <1>5 DEF Event

LEMMA PostsPost ==
  ASSUME PostsInv, NEW c \in Chains, NEW time \in Times, ExecutePostOperation(c, time)
  PROVE  PostsInv'
<1>1. CountsInv /\ Typed /\ PostsKept
  BY DEF PostsInv, CountsInv
<1>2. CountsInv'
  BY <1>1, CountsPost
<1> PICK m : m = PostIndex(c)
  OBVIOUS
<1> DEFINE event == [type |-> "Post", timestamp |-> time, index |-> m]
<1>4. m \in 0..MaxPosts /\ event \in Event
  BY <1>1, PostTyped
<1>5. /\ Emit(c, event) /\ own_posts' = [own_posts EXCEPT ![c] = Put(@, m, time)]
      /\ UNCHANGED <<received_posts, next_index, inbox>>
  BY DEF ExecutePostOperation
<1>6. /\ Grows /\ Len(stream'[c]) = Len(stream[c]) + 1
      /\ stream'[c][Len(stream[c]) + 1] = event
      /\ \A b \in Chains : b # c => stream'[b] = stream[b]
  BY <1>1, <1>4, <1>5, EmitGrows
<1>7. PostKey(c, event) \in AllPosted(c)'
  <2>1. Len(stream'[c]) \in 1..Len(stream'[c]) /\ stream'[c][Len(stream'[c])] = event
    BY <1>6 DEF Grows
  <2>2. QED BY <2>1 DEF AllPosted, PostedKeys
<1>8. \A b \in Chains : AllPosted(b) \subseteq AllPosted(b)'
  BY <1>6, PostedStays
<1>9. OwnPosted'
  <2> SUFFICES ASSUME NEW b \in Chains, NEW i \in DOMAIN own_posts'[b]
      PROVE  [timestamp |-> own_posts'[b][i], author |-> b, index |-> i] \in AllPosted(b)'
    BY DEF OwnPosted
  <2>1. CASE b = c /\ i = m
    <3>1. own_posts'[b] = Put(own_posts[c], m, time)
      BY <1>1, <1>5, <2>1 DEF PostsKept
    <3>2. own_posts'[b][i] = time
      BY <2>1, <3>1 DEF Put
    <3>3. QED BY <1>7, <2>1, <3>2 DEF PostKey
  <2>2. CASE ~(b = c /\ i = m)
    <3>1. i \in DOMAIN own_posts[b] /\ own_posts'[b][i] = own_posts[b][i]
      <4>1. CASE b = c
        <5>1. own_posts'[b] = Put(own_posts[b], m, time)
          BY <1>1, <1>5, <4>1 DEF PostsKept
        <5>2. QED BY <2>2, <4>1, <5>1 DEF Put
      <4>2. CASE b # c
        BY <1>1, <1>5, <4>2 DEF PostsKept
      <4>3. QED BY <4>1, <4>2
    <3>2. [timestamp |-> own_posts[b][i], author |-> b, index |-> i] \in AllPosted(b)
      BY <3>1 DEF PostsInv, OwnPosted
    <3>3. QED BY <1>8, <3>1, <3>2
  <2>3. QED BY <2>1, <2>2
<1>10. SentPosted'
  BY <1>5, <1>8 DEF PostsInv, SentPosted
<1>11. ReactionsFollowPosts'
  <2>1. ASSUME NEW a \in Chains, NEW i \in 1..Len(stream'[a]), i > Len(stream[a])
        PROVE  stream'[a][i].type = "Post"
    <3>1. a = c
      BY <1>6, <2>1 DEF Grows
    <3>2. i = Len(stream[c]) + 1
      BY <1>6, <2>1, <3>1 DEF Grows
    <3>3. QED BY <1>6, <3>1, <3>2
  <2>2. QED BY <1>6, <2>1, ReactionsKeep DEF PostsInv
<1>12. ReceivedPosted' /\ ReceivedMatchesStream'
  BY <1>1, <1>5, <1>6, ReadersKeep DEF PostsInv
<1>13. QED BY <1>2, <1>9, <1>10, <1>11, <1>12 DEF PostsInv

LEMMA ReadersCaughtUp ==
  ReceivedMatchesStream <=>
    \A c, a \in Chains : next_index[c][a] # NotSubscribed =>
      Caught(received_posts[c], a, next_index[c][a])
BY DEF ReceivedMatchesStream, Caught

LEMMA CaughtStill ==
  ASSUME Grows, NEW a \in Chains, NEW n \in Nat, n <= Len(stream[a]), NEW posts,
         Caught(posts, a, n)
  PROVE  Caught(posts, a, n)'
<1>1. PostedKeys(a, n)' = PostedKeys(a, n)
      /\ \A post, key : AsStreamed(post, a, n, key)' = AsStreamed(post, a, n, key)
  BY StreamSaysStill
<1>2. QED BY <1>1 DEF Caught

(* Whoever subscribes has read nothing.                                     *)
LEMMA ReadersSubscribe ==
  ASSUME Typed, ReceivedPosted, ReceivedMatchesStream, NEW c \in Chains, NEW a \in Chains,
         Subscribe(c, a) \/ Unsubscribe(c, a)
  PROVE  ReceivedPosted' /\ ReceivedMatchesStream'
<1>1. Typed
  OBVIOUS
<1>3. UNCHANGED <<own_posts, received_posts, stream, inbox>>
  BY DEF Subscribe, Unsubscribe
<1>4. Grows
  BY <1>1, <1>3, SameGrows
<1>5. ReceivedPosted'
  <2>1. \A b : AllPosted(b)' = AllPosted(b)
    BY <1>3 DEF AllPosted, PostedKeys
  <2>2. QED BY <1>3, <2>1 DEF ReceivedPosted
<1>7. ASSUME NEW d \in Chains, NEW b \in Chains, next_index'[d][b] # NotSubscribed,
             NEW key \in PostedKeys(b, next_index[d][b])'
      PROVE  /\ key \in DOMAIN received_posts[d]
             /\ AsStreamed(received_posts[d][key], b, next_index[d][b], key)'
  <2>1. PICK n : n = next_index'[d][b]
    OBVIOUS
  <2>2. n = 0 \/ n = next_index[d][b]
    <3>1. PICK k \in {0, NotSubscribed, next_index[c][a]} :
            next_index' = [next_index EXCEPT ![c][a] = k]
      BY <1>1 DEF Typed, Subscribe, Unsubscribe
    <3>2. next_index \in [Chains -> [Chains -> NotSubscribed..MaxEvents]]
      BY <1>1 DEF Typed
    <3>3. next_index'[d][b] = IF d = c /\ b = a THEN k ELSE next_index[d][b]
      BY <3>1, <3>2
    <3>4. QED BY <1>7, <2>1, <3>1, <3>3
  <2>3. CASE n = 0
    <3>1. 1..0 = {}
      OBVIOUS
    <3>2. QED BY <1>7, <2>1, <2>3, <3>1 DEF PostedKeys
  <2>4. CASE n = next_index[d][b]
    <3>1. n \in Nat /\ n <= Len(stream[b])
      <4>1. n # -1 /\ n \in -1..MaxEvents /\ n <= Len(stream[b])
        BY <1>1, <1>7, <2>1, <2>4 DEF Typed, NotSubscribed
      <4>2. QED BY <4>1, SocialAssumption
    <3>2. PICK post : post = received_posts[d][key]
      OBVIOUS
    <3>3. PostedKeys(b, n)' = PostedKeys(b, n)
          /\ AsStreamed(post, b, n, key)' = AsStreamed(post, b, n, key)
      BY <1>4, <3>1, StreamSaysStill
    <3>4. key \in PostedKeys(b, n)
      BY <1>7, <2>1, <3>3
    <3>5. key \in DOMAIN received_posts[d] /\ AsStreamed(post, b, n, key)
      BY <1>7, <2>1, <2>4, <3>2, <3>4 DEF ReceivedMatchesStream
    <3>6. QED BY <1>3, <2>1, <3>2, <3>3, <3>5
  <2>5. QED BY <2>2, <2>3, <2>4
<1>8. ReceivedMatchesStream'
  BY <1>3, <1>7 DEF ReceivedMatchesStream
<1>9. QED BY <1>5, <1>8

LEMMA PostsSubscription ==
  ASSUME PostsInv, NEW c \in Chains, NEW a \in Chains, Subscribe(c, a) \/ Unsubscribe(c, a)
  PROVE  PostsInv'
<1>1. CountsInv /\ Typed
  BY DEF PostsInv, CountsInv
<1>2. CountsInv'
  BY <1>1, CountsSubscription
<1>3. UNCHANGED <<own_posts, received_posts, stream, inbox>>
  BY DEF Subscribe, Unsubscribe
<1>4. OwnPosted' /\ SentPosted'
  <2>1. \A b : AllPosted(b)' = AllPosted(b)
    BY <1>3 DEF AllPosted, PostedKeys
  <2>2. QED BY <1>3, <2>1 DEF PostsInv, OwnPosted, SentPosted
<1>5. ReactionsFollowPosts'
  BY <1>3 DEF PostsInv, ReactionsFollowPosts, PostedKeys
<1>6. ReceivedPosted' /\ ReceivedMatchesStream'
  BY <1>1, ReadersSubscribe DEF PostsInv
<1>7. QED BY <1>2, <1>4, <1>5, <1>6 DEF PostsInv

(* A like or a comment about a post that is on the stream is put on it.     *)
LEMMA PostsEmit ==
  ASSUME PostsInv, CountsInv', NEW a \in Chains, NEW reaction \in Message,
         reaction.key \in AllPosted(a), Emit(a, reaction),
         UNCHANGED <<own_posts, received_posts, next_index>>,
         Grows => SentPosted'
  PROVE  PostsInv'
<1>1. Typed /\ reaction \in Event
  BY DEF PostsInv, CountsInv, Message
<1>2. /\ Grows /\ Len(stream'[a]) = Len(stream[a]) + 1
      /\ stream'[a][Len(stream[a]) + 1] = reaction
      /\ \A b \in Chains : b # a => stream'[b] = stream[b]
  BY <1>1, EmitGrows
<1>3. ASSUME NEW b \in Chains, NEW i \in 1..Len(stream'[b]), i > Len(stream[b])
      PROVE  i = Len(stream[b]) + 1 /\ stream'[b][i].key \in AllPosted(b)
  <2>1. b = a
    BY <1>2, <1>3 DEF Grows
  <2>2. i = Len(stream[a]) + 1
    BY <1>2, <1>3, <2>1 DEF Grows
  <2>3. QED BY <1>2, <2>1, <2>2
<1>4. ReactionsFollowPosts'
  BY <1>2, <1>3, ReactionsKeep DEF PostsInv
<1>5. ReceivedPosted' /\ ReceivedMatchesStream' /\ OwnPosted'
  BY <1>1, <1>2, ReadersKeep, OwnKeep DEF PostsInv
<1>6. QED BY <1>2, <1>4, <1>5 DEF PostsInv

(* Nothing happens on streams.                                              *)
LEMMA PostsStill ==
  ASSUME PostsInv, CountsInv', SentPosted',
         UNCHANGED <<own_posts, received_posts, next_index, stream>>
  PROVE  PostsInv'
<1>1. Grows
  BY SameGrows DEF PostsInv, CountsInv
<1>2. ReactionsFollowPosts'
  BY DEF PostsInv, ReactionsFollowPosts, PostedKeys
<1>3. ReceivedPosted' /\ ReceivedMatchesStream' /\ OwnPosted'
  BY <1>1, ReadersKeep, OwnKeep DEF PostsInv, CountsInv
<1>4. QED BY <1>2, <1>3 DEF PostsInv

LEMMA PostsSend ==
  ASSUME PostsInv, NEW c \in Chains, NEW reaction \in Message,
         reaction.key \in AllPosted(reaction.key.author), SendToAuthor(c, reaction),
         UNCHANGED <<own_posts, received_posts, next_index>>
  PROVE  PostsInv'
<1>1. CountsInv /\ Typed
  BY DEF PostsInv, CountsInv
<1>2. CountsInv'
  BY <1>1, CountsSend
<1>3. CASE reaction.key.author = c /\ Emit(c, reaction) /\ UNCHANGED inbox
  <2>1. Grows => SentPosted'
    <3>1. Grows => \A b \in Chains : AllPosted(b) \subseteq AllPosted(b)'
      BY PostedStays
    <3>2. QED BY <1>3, <3>1 DEF PostsInv, SentPosted
  <2>2. QED BY <1>2, <1>3, <2>1, PostsEmit
<1>4. CASE /\ reaction.key.author \in Chains /\ reaction.key.author # c
           /\ inbox' = [inbox EXCEPT ![reaction.key.author][c] = Append(@, reaction)]
           /\ UNCHANGED stream
  <2>1. PICK a \in Chains : a = reaction.key.author
    BY <1>4
  <2>2. PICK s \in Seq(Message) : s = inbox[a][c]
    BY <1>1 DEF Typed
  <2>3. \A b, d \in Chains :
          inbox'[b][d] = IF b = a /\ d = c THEN Append(s, reaction) ELSE inbox[b][d]
    BY <1>1, <1>4, <2>1, <2>2 DEF Typed
  <2>4. ASSUME NEW b \in Chains, NEW d \in Chains, NEW i \in 1..Len(inbox'[b][d])
        PROVE  inbox'[b][d][i].key \in AllPosted(b)
    <3>1. CASE b = a /\ d = c
      <4>1. inbox'[b][d] = Append(s, reaction) /\ i \in 1..(Len(s) + 1)
        <5>1. Len(Append(s, reaction)) = Len(s) + 1
          OBVIOUS
        <5>2. inbox'[b][d] = Append(s, reaction)
          BY <2>3, <3>1
        <5>3. QED BY <5>1, <5>2
      <4>2. CASE i \in 1..Len(s)
        <5>1. Append(s, reaction)[i] = s[i]
          BY <4>2
        <5>2. s[i].key \in AllPosted(a)
          BY <2>2, <4>2 DEF PostsInv, SentPosted
        <5>3. QED BY <3>1, <4>1, <5>1, <5>2
      <4>3. CASE i = Len(s) + 1
        <5>1. Append(s, reaction)[i] = reaction
          BY <4>3
        <5>2. reaction.key \in AllPosted(a)
          BY <2>1
        <5>3. QED BY <3>1, <4>1, <5>1, <5>2
      <4>4. Len(s) \in Nat
        OBVIOUS
      <4>5. QED BY <4>1, <4>2, <4>3, <4>4
    <3>2. CASE ~(b = a /\ d = c)
      BY <2>3, <3>2 DEF PostsInv, SentPosted
    <3>3. QED BY <3>1, <3>2
  <2>5. \A b : AllPosted(b)' = AllPosted(b)
    BY <1>4 DEF AllPosted, PostedKeys
  <2>6. SentPosted'
    BY <2>4, <2>5 DEF SentPosted
  <2>7. QED BY <1>2, <1>4, <2>6, PostsStill
<1>5. QED BY <1>1, <1>3, <1>4, SentToAuthor

LEMMA PostsMessage ==
  ASSUME PostsInv, NEW a \in Chains, NEW c \in Chains,
         ExecuteMessage(a, c) \/ RejectMessage(a, c)
  PROVE  PostsInv'
<1>1. CountsInv /\ Typed
  BY DEF PostsInv, CountsInv
<1>2. CountsInv'
  BY <1>1, CountsMessage
<1>3. Received(a, c) /\ UNCHANGED <<own_posts, received_posts, next_index>>
  BY DEF ExecuteMessage, RejectMessage
<1>4. /\ Head(inbox[a][c]) \in Message
      /\ \A b, d \in Chains : \A i \in 1..Len(inbox'[b][d]) :
           \E j \in 1..Len(inbox[b][d]) : inbox'[b][d][i] = inbox[b][d][j]
  BY <1>1, <1>3, TakenFromInbox
<1>5. \A b, d \in Chains : \A i \in 1..Len(inbox'[b][d]) : inbox'[b][d][i].key \in AllPosted(b)
  <2> SUFFICES ASSUME NEW b \in Chains, NEW d \in Chains, NEW i \in 1..Len(inbox'[b][d])
      PROVE  inbox'[b][d][i].key \in AllPosted(b)
    OBVIOUS
  <2>1. PICK j \in 1..Len(inbox[b][d]) : inbox'[b][d][i] = inbox[b][d][j]
    BY <1>4
  <2>2. inbox[b][d][j].key \in AllPosted(b)
    BY <2>1 DEF PostsInv, SentPosted
  <2>3. QED BY <2>1, <2>2
<1>6. Grows => SentPosted'
  <2>1. Grows => \A b \in Chains : AllPosted(b) \subseteq AllPosted(b)'
    BY PostedStays
  <2>2. QED BY <1>5, <2>1 DEF SentPosted
<1>7. CASE ExecuteMessage(a, c)
  <2>1. PICK reaction \in Message : reaction = Head(inbox[a][c])
    BY <1>4
  <2>2. reaction.key \in AllPosted(a)
    <3>1. PICK s \in Seq(Message) : s = inbox[a][c] /\ s # <<>>
      BY <1>1, <1>3 DEF Typed, Received
    <3>2. 1 \in 1..Len(s) /\ Head(s) = s[1]
      BY <3>1
    <3>3. s[1].key \in AllPosted(a)
      BY <3>1, <3>2 DEF PostsInv, SentPosted
    <3>4. QED BY <2>1, <3>1, <3>2, <3>3
  <2>3. Emit(a, reaction)
    BY <1>7, <2>1 DEF ExecuteMessage
  <2>4. QED BY <1>2, <1>3, <1>6, <2>2, <2>3, PostsEmit
<1>8. CASE RejectMessage(a, c)
  <2>1. UNCHANGED stream
    BY <1>8 DEF RejectMessage
  <2>2. SentPosted'
    BY <1>1, <1>6, <2>1, SameGrows
  <2>3. QED BY <1>2, <1>3, <2>1, <2>2, PostsStill
<1>9. QED BY <1>7, <1>8

(* Whoever has news to process has caught up with what it has processed.    *)
LEMMA ReadersOfNews ==
  ASSUME ReceivedMatchesStream, NEW c \in Chains, NEW authors, NEW next,
         \A a \in authors : Ahead(c, a, next[a])
  PROVE  \A a \in authors : Caught(received_posts[c], a, next_index[c][a])
<1> SUFFICES ASSUME NEW a \in authors PROVE Caught(received_posts[c], a, next_index[c][a])
  OBVIOUS
<1>1. a \in Chains /\ next_index[c][a] \in Nat
  BY DEF Ahead
<1>2. next_index[c][a] # NotSubscribed
  BY <1>1 DEF NotSubscribed
<1>3. QED BY <1>1, <1>2, ReadersCaughtUp

(* A block of news is processed without a panic.                            *)
LEMMA NewsProcessed ==
  ASSUME CountsInv, ReactionsFollowPosts, ReceivedMatchesStream,
         NEW c \in Chains, NEW authors, NEW order, NEW next, Block(c, authors, order, next)
  PROVE  ~Processed(c, order, next).panicked
<1>1. Typed
  BY DEF CountsInv
<1>2. \A a \in authors : Ahead(c, a, next[a])
  BY <1>1, NewsRun
<1>3. PICK n, views : RunOfBlock(n, views, c, authors, order, next)
  BY <1>1, NewsRun
<1>4. \A a \in authors : Caught(received_posts[c], a, next_index[c][a])
  BY <1>1, <1>2, ReadersOfNews
<1>5. ~views[n].panicked
  BY <1>1, <1>2, <1>3, <1>4, BlockMatches
<1>6. QED BY <1>3, <1>5 DEF RunOfBlock

(* A block that processes news.                                             *)
LEMMA ReadersNews ==
  ASSUME CountsInv, ReactionsFollowPosts, ReceivedPosted, ReceivedMatchesStream,
         NEW c \in Chains, NEW authors, NEW order, NEW next,
         Block(c, authors, order, next), ProcessStreams(c, order, next)
  PROVE  ReceivedPosted' /\ ReceivedMatchesStream'
<1>1. CountsInv /\ Typed /\ ReactionsFollowPosts
  BY DEF CountsInv
<1>2. /\ Typed' /\ UNCHANGED <<own_posts, stream, inbox>>
      /\ \A a \in Chains : \A d \in Chains :
           next_index'[d][a] = IF d = c /\ a \in ToSet(order) THEN next[a]
                               ELSE next_index[d][a]
  BY <1>1, NewsTyped
<1>4. \A a \in authors : Ahead(c, a, next[a])
  BY <1>1, NewsRun
<1>5. PICK n, views : RunOfBlock(n, views, c, authors, order, next)
  BY <1>1, NewsRun
<1>6. \A a \in authors : Caught(received_posts[c], a, next_index[c][a])
  BY <1>4, ReadersOfNews
<1> PICK old, posts : old = received_posts[c] /\ posts = views[n].posts
  OBVIOUS
<1>7. /\ \A i \in 1..n : Caught(posts, order[i], next[order[i]])
      /\ \A key : (\A i \in 1..n : key \notin PostedKeys(order[i], next[order[i]])) =>
           Kept(old, posts, key)
  BY <1>1, <1>4, <1>5, <1>6, BlockMatches
<1>8. /\ n \in Nat /\ DOMAIN order = 1..n /\ \A i \in 1..n : order[i] \in authors
      /\ received_posts' = [received_posts EXCEPT ![c] = posts]
      /\ posts \in PostMaps
  <2>1. n \in 0..n
    BY <1>5 DEF RunOfBlock
  <2>2. views[n] = Processed(c, order, next) /\ views[n] \in Views
    BY <1>5, <2>1 DEF RunOfBlock
  <2>3. received_posts' = [received_posts EXCEPT ![c] = views[n].posts]
    BY <2>2 DEF ProcessStreams
  <2>4. QED BY <1>5, <2>2, <2>3 DEF RunOfBlock, Views
<1>9. \A d \in Chains : received_posts'[d] = IF d = c THEN posts ELSE received_posts[d]
  BY <1>1, <1>8 DEF Typed
<1>10. \A a : a \in ToSet(order) <=> \E i \in 1..n : a = order[i]
  BY <1>8 DEF ToSet
<1>11. Grows
  BY <1>1, <1>2, SameGrows
<1>14. ASSUME NEW key \in DOMAIN posts
       PROVE  key \in AllPosted(key.author) /\ posts[key].likes <= MaxEvents
  <2>1. CASE \E i \in 1..n : key \in PostedKeys(order[i], next[order[i]])
    <3>1. PICK i \in 1..n : key \in PostedKeys(order[i], next[order[i]])
      BY <2>1
    <3>2. PICK a, last : a = order[i] /\ last = next[order[i]]
      OBVIOUS
    <3>3. Ahead(c, a, last)
      BY <1>4, <1>8, <3>2
    <3>4. /\ a \in Chains /\ last \in Nat /\ last <= Len(stream[a]) /\ last <= MaxEvents
          /\ Len(stream[a]) \in Nat
      BY <1>1, <3>3 DEF Ahead, Typed
    <3>5. key \in PostedKeys(a, last) /\ key.author = a
      BY <3>1, <3>2, PostedByAuthor
    <3>6. key \in AllPosted(a)
      BY <3>4, <3>5, PostedGrow DEF AllPosted
    <3>7. AsStreamed(posts[key], a, last, key)
      BY <1>7, <3>2, <3>5 DEF Caught
    <3>8. posts[key].likes \in 0..last
      <4>1. Cardinality(Positions(a, last, "Like", key)) \in 0..last
        BY <3>4, PositionsFinite
      <4>2. QED BY <3>7, <4>1 DEF AsStreamed
    <3>9. posts[key].likes <= MaxEvents
      BY <3>4, <3>8, SocialAssumption
    <3>10. QED BY <3>5, <3>6, <3>9
  <2>2. CASE \A i \in 1..n : key \notin PostedKeys(order[i], next[order[i]])
    <3>1. Kept(old, posts, key)
      BY <1>7, <2>2
    <3>2. key \in DOMAIN old /\ posts[key] = old[key]
      BY <3>1 DEF Kept
    <3>3. QED BY <3>2 DEF ReceivedPosted
  <2>3. QED BY <2>1, <2>2
<1>15. ReceivedPosted'
  <2>1. \A a : AllPosted(a)' = AllPosted(a)
    BY <1>2 DEF AllPosted, PostedKeys
  <2>2. ASSUME NEW d \in Chains, NEW key \in DOMAIN received_posts'[d]
        PROVE  key \in AllPosted(key.author) /\ received_posts'[d][key].likes <= MaxEvents
    <3>1. CASE d = c
      BY <1>9, <1>14, <3>1
    <3>2. CASE d # c
      BY <1>9, <3>2 DEF ReceivedPosted
    <3>3. QED BY <3>1, <3>2
  <2>3. QED BY <2>1, <2>2 DEF ReceivedPosted
<1>16. ASSUME NEW d \in Chains, NEW a \in Chains, NEW m \in Nat, m = next_index'[d][a]
       PROVE  Caught(received_posts'[d], a, m) /\ m <= Len(stream[a])
  <2>1. m <= Len(stream[a])
    BY <1>2, <1>16 DEF Typed
  <2>2. CASE d = c /\ a \in ToSet(order)
    <3>1. PICK i \in 1..n : a = order[i]
      BY <1>10, <2>2
    <3>2. m = next[a]
      BY <1>2, <1>16, <2>2
    <3>3. QED BY <1>7, <1>9, <2>1, <2>2, <3>1, <3>2
  <2>3. CASE ~(d = c /\ a \in ToSet(order))
    <3>1. m = next_index[d][a] /\ m # NotSubscribed
      BY <1>2, <1>16, <2>3 DEF NotSubscribed
    <3>2. Caught(received_posts[d], a, m)
      BY <3>1, ReadersCaughtUp
    <3>3. CASE d # c
      BY <1>9, <2>1, <3>2, <3>3
    <3>4. CASE d = c
      <4>1. \A i \in 1..n : order[i] # a
        BY <1>10, <2>3, <3>4
      <4>2. \A key \in PostedKeys(a, m) : Kept(old, posts, key)
        BY <1>7, <4>1, PostedByAuthor
      <4>3. Caught(old, a, m)
        BY <3>2, <3>4
      <4>4. Caught(posts, a, m)
        BY <4>2, <4>3, CaughtKept
      <4>5. QED BY <1>9, <2>1, <3>4, <4>4
    <3>5. QED BY <3>3, <3>4
  <2>4. QED BY <2>2, <2>3
<1>17. ASSUME NEW d \in Chains, NEW a \in Chains, next_index'[d][a] # NotSubscribed,
              NEW key \in PostedKeys(a, next_index[d][a])'
       PROVE  /\ key \in DOMAIN received_posts'[d]
              /\ AsStreamed(received_posts[d][key], a, next_index[d][a], key)'
  <2>1. PICK m \in Nat : m = next_index'[d][a]
    <3>1. next_index'[d][a] \in -1..MaxEvents /\ next_index'[d][a] # -1
      BY <1>2, <1>17 DEF Typed, NotSubscribed
    <3>2. QED BY <3>1, SocialAssumption
  <2>2. PICK mine : mine = received_posts'[d]
    OBVIOUS
  <2>3. Caught(mine, a, m) /\ m <= Len(stream[a])
    BY <1>16, <2>1, <2>2
  <2>4. PostedKeys(a, m)' = PostedKeys(a, m)
        /\ AsStreamed(mine[key], a, m, key)' = AsStreamed(mine[key], a, m, key)
    <3>1. PICK post : post = mine[key]
      OBVIOUS
    <3>2. PostedKeys(a, m)' = PostedKeys(a, m)
          /\ AsStreamed(post, a, m, key)' = AsStreamed(post, a, m, key)
      BY <1>11, <2>3, StreamSaysStill
    <3>3. QED BY <3>1, <3>2
  <2>5. key \in PostedKeys(a, m)
    BY <1>17, <2>1, <2>4
  <2>6. key \in DOMAIN mine /\ AsStreamed(mine[key], a, m, key)
    BY <2>3, <2>5 DEF Caught
  <2>7. QED BY <2>1, <2>2, <2>4, <2>6
<1>18. ReceivedMatchesStream'
  BY <1>17 DEF ReceivedMatchesStream
<1>19. QED BY <1>15, <1>18

LEMMA PostsNews ==
  ASSUME PostsInv, NEW c \in Chains, NEW authors, NEW order, NEW next,
         Block(c, authors, order, next), ProcessStreams(c, order, next)
  PROVE  PostsInv'
<1>1. CountsInv /\ Typed
  BY DEF PostsInv, CountsInv
<1>2. Typed' /\ UNCHANGED <<own_posts, stream, inbox>>
  BY <1>1, NewsTyped
<1>3. CountsInv'
  BY <1>1, <1>2, CountsSame
<1>4. OwnPosted' /\ SentPosted'
  <2>1. \A b : AllPosted(b)' = AllPosted(b)
    BY <1>2 DEF AllPosted, PostedKeys
  <2>2. QED BY <1>2, <2>1 DEF PostsInv, OwnPosted, SentPosted
<1>5. ReactionsFollowPosts'
  BY <1>2 DEF PostsInv, ReactionsFollowPosts, PostedKeys
<1>6. ReceivedPosted' /\ ReceivedMatchesStream'
  BY ReadersNews DEF PostsInv
<1>7. QED BY <1>3, <1>4, <1>5, <1>6 DEF PostsInv

LEMMA PostsStep ==
  ASSUME TypedKeys = {}, PostsInv, [Next]_vars
  PROVE  PostsInv'
<1>1. CountsInv /\ Typed /\ PostsKept
  BY DEF PostsInv, CountsInv
<1>2. ASSUME NEW c \in Chains, ExecuteOperation(c) PROVE PostsInv'
  <2>1. ASSUME NEW a \in Chains, Subscribe(c, a) \/ Unsubscribe(c, a) PROVE PostsInv'
    BY <2>1, PostsSubscription
  <2>2. ASSUME NEW time \in Times, ExecutePostOperation(c, time) PROVE PostsInv'
    BY <2>2, PostsPost
  <2>3. ASSUME NEW key \in VisibleKeys(c) \cup TypedKeys,
               ExecuteLikeOperation(c, key) \/ ExecuteCommentOperation(c, key, c)
        PROVE  PostsInv'
    <3>1. key \in Key
      BY <1>1, NamedKeys
    <3>2. key \in AllPosted(key.author)
      BY VisiblePosted
    <3>3. CASE ExecuteLikeOperation(c, key)
      <4>1. PICK reaction \in Message : reaction = [type |-> "Like", key |-> key]
        BY <3>1 DEF Message, Event
      <4>2. SendToAuthor(c, reaction) /\ UNCHANGED <<own_posts, received_posts, next_index>>
        BY <3>3, <4>1 DEF ExecuteLikeOperation
      <4>3. reaction.key \in AllPosted(reaction.key.author)
        BY <3>2, <4>1
      <4>4. QED BY <4>2, <4>3, PostsSend
    <3>4. CASE ExecuteCommentOperation(c, key, c)
      <4>1. PICK reaction \in Message :
              reaction = [type |-> "Comment", key |-> key, comment |-> c]
        BY <3>1 DEF Message, Event
      <4>2. SendToAuthor(c, reaction) /\ UNCHANGED <<own_posts, received_posts, next_index>>
        BY <3>4, <4>1 DEF ExecuteCommentOperation
      <4>3. reaction.key \in AllPosted(reaction.key.author)
        BY <3>2, <4>1
      <4>4. QED BY <4>2, <4>3, PostsSend
    <3>5. QED BY <2>3, <3>3, <3>4
  <2>4. QED BY <1>2, <2>1, <2>2, <2>3 DEF ExecuteOperation
<1>3. ASSUME NEW c \in Chains, NEW a \in Chains, ExecuteMessage(a, c) \/ RejectMessage(a, c)
      PROVE  PostsInv'
  BY <1>3, PostsMessage
<1>4. ASSUME NEW c \in Chains, NEW authors \in SUBSET {a \in Chains : HasNews(c, a)},
             ProcessNews(c, authors)
      PROVE  PostsInv'
  <2>1. PICK order \in SetToSeqs(authors), next \in Updates(c, authors) :
          ProcessStreams(c, order, next)
    BY <1>4 DEF ProcessNews
  <2>2. Block(c, authors, order, next)
    BY <2>1 DEF Block
  <2>3. QED BY <2>1, <2>2, PostsNews
<1>5. CASE UNCHANGED vars
  <2>1. Typed' /\ UNCHANGED <<own_posts, received_posts, next_index, stream, inbox>>
    BY <1>1, <1>5 DEF vars, Typed
  <2>2. CountsInv'
    BY <1>1, <2>1, CountsSame
  <2>3. SentPosted'
    <3>1. \A b : AllPosted(b)' = AllPosted(b)
      BY <2>1 DEF AllPosted, PostedKeys
    <3>2. QED BY <2>1, <3>1 DEF PostsInv, SentPosted
  <2>4. QED BY <2>1, <2>2, <2>3, PostsStill
<1>6. CASE Next
  BY <1>2, <1>3, <1>4, <1>6 DEF Next
<1>7. QED BY <1>5, <1>6

LEMMA PostsHold ==
  ASSUME TypedKeys = {}
  PROVE  Spec => []PostsInv
<1>1. PostsInv /\ [Next]_vars => PostsInv'
  BY PostsStep
<1>2. QED BY <1>1, PostsInitInv, PTL DEF Spec

(* Nobody who names only posts that it sees puts a like or a comment on a   *)
(* stream ahead of its post.                                                *)
THEOREM ReactionsFollow ==
  ASSUME TypedKeys = {}
  PROVE  Spec => []ReactionsFollowPosts
<1>1. PostsInv => ReactionsFollowPosts
  BY DEF PostsInv
<1>2. QED BY <1>1, PostsHold, PTL

-----------------------------------------------------------------------------
(* Whatever keys users name: only a reaction ahead of its post stops blocks.*)

ReadersInv == CountsInv /\ (ReactionsFollowPosts => ReceivedPosted /\ ReceivedMatchesStream)

LEMMA OperationGrows ==
  ASSUME CountsInv, NEW c \in Chains, ExecuteOperation(c)
  PROVE  \/ \E a \in Chains : Subscribe(c, a) \/ Unsubscribe(c, a)
         \/ Grows /\ UNCHANGED <<received_posts, next_index>>
<1>1. Typed /\ PostsKept
  BY DEF CountsInv
<1>2. ASSUME NEW time \in Times, ExecutePostOperation(c, time)
      PROVE  Grows /\ UNCHANGED <<received_posts, next_index>>
  <2>1. PICK event : /\ event = [type |-> "Post", timestamp |-> time, index |-> PostIndex(c)]
                     /\ Emit(c, event)
    BY <1>2 DEF ExecutePostOperation
  <2>2. event \in Event
    BY <1>1, <1>2, <2>1, PostTyped
  <2>3. QED BY <1>1, <1>2, <2>1, <2>2, EmitGrows DEF ExecutePostOperation
<1>3. ASSUME NEW reaction \in Message, SendToAuthor(c, reaction)
      PROVE  Grows
  <2>1. reaction \in Event
    BY DEF Message
  <2>2. QED BY <1>1, <1>3, <2>1, EmitGrows, SameGrows DEF SendToAuthor
<1>4. ASSUME NEW key \in VisibleKeys(c) \cup TypedKeys,
             ExecuteLikeOperation(c, key) \/ ExecuteCommentOperation(c, key, c)
      PROVE  Grows /\ UNCHANGED <<received_posts, next_index>>
  <2>1. key \in Key
    BY <1>1, NamedKeys
  <2>2. /\ [type |-> "Like", key |-> key] \in Message
        /\ [type |-> "Comment", key |-> key, comment |-> c] \in Message
    BY <2>1 DEF Message, Event
  <2>3. QED BY <1>3, <1>4, <2>2 DEF ExecuteLikeOperation, ExecuteCommentOperation
<1>5. QED BY <1>2, <1>4 DEF ExecuteOperation

LEMMA MessageGrows ==
  ASSUME CountsInv, NEW a \in Chains, NEW c \in Chains,
         ExecuteMessage(a, c) \/ RejectMessage(a, c)
  PROVE  Grows /\ UNCHANGED <<received_posts, next_index>>
<1>1. Typed /\ Received(a, c) /\ UNCHANGED <<received_posts, next_index>>
  BY DEF CountsInv, ExecuteMessage, RejectMessage
<1>2. Head(inbox[a][c]) \in Event
  BY <1>1, TakenFromInbox DEF Message
<1>3. CASE ExecuteMessage(a, c)
  BY <1>1, <1>2, <1>3, EmitGrows DEF ExecuteMessage
<1>4. CASE RejectMessage(a, c)
  BY <1>1, <1>4, SameGrows DEF RejectMessage
<1>5. QED BY <1>1, <1>3, <1>4

(* A stream on which every reaction follows its post never was otherwise.   *)
LEMMA ReactionsFollowed ==
  ASSUME Grows, ReactionsFollowPosts'
  PROVE  ReactionsFollowPosts
<1> SUFFICES ASSUME NEW a \in Chains, NEW i \in 1..Len(stream[a]), stream[a][i].type # "Post"
    PROVE  stream[a][i].key \in PostedKeys(a, i - 1)
  BY DEF ReactionsFollowPosts
<1>1. PICK j \in Nat : j = i - 1 /\ j <= Len(stream[a])
  BY DEF Grows
<1>2. i \in 1..Len(stream'[a]) /\ stream'[a][i] = stream[a][i]
  BY DEF Grows
<1>3. stream'[a][i].key \in PostedKeys(a, j)'
  BY <1>1, <1>2 DEF ReactionsFollowPosts
<1>4. PostedKeys(a, j)' = PostedKeys(a, j)
  BY <1>1, StreamSaysStill
<1>5. QED BY <1>1, <1>2, <1>3, <1>4

LEMMA ReadersStep == ReadersInv /\ [Next]_vars => ReadersInv'
<1> SUFFICES ASSUME ReadersInv, [Next]_vars, ReactionsFollowPosts'
    PROVE  ReceivedPosted' /\ ReceivedMatchesStream'
  BY CountsStep DEF ReadersInv
<1>1. CountsInv /\ Typed
  BY DEF ReadersInv, CountsInv
<1>2. Grows => ReactionsFollowPosts /\ ReceivedPosted /\ ReceivedMatchesStream
  BY ReactionsFollowed DEF ReadersInv
<1>3. CASE Grows /\ UNCHANGED <<received_posts, next_index>>
  BY <1>1, <1>2, <1>3, ReadersKeep
<1>4. ASSUME NEW c \in Chains, NEW a \in Chains, Subscribe(c, a) \/ Unsubscribe(c, a)
      PROVE  ReceivedPosted' /\ ReceivedMatchesStream'
  <2>1. Grows
    BY <1>1, <1>4, SameGrows DEF Subscribe, Unsubscribe
  <2>2. QED BY <1>1, <1>2, <1>4, <2>1, ReadersSubscribe
<1>5. ASSUME NEW c \in Chains, NEW authors \in SUBSET {a \in Chains : HasNews(c, a)},
             ProcessNews(c, authors)
      PROVE  ReceivedPosted' /\ ReceivedMatchesStream'
  <2>1. PICK order \in SetToSeqs(authors), next \in Updates(c, authors) :
          ProcessStreams(c, order, next)
    BY <1>5 DEF ProcessNews
  <2>2. Block(c, authors, order, next)
    BY <2>1 DEF Block
  <2>3. Grows
    BY <1>1, <2>1, SameGrows DEF ProcessStreams
  <2>4. QED BY <1>1, <1>2, <2>1, <2>2, <2>3, ReadersNews
<1>6. CASE UNCHANGED vars
  BY <1>1, <1>3, <1>6, SameGrows DEF vars
<1>7. CASE Next
  BY <1>1, <1>3, <1>4, <1>5, <1>7, OperationGrows, MessageGrows DEF Next
<1>8. QED BY <1>6, <1>7

LEMMA ReadersHold == Spec => []ReadersInv
<1>1. Init => ReadersInv
  BY PostsInitInv DEF PostsInv, ReadersInv
<1>2. QED BY <1>1, ReadersStep, PTL DEF Spec

(* Whatever keys users name, also of posts that do not exist: while every   *)
(* like and comment on a stream follows its post, no block of news panics,  *)
(* whichever streams it reads, in whatever order, and wherever its chain    *)
(* starts or starts again.  A reaction ahead of its post is the only thing  *)
(* that stops a reader.                                                     *)
THEOREM NewsProcessable == Spec => [](ReactionsFollowPosts => NewsNeverPanics)
<1>1. ASSUME ReadersInv, ReactionsFollowPosts PROVE NewsNeverPanics
  BY <1>1, NewsProcessed DEF ReadersInv, NewsNeverPanics, Block
<1>2. QED BY <1>1, ReadersHold, PTL

(* Under the same condition, what a subscriber keeps of a post is what the  *)
(* stream says up to where it has read, in whatever order and blocks it     *)
(* read it, and even if it has read the stream before.                      *)
THEOREM ReceivedMatches == Spec => [](ReactionsFollowPosts => ReceivedMatchesStream)
<1>1. ReadersInv => (ReactionsFollowPosts => ReceivedMatchesStream)
  BY DEF ReadersInv
<1>2. QED BY <1>1, ReadersHold, PTL

-----------------------------------------------------------------------------
(* Types, with the bounds that they carry, where users name only posts that *)
(* they see: an author's posts are numbered from zero, and no post has more *)
(* likes than there are events.                                             *)
THEOREM SocialTypes ==
  ASSUME TypedKeys = {}
  PROVE  Spec => []TypeOK
<1>1. ASSUME PostsInv PROVE TypeOK
  <2>1. CountsInv /\ Typed /\ PostsKept /\ ReceivedPosted
    BY <1>1 DEF PostsInv, CountsInv
  <2>2. ASSUME NEW c \in Chains
        PROVE  /\ DOMAIN own_posts[c] = 0..(Cardinality(DOMAIN own_posts[c]) - 1)
               /\ \A i \in DOMAIN own_posts[c] : own_posts[c][i] \in Times
    <3>1. PICK m : m = Count(c)
      OBVIOUS
    <3>2. m \in Nat
      <4>1. Len(stream[c]) \in Nat
        BY <2>1 DEF Typed
      <4>2. QED BY <3>1, <4>1, PublishedFinite DEF Count
    <3>3. own_posts[c] \in [0..(m - 1) -> Times]
      BY <2>1, <3>1 DEF PostsKept
    <3>4. Cardinality(0..(m - 1)) = m
      <4>1. m - 1 \in Int /\ 0 \in Int
        BY <3>2
      <4>2. Cardinality(0..(m - 1)) = IF 0 > m - 1 THEN 0 ELSE (m - 1) - 0 + 1
        BY <4>1, FS_Interval
      <4>3. QED BY <3>2, <4>2
    <3>5. QED BY <3>3, <3>4
  <2>3. ASSUME NEW c \in Chains
        PROVE  /\ DOMAIN received_posts[c] \subseteq Key
               /\ \A k \in DOMAIN received_posts[c] :
                    /\ received_posts[c][k].likes \in 0..MaxEvents
                    /\ received_posts[c][k].comments \in Seq([chain_id : Chains, text : Chains])
    <3>1. /\ DOMAIN received_posts[c] \in SUBSET Key
          /\ \A k \in DOMAIN received_posts[c] : received_posts[c][k] \in Post
      BY <2>1, PostMapsAre DEF Typed
    <3>2. \A k \in DOMAIN received_posts[c] : received_posts[c][k].likes <= MaxEvents
      BY <2>1 DEF ReceivedPosted
    <3>3. ASSUME NEW k \in DOMAIN received_posts[c]
          PROVE  /\ received_posts[c][k].likes \in 0..MaxEvents
                 /\ received_posts[c][k].comments \in Seq([chain_id : Chains, text : Chains])
      <4>1. PICK post \in Post : post = received_posts[c][k]
        BY <3>1
      <4>2. post.likes \in Nat /\ post.comments \in Seq([chain_id : Chains, text : Chains])
        BY DEF Post, Comment
      <4>3. post.likes <= MaxEvents
        BY <3>2, <4>1
      <4>4. post.likes \in 0..MaxEvents
        BY <4>2, <4>3, SocialAssumption
      <4>5. QED BY <4>1, <4>2, <4>4
    <3>4. QED BY <3>1, <3>3
  <2>4. /\ \A c \in Chains : /\ stream[c] \in Seq(Event)
                             /\ \A a \in Chains : inbox[c][a] \in Seq(Message)
        /\ next_index \in [Chains -> [Chains -> NotSubscribed..MaxEvents]]
    BY <2>1 DEF Typed
  <2>5. QED BY <2>2, <2>3, <2>4 DEF TypeOK
<1>2. QED BY <1>1, PostsHold, PTL

=============================================================================
