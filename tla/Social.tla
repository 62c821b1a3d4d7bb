------------------------------- MODULE Social -------------------------------
(***************************************************************************)
(* The social application: every chain publishes its posts, and the likes  *)
(* and comments it receives for them, on one event stream; subscribers     *)
(* rebuild the posts by processing the streams in blocks of their own.     *)
(*                                                                         *)
(* External: the platform keeps the streams, the next index a subscriber   *)
(* has to process (forgotten when it unsubscribes) and the messages, which *)
(* arrive in order or are rejected.  A panic aborts the block, so what     *)
(* would panic is not enabled.  The text of a comment is abstracted to the *)
(* chain whose user wrote it.                                              *)
(***************************************************************************)
EXTENDS Integers, FiniteSets, SequencesExt

CONSTANTS
  Chains,      \* microchains; each is one user
  Times,       \* bound: timestamps of blocks
  MaxPosts,    \* bound: posts of one chain
  MaxEvents,   \* bound: events on all streams together
  MaxMessages, \* bound: messages waiting in one inbox
  TypedKeys    \* keys users may name although they never saw such a post

Key == [timestamp : Times, author : Chains, index : 0..MaxPosts]

ASSUME SocialAssumption ==
  /\ IsFiniteSet(Chains) /\ Times \subseteq Nat
  /\ MaxPosts \in Nat /\ MaxEvents \in Nat /\ MaxMessages \in Nat
  /\ TypedKeys \subseteq Key

VARIABLES
  own_posts,      \* own_posts[c]: map from index to the post's timestamp
  received_posts, \* received_posts[c]: map from Key to likes and comments
  stream,         \* stream[c]: events emitted by chain c so far
  next_index,     \* next_index[c][a]: next event of a for c, or NotSubscribed
  inbox           \* inbox[a][c]: messages from c waiting on chain a

vars == <<own_posts, received_posts, stream, next_index, inbox>>

NotSubscribed == -1

Event ==
  [type : {"Post"}, timestamp : Times, index : 0..MaxPosts]
    \cup [type : {"Like"}, key : Key]
    \cup [type : {"Comment"}, key : Key, comment : Chains]

Message == {e \in Event : e.type # "Post"}

Put(map, k, v) == [i \in DOMAIN map \cup {k} |-> IF i = k THEN v ELSE map[i]]

Emit(c, event) ==
  /\ SumFunctionOnSet([a \in Chains |-> Len(stream[a])], Chains) < MaxEvents
  /\ stream' = [stream EXCEPT ![c] = Append(@, event)]

-----------------------------------------------------------------------------
(* execute_operation on chain c.                                            *)

Subscribe(c, a) ==
  /\ next_index' = [next_index EXCEPT ![c][a] = IF @ = NotSubscribed THEN 0 ELSE @]
  /\ UNCHANGED <<own_posts, received_posts, stream, inbox>>

Unsubscribe(c, a) ==
  /\ next_index' = [next_index EXCEPT ![c][a] = NotSubscribed]
  /\ UNCHANGED <<own_posts, received_posts, stream, inbox>>

(* Mutant of PostIndex: counts the new post too.                            *)
PostIndexAfter(c) == Cardinality(DOMAIN own_posts[c]) + 1

PostIndex(c) == Cardinality(DOMAIN own_posts[c])

(* Block timestamps of a chain never go back.                               *)
ExecutePostOperation(c, time) ==
  /\ Cardinality(DOMAIN own_posts[c]) < MaxPosts
  /\ \A i \in DOMAIN own_posts[c] : own_posts[c][i] <= time
  /\ own_posts' = [own_posts EXCEPT ![c] = Put(@, PostIndex(c), time)]
  /\ Emit(c, [type |-> "Post", timestamp |-> time, index |-> PostIndex(c)])
  /\ UNCHANGED <<received_posts, next_index, inbox>>

(* Mutant of SendToAuthor: publishes the reaction on the wrong stream.      *)
SendToAuthorLocally(c, reaction) == Emit(c, reaction) /\ UNCHANGED inbox

(* Likes and comments go to the author, who publishes them.  Neither chain  *)
(* looks the key up.                                                        *)
SendToAuthor(c, reaction) ==
  LET author == reaction.key.author IN
  IF author # c
  THEN /\ Len(inbox[author][c]) < MaxMessages
       /\ inbox' = [inbox EXCEPT ![author][c] = Append(@, reaction)]
       /\ UNCHANGED stream
  ELSE Emit(c, reaction) /\ UNCHANGED inbox

ExecuteLikeOperation(c, key) ==
  /\ SendToAuthor(c, [type |-> "Like", key |-> key])
  /\ UNCHANGED <<own_posts, received_posts, next_index>>

ExecuteCommentOperation(c, key, comment) ==
  /\ SendToAuthor(c, [type |-> "Comment", key |-> key, comment |-> comment])
  /\ UNCHANGED <<own_posts, received_posts, next_index>>

-----------------------------------------------------------------------------
(* Messages.                                                                *)

Received(a, c) ==
  /\ inbox[a][c] # <<>>
  /\ inbox' = [inbox EXCEPT ![a][c] = Tail(@)]

ExecuteMessage(a, c) ==
  /\ Received(a, c)
  /\ Emit(a, Head(inbox[a][c]))
  /\ UNCHANGED <<own_posts, received_posts, next_index>>

(* The author's chain drops the message: it was sent without tracking.      *)
RejectMessage(a, c) ==
  /\ Received(a, c)
  /\ UNCHANGED <<own_posts, received_posts, stream, next_index>>

-----------------------------------------------------------------------------
(* process_streams: one block of chain c handles new events of a list of    *)
(* chains, all of them or, if a post is not found, none.                    *)

(* Mutant of ExecutePostEvent: keeps the likes a replayed post had.         *)
ExecutePostEventKeeping(posts, a, event) ==
  LET key == [timestamp |-> event.timestamp, author |-> a, index |-> event.index] IN
  Put(posts, key, IF key \in DOMAIN posts THEN posts[key]
                  ELSE [likes |-> 0, comments |-> <<>>])

ExecutePostEvent(posts, a, event) ==
  LET key == [timestamp |-> event.timestamp, author |-> a, index |-> event.index] IN
  Put(posts, key, [likes |-> 0, comments |-> <<>>])

ExecuteLikeEvent(posts, event) == [posts EXCEPT ![event.key].likes = @ + 1]

(* The comment is filed under the chain the event came from.                *)
ExecuteCommentEvent(posts, a, event) ==
  [posts EXCEPT ![event.key].comments =
     Append(@, [chain_id |-> a, text |-> event.comment])]

(* `view` is the state of the map and whether an event has panicked.        *)
ExecuteEvent(view, a, event) ==
  IF view.panicked \/ (event.type # "Post" /\ event.key \notin DOMAIN view.posts)
  THEN [view EXCEPT !.panicked = TRUE]
  ELSE [view EXCEPT !.posts =
    CASE event.type = "Post" -> ExecutePostEvent(@, a, event)
      [] event.type = "Like" -> ExecuteLikeEvent(@, event)
      [] event.type = "Comment" -> ExecuteCommentEvent(@, a, event)]

(* Mutant of NewIndices: starts one event too late.                         *)
NewIndicesSkipping(c, a, next) == SubSeq(stream[a], next_index[c][a] + 2, next)

NewIndices(c, a, next) == SubSeq(stream[a], next_index[c][a] + 1, next)

ExecuteUpdate(view, c, a, next) ==
  FoldLeft(LAMBDA v, event : ExecuteEvent(v, a, event), view, NewIndices(c, a, next))

(* The updates are listed in `order`; `next` gives each one's next index.   *)
Processed(c, order, next) ==
  LET start == [posts |-> received_posts[c], panicked |-> FALSE]
  IN  FoldLeft(LAMBDA v, a : ExecuteUpdate(v, c, a, next[a]), start, order)

ProcessStreams(c, order, next) ==
  LET final == Processed(c, order, next) IN
  /\ ~final.panicked
  /\ received_posts' = [received_posts EXCEPT ![c] = final.posts]
  /\ next_index' = [next_index EXCEPT ![c] =
       [a \in Chains |-> IF a \in ToSet(order) THEN next[a] ELSE @[a]]]
  /\ UNCHANGED <<own_posts, stream, inbox>>

HasNews(c, a) == next_index[c][a] # NotSubscribed /\ next_index[c][a] < Len(stream[a])

Updates(c, authors) ==
  {next \in [authors -> 1..MaxEvents] :
     \A a \in authors : next[a] \in (next_index[c][a] + 1)..Len(stream[a])}

(* A block of chain c that processes news of `authors`.                     *)
ProcessNews(c, authors) ==
  \E order \in SetToSeqs(authors), next \in Updates(c, authors) :
    ProcessStreams(c, order, next)

-----------------------------------------------------------------------------

Init ==
  /\ own_posts = [c \in Chains |-> <<>>]
  /\ received_posts = [c \in Chains |-> <<>>]
  /\ stream = [c \in Chains |-> <<>>]
  /\ next_index = [c \in Chains |-> [a \in Chains |-> NotSubscribed]]
  /\ inbox = [a \in Chains |-> [c \in Chains |-> <<>>]]

(* Posts are liked and commented on by users who see them.                  *)
VisibleKeys(c) ==
  DOMAIN received_posts[c]
    \cup {[timestamp |-> own_posts[c][i], author |-> c, index |-> i] : i \in DOMAIN own_posts[c]}

ExecuteOperation(c) ==
  \/ \E a \in Chains : Subscribe(c, a) \/ Unsubscribe(c, a)
  \/ \E time \in Times : ExecutePostOperation(c, time)
  \/ \E key \in VisibleKeys(c) \cup TypedKeys :
       \/ ExecuteLikeOperation(c, key)
       \/ ExecuteCommentOperation(c, key, c)

Next ==
  \E c \in Chains :
    \/ ExecuteOperation(c)
    \/ \E a \in Chains : ExecuteMessage(a, c) \/ RejectMessage(a, c)
    \/ \E authors \in (SUBSET {a \in Chains : HasNews(c, a)}) \ {{}} : ProcessNews(c, authors)

Spec == Init /\ [][Next]_vars

(* A chain processes the news of every stream it is subscribed to.          *)
Fairness ==
  \A c, a \in Chains :
    WF_vars(\E authors \in SUBSET {b \in Chains : HasNews(c, b)} :
              a \in authors /\ ProcessNews(c, authors))

FairSpec == Spec /\ Fairness

-----------------------------------------------------------------------------
(* Properties.                                                              *)

TypeOK ==
  /\ \A c \in Chains :
       /\ DOMAIN own_posts[c] = 0..(Cardinality(DOMAIN own_posts[c]) - 1)
       /\ \A i \in DOMAIN own_posts[c] : own_posts[c][i] \in Times
       /\ DOMAIN received_posts[c] \subseteq Key
       /\ \A k \in DOMAIN received_posts[c] :
            /\ received_posts[c][k].likes \in 0..MaxEvents
            /\ received_posts[c][k].comments \in Seq([chain_id : Chains, text : Chains])
       /\ stream[c] \in Seq(Event)
       /\ \A a \in Chains : inbox[c][a] \in Seq(Message)
  /\ next_index \in [Chains -> [Chains -> NotSubscribed..MaxEvents]]

(* What the first n events of a say of the post with this key, counted      *)
(* without replaying them: its likes, and its comments in their order.      *)
Positions(a, n, type, key) ==
  {i \in 1..n : stream[a][i].type = type /\ stream[a][i].key = key}

PostKey(a, event) == [timestamp |-> event.timestamp, author |-> a, index |-> event.index]

PostedKeys(a, n) ==
  {PostKey(a, stream[a][i]) : i \in {j \in 1..n : stream[a][j].type = "Post"}}

AsStreamed(post, a, n, key) ==
  LET commentAt == Positions(a, n, "Comment", key) IN
  /\ post.likes = Cardinality(Positions(a, n, "Like", key))
  /\ Len(post.comments) = Cardinality(commentAt)
  /\ \A i \in commentAt :
       post.comments[Cardinality(commentAt \cap 1..i)]
         = [chain_id |-> a, text |-> stream[a][i].comment]

(* Every like and comment on a stream follows the post it is about.         *)
ReactionsFollowPosts ==
  \A a \in Chains : \A i \in 1..Len(stream[a]) :
    stream[a][i].type # "Post" => stream[a][i].key \in PostedKeys(a, i - 1)

(* A subscriber's posts are what the part of the stream it has processed    *)
(* says, each like counted once and the comments in order, also when it     *)
(* unsubscribed before, subscribed again and reads the stream again.        *)
ReceivedMatchesStream ==
  \A c, a \in Chains : next_index[c][a] # NotSubscribed =>
    \A k \in PostedKeys(a, next_index[c][a]) :
      /\ k \in DOMAIN received_posts[c]
      /\ AsStreamed(received_posts[c][k], a, next_index[c][a], k)

(* No block of news meets a post that is not found, whichever streams it    *)
(* reads, in whatever order and however far.                                *)
NewsNeverPanics ==
  \A c \in Chains : \A authors \in SUBSET {a \in Chains : HasNews(c, a)} :
    \A order \in SetToSeqs(authors), next \in Updates(c, authors) :
      ~Processed(c, order, next).panicked

(* The index of a post is the number of posts by that author before it, and *)
(* its key leads the author back to the post.                               *)
IndexCountsPosts ==
  \A a \in Chains : \A i \in 1..Len(stream[a]) :
    stream[a][i].type = "Post" =>
      /\ stream[a][i].index = Cardinality({j \in 1..(i - 1) : stream[a][j].type = "Post"})
      /\ stream[a][i].index \in DOMAIN own_posts[a]
      /\ own_posts[a][stream[a][i].index] = stream[a][i].timestamp

(* Event i of a is a post that its subscriber c has not received.           *)
MissingPost(c, a, i) ==
  /\ next_index[c][a] # NotSubscribed
  /\ i <= Len(stream[a])
  /\ stream[a][i].type = "Post"
  /\ PostKey(a, stream[a][i]) \notin DOMAIN received_posts[c]

(* Every post of a stream is received by every chain that stays subscribed. *)
PostsDelivered ==
  \A c, a \in Chains, i \in 1..MaxEvents : MissingPost(c, a, i) ~> ~MissingPost(c, a, i)

(* A comment is filed under the chain of the user who wrote it.             *)
CommenterRecorded ==
  \A c \in Chains : \A k \in DOMAIN received_posts[c] :
    \A i \in DOMAIN received_posts[c][k].comments :
      received_posts[c][k].comments[i].chain_id = received_posts[c][k].comments[i].text

=============================================================================
