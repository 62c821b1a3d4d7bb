------------------------------ MODULE Migration ------------------------------
(***************************************************************************)
(* The schema migration test: it starts a network on binaries of the old   *)
(* schema, replaces its validators two by two by ones of the new schema,   *)
(* and makes posts in between.  A post is made on one chain, and a second  *)
(* client reads it on its own chain, whose node service learns of it from  *)
(* the validators and processes its inbox on its own, while the test also  *)
(* processes it and counts the posts.  `?` after every operation ends the  *)
(* test at the first error, which drops the network, as a panic does.      *)
(*                                                                         *)
(* External: the node services, the chains, and that a storage which is    *)
(* initialised again keeps what it holds.                                  *)
(***************************************************************************)
EXTENDS LocalNet

CONSTANT
  NewDirectory   \* get_directory_new_schema

(* The test has four validators of one proxy and one server each.           *)
ASSUME MigrationAssumption ==
  /\ NewDirectory \in Directories \ {OldDirectory}
  /\ NumValidators = 4 /\ NumValidators * NumProxies <= 1000

VARIABLES
  next_step,     \* the next step of the test
  subscribed,    \* whether chain2 is subscribed to the posts of chain1
  posted,        \* posts on chain1
  known,         \* posts that node_service2 has heard of
  received,      \* posts that chain2 has received
  expected       \* posts that the test has made, received_posts

postVars == <<subscribed, posted, known, received, expected>>
allVars == <<vars, next_step, postVars>>

Start(v) == [type |-> "start", validator |-> v]
Stop(v) == [type |-> "stop", validator |-> v]
MakePosts == [type |-> "post"]

(* The four validators of instantiate, then the steps of the test.          *)
Script ==
  <<Start(0), Start(1), Start(2), Start(3), [type |-> "clients"], [type |-> "subscribe"],
    MakePosts,
    Stop(2), Stop(3), [type |-> "directory"], Start(2), Start(3), MakePosts,
    Stop(0), Stop(1), Start(0), Start(1), MakePosts,
    Stop(0), Stop(1), Start(0), Start(1), MakePosts,
    [type |-> "services"], [type |-> "ensure"], [type |-> "terminate"]>>

Ended == next_step > Len(Script) + 1

-----------------------------------------------------------------------------

Served(v) == running[v] # NotRunning /\ \A i \in DOMAIN running[v] : Serving(running[v][i])

Quorum == (2 * NumValidators) \div 3 + 1

HasQuorum == Cardinality({v \in Validators : Served(v)}) >= Quorum

netVars == <<running, storages, directory, process, dropped, faults>>

(* Making chains, publishing the application and the node services need     *)
(* blocks; whatever uses the network may fail.                              *)
UseNetwork ==
  /\ op.type = "Idle"
  /\ \/ HasQuorum /\ op' = Idle("Ok")
     \/ op' = Idle("Err")
  /\ UNCHANGED <<netVars, postVars>>

Subscribe ==
  /\ op.type = "Idle"
  /\ \/ HasQuorum /\ subscribed' = TRUE /\ op' = Idle("Ok")
     \/ UNCHANGED subscribed /\ op' = Idle("Err")
  /\ UNCHANGED <<netVars, posted, known, received, expected>>

(* ensure_is_running of the node services.                                  *)
EnsureServices ==
  /\ op.type = "Idle"
  /\ op' \in {Idle("Ok"), Idle("Err")}
  /\ UNCHANGED <<netVars, postVars>>

(* social_make_posts checks the posts, makes one, and checks them again.    *)
Posts(phase) == [type |-> "Posts", phase |-> phase, polls |-> 0]

SocialMakePosts ==
  /\ op.type = "Idle"
  /\ op' = Posts("before")
  /\ UNCHANGED <<netVars, postVars>>

(* What follows when the inbox is taken for empty: the count is asserted.   *)
CheckPosts ==
  IF received # expected THEN Idle("panic")
  ELSE IF op.phase = "before" THEN Posts("post") ELSE Idle("Ok")

(* One of five polls.  The inbox may also hold other messages.              *)
WaitProcessInbox ==
  /\ op.type = "Posts" /\ op.phase \in {"before", "after"}
  /\ \/ /\ HasQuorum
        /\ received' = known
        /\ op' = IF op.polls = 4 THEN Idle("Err") ELSE [op EXCEPT !.polls = @ + 1]
     \/ /\ received = known
        /\ op' = CheckPosts
        /\ UNCHANGED received
     \/ /\ op' = Idle("Err")
        /\ UNCHANGED received
  /\ UNCHANGED <<netVars, subscribed, posted, known, expected>>

(* Mutant of Post: a post that fails is not an error.                       *)
PostUnchecked ==
  /\ op.type = "Posts" /\ op.phase = "post"
  /\ expected' = expected + 1
  /\ \/ HasQuorum /\ posted' = posted + 1
     \/ UNCHANGED posted
  /\ op' = Posts("after")
  /\ UNCHANGED <<netVars, subscribed, known, received>>

(* The post is counted before it is made.                                   *)
Post ==
  /\ op.type = "Posts" /\ op.phase = "post"
  /\ expected' = expected + 1
  /\ \/ HasQuorum /\ posted' = posted + 1 /\ op' = Posts("after")
     \/ UNCHANGED posted /\ op' = Idle("Err")
  /\ UNCHANGED <<netVars, subscribed, known, received>>

(* node_service2 hears of the posts, and processes its inbox by itself.     *)
HearOfPosts ==
  /\ subscribed /\ known < posted
  /\ \E v \in Validators : Served(v)
  /\ known' = posted
  /\ UNCHANGED <<vars, next_step, subscribed, posted, received, expected>>

ProcessAutomatically ==
  /\ received < known /\ HasQuorum
  /\ received' = known
  /\ UNCHANGED <<vars, next_step, subscribed, posted, known, expected>>

-----------------------------------------------------------------------------

(* Operations of the network leave the posts alone.                         *)
PerformNet(step) ==
  /\ \/ step.type = "start" /\ StartValidator(step.validator)
     \/ step.type = "stop" /\ StopValidator(step.validator)
     \/ step.type = "directory" /\ SetDirectory(NewDirectory)
     \/ step.type = "ensure" /\ EnsureIsRunning
     \/ step.type = "terminate" /\ Terminate
  /\ UNCHANGED postVars

PerformClient(step) ==
  \/ step.type = "clients" /\ UseNetwork
  \/ step.type = "subscribe" /\ Subscribe
  \/ step.type = "post" /\ SocialMakePosts
  \/ step.type = "services" /\ EnsureServices

NextStep ==
  /\ op = Idle("Ok")
  /\ next_step <= Len(Script)
  /\ PerformNet(Script[next_step]) \/ PerformClient(Script[next_step])
  /\ next_step' = next_step + 1

(* The network goes out of scope, at the end or at an error.                *)
DropNet ==
  /\ op.type = "Idle" /\ ~Ended
  /\ op.result # "Ok" \/ next_step = Len(Script) + 1
  /\ running' = [v \in Validators |-> NotRunning]
  /\ DropHandles(ToSet(Children), process)
  /\ next_step' = Len(Script) + 2
  /\ UNCHANGED <<storages, directory, op, faults, postVars>>

FreeProcess == CHOOSE p \in Processes : process[p] = Unused

DriverProgress ==
  \/ /\ \/ Spawn(FreeProcess) /\ FreeProcess \in Processes
        \/ CannotSpawn \/ HasStarted \/ HasNotStarted \/ Kill
     /\ UNCHANGED <<next_step, postVars>>
  \/ /\ WaitProcessInbox \/ Post
     /\ UNCHANGED next_step

Driver == NextStep \/ DropNet \/ DriverProgress

MigrationInit ==
  /\ Init
  /\ next_step = 1
  /\ subscribed = FALSE
  /\ posted = 0 /\ known = 0 /\ received = 0 /\ expected = 0

MigrationNext ==
  \/ Driver
  \/ System /\ UNCHANGED <<next_step, postVars>>
  \/ HearOfPosts \/ ProcessAutomatically

MigrationSpec == MigrationInit /\ [][MigrationNext]_allVars

(* The test runs on; the system starts processes and buries dead ones.      *)
MigrationFairness ==
  /\ WF_allVars(Driver)
  /\ \A p \in Processes : WF_allVars((Bind(p) \/ Reap(p)) /\ UNCHANGED <<next_step, postVars>>)

FairMigration == MigrationSpec /\ MigrationFairness

-----------------------------------------------------------------------------
(* Properties.                                                              *)

Posting == op.type = "Posts" /\ op.phase = "before" /\ op.polls = 0

(* No process of the test ever finds its port taken by an older process: a  *)
(* stopped validator is dead before it is started on the other binaries.    *)
NoPortConflict == \A p \in Processes : process[p].status # "refused"

(* Whenever posts are made, every validator is served by the processes the  *)
(* network holds for it, except for one validator per process that failed   *)
(* by itself.                                                               *)
CommitteeServes == Posting => Cardinality({v \in Validators : ~Served(v)}) <= faults

(* The processes that use the storage of a validator.                       *)
OnStorage(v) == {p \in Processes : Alive(process[p]) /\ process[p].role.validator = v}

(* A storage passes from one schema to the next with nobody on it: from its *)
(* second initialisation on, until all of the validator has started, only   *)
(* the processes of that start use it, and at no time do binaries of two    *)
(* schemas, not even while the old ones are dying.                          *)
StorageHandedOver ==
  \A v \in Validators :
    /\ op.type = "Restart" /\ op.validator = v => OnStorage(v) \subseteq HeldByOperation
    /\ \A p, q \in OnStorage(v) : process[p].directory = process[q].directory

(* When the count of posts is wrong it is the new post that chain2 has not  *)
(* received yet: no error of an earlier step and no restart of a validator  *)
(* makes the assertion fail.                                                *)
PanicMeansUnseen ==
  [][op # op' /\ op' = Idle("panic") => op.phase = "after" /\ received < posted]_allVars

(* However the test ends, no process is left behind.                        *)
NothingLeftBehind == <>[](Ended /\ \A p \in Processes : process[p] = Unused)

(* What the test asserts of wait_process_inbox: once it returns, the posts  *)
(* have been received.                                                      *)
PostsArrive == op # Idle("panic")

=============================================================================
