-------------------------- MODULE MigrationProofs --------------------------
(***************************************************************************)
(* Theorems about the schema migration: a panic of the test is explained,  *)
(* no port is found taken, the committee serves whenever posts are made,   *)
(* and a storage is handed from one schema to the next with nobody on it.  *)
(*                                                                         *)
(* The invariant of the network (NetInv, in LocalNetProofs) is kept by the *)
(* steps of the test as well.  PostsInv adds the counts of posts, and      *)
(* CommitteeInv what the script has started and stopped so far, and        *)
(* SchemasApart who uses which storage.                                    *)
(***************************************************************************)
EXTENDS Migration, LocalNetProofs, FiniteSetTheorems

-----------------------------------------------------------------------------
(* The network, as the test uses it.                                        *)

(* What the test makes of the operation while it posts.                     *)
PostsOperations ==
  {Idle("Ok"), Idle("Err"), Idle("panic")}
    \cup [type : {"Posts"}, phase : {"before", "post", "after"}, polls : 0..4]

(* The operation while posts are made.                                      *)
LEMMA PostingKinds ==
  /\ PostsOperations \subseteq Operations \cup OutsideOperations
  /\ \A o \in PostsOperations : o.type \notin StartTypes /\ o.type \notin KillTypes
  /\ \A o \in Operations \cup OutsideOperations : o.type = "Posts" =>
       o \in [type : {"Posts"}, phase : {"before", "post", "after"}, polls : 0..4]
<1>1. \A o \in Operations : o.type # "Posts"
  BY DEF Operations
<1>2. \A o \in OutsideOperations : o.type = "Posts" =>
        o \in [type : {"Posts"}, phase : {"before", "post", "after"}, polls : 0..4]
  BY DEF OutsideOperations
<1>3. {Idle("Ok"), Idle("Err"), Idle("panic")} \subseteq Operations \cup OutsideOperations
  BY OperationTypes DEF OutsideOperations, Idle
<1>4. [type : {"Posts"}, phase : {"before", "post", "after"}, polls : 0..4]
        \subseteq OutsideOperations
  BY DEF OutsideOperations
<1>5. \A o \in PostsOperations : o.type \in {"Idle", "Posts"}
  BY DEF PostsOperations, Idle
<1>6. QED BY <1>1, <1>2, <1>3, <1>4, <1>5 DEF PostsOperations, StartTypes, KillTypes

(* Steps that have nothing to do with the processes.                        *)
LEMMA ClientStep ==
  ASSUME NetInv, op.type \in {"Idle", "Posts"}, UNCHANGED netVars, op' \in PostsOperations
  PROVE  NetInv'
<1>1. Held = {}
  BY DEF Held, StartTypes, KillTypes
<1>2. NetTypes'
  BY PostingKinds DEF NetInv, NetTypes, netVars
<1>3. op'.type \notin StartTypes /\ op'.type \notin KillTypes
  BY PostingKinds
<1>4. Held' = {} /\ Prepared'
  BY <1>3 DEF Held, Prepared, StartTypes, KillTypes
<1>5. HandlesOf(running)' = HandlesOf(running) /\ Apart(running)'
      /\ process' = process /\ dropped' = dropped
  BY DEF NetInv, netVars
<1>6. QED BY <1>1, <1>2, <1>4, <1>5 DEF NetInv

(* The network is dropped with all its handles.                             *)
LEMMA DropNetStep ==
  ASSUME NetInv, DropNet
  PROVE  NetInv'
<1>1. /\ op.type = "Idle" /\ op' = op /\ faults' = faults
      /\ storages' = storages /\ directory' = directory
      /\ running' = [v \in Validators |-> <<>>]
      /\ DropHandles(ToSet(Children), process)
  BY DEF DropNet, NotRunning
<1>2. NetTypes /\ Apart(running) /\ Tracks(HandlesOf(running), dropped, process)
  BY <1>1, IdleHolds
<1>3. ToSet(Children) = HandlesOf(running)
  BY <1>2, ChildrenElements DEF NetTypes
<1>4. <<>> \in Seq(Processes) /\ ToSet(<<>>) = {} /\ IsInjective(<<>>)
  BY EmptySeq, ElementsOfSeq
<1>5. \A v \in Validators : running'[v] = <<>>
  BY <1>1
<1>6. running' \in [Validators -> Seq(Processes)]
  BY <1>1, <1>4
<1>7. Apart(running)'
  BY <1>4, <1>5, Zenon DEF Apart
<1>8. HandlesOf(running)' = {}
  BY <1>4, <1>5 DEF HandlesOf
<1> DEFINE kept == {}
           gone == HandlesOf(running)
<1>9. process' \in Table /\ dropped' \subseteq Processes /\ Tracks(kept, dropped', process')
  <2>1. /\ process \in Table /\ dropped \subseteq Processes /\ kept \cap gone = {}
        /\ Tracks(kept \cup gone, dropped, process) /\ DropHandles(gone, process)
    BY <1>1, <1>2, <1>3 DEF NetTypes
  <2> HIDE DEF kept, gone
  <2>2. QED BY <2>1, DroppingTracks
<1>10. NetTypes'
  BY <1>1, <1>2, <1>6, <1>9 DEF NetTypes
<1>11. Held' = {} /\ Prepared'
  BY <1>1 DEF Held, Prepared, StartTypes, KillTypes
<1>12. Tracks(HandlesOf(running)' \cup Held', dropped', process')
  BY <1>8, <1>9, <1>11
<1>13. QED BY <1>7, <1>8, <1>10, <1>11, <1>12 DEF NetInv

(* The steps of the script: what starts and stops, and when posts are made. *)
LEMMA ScriptSteps ==
  /\ Len(Script) = 26
  /\ \A n \in 1..26 :
       /\ Script[n].type \in {"start", "stop", "directory", "ensure", "terminate",
                              "clients", "subscribe", "post", "services"}
       /\ Script[n].type \in {"start", "stop"} => Script[n].validator \in 0..3
BY DEF Script, Start, Stop, MakePosts

(* What the operation is before and after a step of the script.             *)
LEMMA NetSteps ==
  ASSUME NetInv, PerformNet(Script[next_step]), next_step \in 1..26
  PROVE  NetKept /\ UNCHANGED postVars
<1> DEFINE step == Script[next_step]
<1>1. Validators = 0..3
  BY MigrationAssumption DEF Validators
<1>2. step.type \in {"start", "stop"} => step.validator \in Validators
  BY <1>1, ScriptSteps
<1>3. /\ UNCHANGED postVars
      /\ \/ step.type = "start" /\ StartValidator(step.validator)
         \/ step.type = "stop" /\ StopValidator(step.validator)
         \/ SetDirectory(NewDirectory)
         \/ EnsureIsRunning
         \/ Terminate
  BY DEF PerformNet
<1> HIDE DEF step
<1>4. CASE step.type = "start" /\ StartValidator(step.validator)
  BY <1>2, <1>3, <1>4, StartStep
<1>5. CASE step.type = "stop" /\ StopValidator(step.validator)
  BY <1>2, <1>3, <1>5, StopStep
<1>6. CASE SetDirectory(NewDirectory)
  <2>1. NewDirectory \in Directories /\ 0 \in Validators
    BY <1>1, MigrationAssumption
  <2>2. QED BY <1>3, <1>6, <2>1, StartStep
<1>7. QED BY <1>3, <1>4, <1>5, <1>6, EnsureStep, TerminateStep

(* Client steps of the script, and the two steps of making a post.          *)
LEMMA ClientSteps ==
  ASSUME NetInv, \/ \E step : PerformClient(step)
                 \/ WaitProcessInbox \/ Post
  PROVE  NetInv'
<1>1. ASSUME NEW phase \in {"before", "post", "after"} PROVE Posts(phase) \in PostsOperations
  BY DEF Posts, PostsOperations
<1>2. {Idle("Ok"), Idle("Err"), Idle("panic")} \subseteq PostsOperations
  BY DEF PostsOperations
<1>3. CASE \E step : PerformClient(step)
  <2>1. op.type = "Idle" /\ UNCHANGED netVars /\ op' \in {Idle("Ok"), Idle("Err"), Posts("before")}
    BY <1>3 DEF PerformClient, UseNetwork, Subscribe, EnsureServices, SocialMakePosts
  <2>2. QED BY <1>1, <1>2, <2>1, ClientStep
<1>4. CASE Post
  <2>1. op.type = "Posts" /\ UNCHANGED netVars /\ op' \in {Posts("after"), Idle("Err")}
    BY <1>4 DEF Post
  <2>2. QED BY <1>1, <1>2, <2>1, ClientStep
<1>5. CASE WaitProcessInbox
  <2>1. op.type = "Posts" /\ UNCHANGED netVars
    BY <1>5 DEF WaitProcessInbox
  <2>2. op \in [type : {"Posts"}, phase : {"before", "post", "after"}, polls : 0..4]
    BY <2>1, PostingKinds DEF NetInv, NetTypes
  <2>3. op.polls # 4 => [op EXCEPT !.polls = op.polls + 1] \in PostsOperations
    BY <2>2 DEF PostsOperations
  <2>4. CheckPosts \in PostsOperations
    BY <1>1, <1>2 DEF CheckPosts
  <2>5. op' \in PostsOperations
    BY <1>2, <1>5, <2>3, <2>4 DEF WaitProcessInbox
  <2>6. QED BY <2>1, <2>5, ClientStep
<1>6. QED BY <1>3, <1>4, <1>5

(* Every step of the test keeps the invariant of the network.               *)
LEMMA MigrationNet ==
  ASSUME NetInv, next_step \in Nat \ {0}, [MigrationNext]_allVars
  PROVE  NetInv'
<1>1. CASE NextStep
  <2>1. next_step \in 1..26
    BY <1>1, ScriptSteps DEF NextStep
  <2>2. CASE PerformNet(Script[next_step])
    BY <2>1, <2>2, NetSteps DEF NetKept
  <2>3. CASE PerformClient(Script[next_step])
    BY <2>3, ClientSteps
  <2>4. QED BY <1>1, <2>2, <2>3 DEF NextStep
<1>2. CASE DropNet
  BY <1>2, DropNetStep
<1>3. CASE DriverProgress
  BY <1>3, SpawnStep, CannotSpawnStep, HasStartedStep, HasNotStartedStep, KillStep, ClientSteps
     DEF DriverProgress, NetKept
<1>4. CASE System
  BY <1>4, SystemStep DEF NetKept
<1>5. CASE UNCHANGED vars
  <2>1. [Next]_vars
    BY <1>5
  <2>2. QED BY <2>1, NetNext DEF NetKept
<1>6. QED BY <1>1, <1>2, <1>3, <1>4, <1>5
          DEF MigrationNext, Driver, HearOfPosts, ProcessAutomatically, allVars

-----------------------------------------------------------------------------
(* The posts.                                                               *)

(* No error has occurred.                                                   *)
Fine == op.type = "Idle" => op.result = "Ok"

(* Between posts all have been received; while one is made it is counted    *)
(* before it is made, and received after that.                              *)
PostsInv ==
  /\ NetInv
  /\ next_step \in Nat \ {0}
  /\ received \in Nat /\ known \in Nat /\ posted \in Nat /\ expected \in Nat
  /\ received <= known /\ known <= posted
  /\ Fine => /\ posted = expected
             /\ ~(op.type = "Posts" /\ op.phase = "after") => received = posted

(* At first there are no posts.                                             *)
LEMMA PostsInit == MigrationInit => PostsInv
BY NetInit DEF MigrationInit, PostsInv, Fine

(* While no post is made all of them have been received.                    *)
LEMMA PostsStay ==
  ASSUME PostsInv, NetInv', next_step' \in Nat \ {0},
         UNCHANGED <<posted, known, received, expected>>,
         Fine /\ op.type # "Posts"
  PROVE  PostsInv'
BY DEF PostsInv, Fine

(* Every step keeps the invariant of the posts.                             *)
LEMMA PostsStep == PostsInv /\ [MigrationNext]_allVars => PostsInv'
<1> SUFFICES ASSUME PostsInv, [MigrationNext]_allVars PROVE PostsInv'
  OBVIOUS
<1>1. NetInv'
  BY MigrationNet DEF PostsInv
<1>2. CASE NextStep
  <2>1. /\ op = Idle("Ok") /\ next_step' = next_step + 1
        /\ UNCHANGED <<posted, known, received, expected>>
    BY <1>2 DEF NextStep, PerformNet, PerformClient, UseNetwork, Subscribe, EnsureServices,
                SocialMakePosts, postVars
  <2>2. Fine /\ op.type # "Posts"
    BY <2>1 DEF Fine, Idle
  <2>3. next_step' \in Nat \ {0}
    BY <2>1 DEF PostsInv
  <2>4. QED BY <1>1, <2>1, <2>2, <2>3, PostsStay
<1>3. CASE DropNet
  <2>1. op' = op /\ next_step' = 28 /\ UNCHANGED <<posted, known, received, expected>>
    BY <1>3, ScriptSteps DEF DropNet, postVars
  <2>2. next_step' \in Nat \ {0} /\ op' = op
    BY <2>1
  <2>3. UNCHANGED <<posted, known, received, expected>>
    BY <2>1
  <2>4. QED BY <1>1, <2>2, <2>3 DEF PostsInv, Fine
<1>4. ASSUME NEW p, Spawn(p) \/ CannotSpawn \/ HasStarted \/ HasNotStarted \/ Kill,
             UNCHANGED <<next_step, postVars>>
      PROVE  PostsInv'
  <2>1. op.type # "Posts" /\ Fine
    BY <1>4 DEF Spawn, CannotSpawn, HasStarted, HasNotStarted, Kill, Fine
  <2>2. QED BY <1>1, <1>4, <2>1, PostsStay DEF postVars, PostsInv
<1>5. CASE WaitProcessInbox /\ UNCHANGED next_step
  <2>1. op \in [type : {"Posts"}, phase : {"before", "post", "after"}, polls : 0..4]
    BY <1>5, PostingKinds DEF WaitProcessInbox, PostsInv, NetInv, NetTypes
  <2>2. Fine /\ posted = expected /\ (op.phase # "after" => received = posted)
    BY <2>1 DEF Fine, PostsInv
  <2>3. /\ posted' = posted /\ known' = known /\ expected' = expected
        /\ received' \in {received, known}
        /\ received' = known \/ op' = Idle("Err")
    BY <1>5 DEF WaitProcessInbox
  <2>4. \/ op' \in {Idle("Err"), Idle("panic")}
        \/ op' = [op EXCEPT !.polls = op.polls + 1]
        \/ op' = Posts("post") /\ op.phase = "before" /\ received = expected /\ received' = received
        \/ op' = Idle("Ok") /\ received = expected /\ received' = received
    BY <1>5 DEF WaitProcessInbox, CheckPosts
  <2>5. /\ received' \in Nat /\ known' \in Nat /\ posted' \in Nat /\ expected' \in Nat
        /\ received' <= known' /\ known' <= posted' /\ posted' = expected'
        /\ op.phase # "after" => received' = posted'
    BY <2>2, <2>3 DEF PostsInv
  <2>6. CASE op' \in {Idle("Err"), Idle("panic")}
    <3>1. ~Fine'
      BY <2>6 DEF Fine, Idle
    <3>2. QED BY <1>1, <1>5, <2>5, <3>1 DEF PostsInv
  <2>7. CASE op' = [op EXCEPT !.polls = op.polls + 1]
    <3>1. op'.type = "Posts" /\ op'.phase = op.phase
      BY <2>1, <2>7
    <3>2. QED BY <1>1, <1>5, <2>5, <3>1 DEF PostsInv
  <2>8. CASE received = expected /\ received' = received
    BY <1>1, <1>5, <2>2, <2>3, <2>5, <2>8 DEF PostsInv
  <2>9. QED BY <2>4, <2>6, <2>7, <2>8
<1>6. CASE Post /\ UNCHANGED next_step
  <2>1. op.type = "Posts" /\ op.phase = "post"
    BY <1>6 DEF Post
  <2>2. posted = expected
    BY <2>1 DEF PostsInv, Fine
  <2>3. /\ expected' = expected + 1 /\ known' = known /\ received' = received
        /\ \/ posted' = posted + 1 /\ op' = Posts("after")
           \/ posted' = posted /\ op' = Idle("Err")
    BY <1>6 DEF Post
  <2>4. CASE posted' = posted + 1 /\ op' = Posts("after")
    <3>1. op'.type = "Posts" /\ op'.phase = "after"
      BY <2>4 DEF Posts
    <3>2. QED BY <1>1, <1>6, <2>2, <2>3, <2>4, <3>1 DEF PostsInv
  <2>5. CASE posted' = posted /\ op' = Idle("Err")
    <3>1. ~Fine'
      BY <2>5 DEF Fine, Idle
    <3>2. QED BY <1>1, <1>6, <2>3, <2>5, <3>1 DEF PostsInv
  <2>6. QED BY <2>3, <2>4, <2>5
<1>7. CASE HearOfPosts \/ ProcessAutomatically
  <2>1. /\ op' = op /\ next_step' = next_step /\ posted' = posted /\ expected' = expected
        /\ \/ known < posted /\ known' = posted /\ received' = received
           \/ received < known /\ received' = known /\ known' = known
    BY <1>7 DEF HearOfPosts, ProcessAutomatically, vars
  <2>2. received < posted /\ received' <= known' /\ known' <= posted'
        /\ received' \in Nat /\ known' \in Nat
    BY <2>1 DEF PostsInv
  <2>3. Fine => op.type = "Posts" /\ op.phase = "after"
    BY <2>2 DEF PostsInv
  <2>4. Fine' <=> Fine
    BY <2>1 DEF Fine
  <2>5. QED BY <1>1, <2>1, <2>2, <2>3, <2>4 DEF PostsInv
<1>8. CASE System /\ UNCHANGED <<next_step, postVars>>
  <2>1. op' = op
    BY <1>8 DEF System, Bind, Fail, Reap
  <2>2. QED BY <1>1, <1>8, <2>1 DEF postVars, PostsInv, Fine
<1>9. CASE UNCHANGED allVars
  BY <1>1, <1>9 DEF allVars, vars, postVars, PostsInv, Fine
<1>10. QED BY <1>2, <1>3, <1>4, <1>5, <1>6, <1>7, <1>8, <1>9
           DEF MigrationNext, Driver, DriverProgress

(* The assertion of the count fails only while the new post is still on its *)
(* way.                                                                     *)
THEOREM EveryPanicExplained == MigrationSpec => PanicMeansUnseen
<1>1. PostsInv /\ [MigrationNext]_allVars =>
        [op # op' /\ op' = Idle("panic") => op.phase = "after" /\ received < posted]_allVars
  <2> SUFFICES ASSUME PostsInv, [MigrationNext]_allVars, op # op', op' = Idle("panic")
               PROVE  op.phase = "after" /\ received < posted
    OBVIOUS
  <2>1. op' # op /\ op'.type = "Idle" /\ op'.result = "panic"
    BY DEF Idle
  <2>2. op' \notin {Idle("Ok"), Idle("Err"), Posts("before"), Posts("post"), Posts("after")}
    BY <2>1 DEF Idle, Posts
  <2>3. ~NetKept
    BY <2>1 DEF NetKept, Operations
  <2>4. NetInv /\ next_step \in Nat \ {0}
    BY DEF PostsInv
  <2>5. ~NextStep
    <3>1. SUFFICES ASSUME NextStep PROVE FALSE
      OBVIOUS
    <3>2. next_step \in 1..26
      BY <2>4, <3>1, ScriptSteps DEF NextStep
    <3>3. CASE PerformNet(Script[next_step])
      BY <2>3, <2>4, <3>2, <3>3, NetSteps
    <3>4. CASE PerformClient(Script[next_step])
      BY <2>2, <3>4 DEF PerformClient, UseNetwork, Subscribe, EnsureServices, SocialMakePosts
    <3>5. QED BY <3>1, <3>3, <3>4 DEF NextStep
  <2>6. ~DropNet /\ ~HearOfPosts /\ ~ProcessAutomatically /\ ~UNCHANGED allVars
    BY <2>1 DEF DropNet, HearOfPosts, ProcessAutomatically, allVars, vars
  <2>7. ~System /\ (\A p \in Processes : ~Spawn(p)) /\ ~CannotSpawn /\ ~HasStarted
        /\ ~HasNotStarted /\ ~Kill
    BY <2>3, <2>4, SystemStep, SpawnStep, CannotSpawnStep, HasStartedStep, HasNotStartedStep,
       KillStep
  <2>8. ~Post
    BY <2>2 DEF Post
  <2>9. WaitProcessInbox
    BY <2>5, <2>6, <2>7, <2>8 DEF MigrationNext, Driver, DriverProgress
  <2>10. op \in [type : {"Posts"}, phase : {"before", "post", "after"}, polls : 0..4]
    BY <2>4, <2>9, PostingKinds DEF WaitProcessInbox, NetInv, NetTypes
  <2>11. op' # [op EXCEPT !.polls = op.polls + 1]
    BY <2>1, <2>10
  <2>12. received # expected /\ op' = CheckPosts /\ op.phase \in {"before", "after"}
    BY <2>2, <2>9, <2>11 DEF WaitProcessInbox, CheckPosts
  <2>13. Fine
    BY <2>10 DEF Fine
  <2>14. posted = expected /\ (op.phase # "after" => received = posted)
    BY <2>10, <2>13 DEF PostsInv
  <2>15. received <= posted /\ received \in Nat /\ posted \in Nat
    BY DEF PostsInv
  <2>16. QED BY <2>12, <2>14, <2>15
<1>2. QED BY <1>1, PostsInit, PostsStep, PTL DEF MigrationSpec, PanicMeansUnseen

-----------------------------------------------------------------------------
(* The validators.                                                          *)

(* Which validators run before each step of the script, and at its end.     *)
UpBefore ==
  LET all == {0, 1, 2, 3} IN
  <<{}, {0}, {0, 1}, {0, 1, 2}, all, all, all,
    all, {0, 1, 3}, {0, 1}, {0, 1}, {0, 1, 2}, all,
    all, {1, 2, 3}, {2, 3}, {0, 2, 3}, all,
    all, {1, 2, 3}, {2, 3}, {0, 2, 3}, all,
    all, all, all, all>>

(* No error has occurred, and the network has not been dropped.             *)
Going == next_step <= 27 /\ (op.type = "Idle" => op.result = "Ok")

(* The validator whose children are being started.                          *)
Awaited == IF op.type = "Restart" THEN {op.validator} ELSE {}

(* The validators that the script has started, and not stopped, run.        *)
RunningMatches ==
  \A v \in Validators : running[v] # NotRunning <=> v \in UpBefore[next_step] \ Awaited

(* The children of a validator have roles of its own.                       *)
RolesMatch ==
  \A v \in Validators : \A p \in ToSet(running[v]) : process[p].role.validator = v

Upright(p) == process[p].status \in {"serving", "exited"}

(* Until the network is terminated, its children serve, or have failed by   *)
(* themselves.                                                              *)
ChildrenUpright ==
  next_step <= 26 => \A v \in Validators : \A p \in ToSet(running[v]) : Upright(p)

(* The children of a validator that is being started have roles of its own, *)
(* other than those that are still to be started.                           *)
StartingWell ==
  op.type = "Restart" =>
    /\ op.validator \in UpBefore[next_step]
    /\ IsInjective(op.roles)
    /\ \A r \in ToSet(op.roles) : r.validator = op.validator
    /\ \A p \in ToSet(op.built) :
         /\ Upright(p)
         /\ process[p].role.validator = op.validator
         /\ process[p].role \notin ToSet(op.roles)
    /\ op.child # NoChild =>
         /\ process[op.child].status \in {"starting", "serving", "exited"}
         /\ process[op.child].role = Head(op.roles)

(* What is stopped has been waited for, or will be.                         *)
KillingWell ==
  /\ op.type = "Stop" => \A p \in op.owned : p \in ToSet(op.queue) \/ process[p].status = "waited"
  /\ op.type = "Terminate" => next_step = 27

PostingWell == op.type = "Posts" => next_step \in {8, 14, 19, 24}

GoingWell ==
  /\ dropped = {}
  /\ RunningMatches
  /\ RolesMatch
  /\ ChildrenUpright
  /\ StartingWell
  /\ KillingWell
  /\ PostingWell

(* Only the child that is awaited may still have to bind its ports.         *)
StartingKnown ==
  \A p \in Processes : process[p].status = "starting" /\ p \notin dropped =>
    op.type = "Restart" /\ op.child = p

Failed == {p \in Processes : process[p].status = "exited"}

(* Every process that has exited was counted.                               *)
FailuresCounted == Cardinality(Failed) <= faults

CommitteeInv ==
  /\ NetInv
  /\ next_step \in 1..28
  /\ op.type \notin {"StartServer", "TerminateServer"}
  /\ next_step = 28 => op.type = "Idle"
  /\ NoPortConflict
  /\ StartingKnown
  /\ FailuresCounted
  /\ Going => GoingWell

-----------------------------------------------------------------------------
(* Helpers.                                                                 *)

(* What every step of the script does to the validators that run.           *)
LEMMA UpSteps ==
  ASSUME NEW n \in 1..26
  PROVE  /\ Script[n].type = "start" =>
              /\ Script[n].validator \notin UpBefore[n]
              /\ UpBefore[n + 1] = UpBefore[n] \cup {Script[n].validator}
         /\ Script[n].type = "stop" =>
              UpBefore[n + 1] = UpBefore[n] \ {Script[n].validator}
         /\ Script[n].type \notin {"start", "stop"} => UpBefore[n + 1] = UpBefore[n]
         /\ Script[n].type = "post" => n + 1 \in {8, 14, 19, 24}
         /\ Script[n].type = "terminate" => n = 26
<1>1. Script[n].type = "post" => n \in {7, 13, 18, 23}
  BY DEF Script, Start, Stop, MakePosts
<1>2. Script[n].type = "terminate" => n = 26
  BY DEF Script, Start, Stop, MakePosts
<1>3. Script[n].type \notin {"start", "stop"} => n \in {5, 6, 7, 10, 13, 18, 23, 24, 25, 26}
  BY DEF Script, Start, Stop, MakePosts
<1>4. n \in {5, 6, 7, 10, 13, 18, 23, 24, 25, 26} => UpBefore[n + 1] = UpBefore[n]
  <2>1. n \in {5, 6, 7, 13, 18, 23, 24, 25, 26} => UpBefore[n] = 0..3 /\ UpBefore[n + 1] = 0..3
    BY DEF UpBefore
  <2>2. n = 10 => UpBefore[n + 1] = UpBefore[n]
    BY DEF UpBefore
  <2>3. QED BY <2>1, <2>2
<1>5. Script[n].type = "start" =>
        \/ Script[n].validator = 0 /\ n \in {1, 16, 21}
        \/ Script[n].validator = 1 /\ n \in {2, 17, 22}
        \/ Script[n].validator = 2 /\ n \in {3, 11}
        \/ Script[n].validator = 3 /\ n \in {4, 12}
  BY DEF Script, Start, Stop, MakePosts
<1>6. Script[n].type = "stop" =>
        \/ Script[n].validator = 0 /\ n \in {14, 19}
        \/ Script[n].validator = 1 /\ n \in {15, 20}
        \/ Script[n].validator = 2 /\ n = 8
        \/ Script[n].validator = 3 /\ n = 9
  BY DEF Script, Start, Stop, MakePosts
<1>7. /\ n \in {1, 16, 21} => 0 \notin UpBefore[n] /\ UpBefore[n + 1] = UpBefore[n] \cup {0}
      /\ n \in {2, 17, 22} => 1 \notin UpBefore[n] /\ UpBefore[n + 1] = UpBefore[n] \cup {1}
  BY DEF UpBefore
<1>8. /\ n \in {3, 11} => 2 \notin UpBefore[n] /\ UpBefore[n + 1] = UpBefore[n] \cup {2}
      /\ n \in {4, 12} => 3 \notin UpBefore[n] /\ UpBefore[n + 1] = UpBefore[n] \cup {3}
  BY DEF UpBefore
<1>9. /\ n \in {14, 19} => UpBefore[n + 1] = UpBefore[n] \ {0}
      /\ n \in {15, 20} => UpBefore[n + 1] = UpBefore[n] \ {1}
      /\ n = 8 => UpBefore[n + 1] = UpBefore[n] \ {2}
      /\ n = 9 => UpBefore[n + 1] = UpBefore[n] \ {3}
  BY DEF UpBefore
<1>10. QED BY <1>1, <1>2, <1>3, <1>4, <1>5, <1>6, <1>7, <1>8, <1>9

(* When posts are made, all validators run.                                 *)
LEMMA UpAtPosts == \A n \in {8, 14, 19, 24} : UpBefore[n] = 0..3
BY DEF UpBefore

(* A nonempty sequence is its head and its tail.                            *)
LEMMA HeadAndTail ==
  ASSUME NEW P, NEW s \in Seq(P), s # <<>>
  PROVE  /\ ToSet(s) = {Head(s)} \cup ToSet(Tail(s))
         /\ Len(s) = 1 => ToSet(s) = {Head(s)}
         /\ IsInjective(s) => IsInjective(Tail(s)) /\ Head(s) \notin ToSet(Tail(s))
<1> DEFINE t == Tail(s)
           h == Head(s)
<1>1. Len(s) \in Nat /\ Len(s) # 0 /\ DOMAIN s = 1..Len(s)
  BY EmptySeq
<1>2. h = s[1]
  OBVIOUS
<1>3. Len(t) = Len(s) - 1 /\ DOMAIN t = 1..(Len(s) - 1)
  <2>1. t \in Seq(P) /\ Len(t) = Len(s) - 1
    BY <1>1
  <2>2. QED BY <2>1
<1>10. \A i \in 1..(Len(s) - 1) : t[i] = s[i + 1]
  BY <1>1
<1> HIDE DEF t, h
<1>4. /\ \A i \in DOMAIN t : t[i] = s[i + 1] /\ i + 1 \in DOMAIN s /\ i + 1 # 1
      /\ \A i \in DOMAIN s : i = 1 \/ (i - 1 \in DOMAIN t /\ s[i] = t[i - 1])
      /\ h = s[1] /\ 1 \in DOMAIN s
      /\ Len(s) = 1 => DOMAIN s = {1}
  <2>1. \A i \in DOMAIN t : i + 1 \in DOMAIN s /\ i + 1 # 1
    BY <1>1, <1>3
  <2>2. \A i \in DOMAIN s : i = 1 \/ (i - 1 \in 1..(Len(s) - 1) /\ (i - 1) + 1 = i)
    BY <1>1
  <2>3. \A i \in 1..Len(s) : i = 1 \/ s[i] = t[i - 1]
    <3>1. SUFFICES ASSUME NEW i \in 1..Len(s), i # 1 PROVE s[i] = t[i - 1]
      OBVIOUS
    <3>2. PICK j \in 1..(Len(s) - 1) : j = i - 1 /\ j + 1 = i
      BY <1>1, <2>2, <3>1
    <3>3. QED BY <1>10, <3>2
  <2>4. Len(s) = 1 => 1..Len(s) = {1}
    OBVIOUS
  <2>5. 1 \in DOMAIN s
    BY <1>1
  <2>6. \A i \in DOMAIN s : i = 1 \/ i - 1 \in DOMAIN t
    BY <1>1, <1>3, <2>2
  <2>7. \A i \in DOMAIN t : t[i] = s[i + 1]
    BY <1>3, <1>10
  <2>8. \A i \in DOMAIN s : i = 1 \/ s[i] = t[i - 1]
    BY <1>1, <2>3
  <2>9. Len(s) = 1 => DOMAIN s = {1}
    BY <1>1, <2>4
  <2>10. \A i \in DOMAIN t : t[i] = s[i + 1] /\ i + 1 \in DOMAIN s /\ i + 1 # 1
    BY <2>1, <2>7, Zenon
  <2>11. \A i \in DOMAIN s : i = 1 \/ (i - 1 \in DOMAIN t /\ s[i] = t[i - 1])
    BY <2>6, <2>8
  <2>12. QED BY <1>2, <2>5, <2>9, <2>10, <2>11, Zenon
<1>5. ToSet(s) = {h} \cup ToSet(t)
  BY <1>4 DEF ToSet
<1>6. Len(s) = 1 => ToSet(s) = {h}
  BY <1>4 DEF ToSet
<1>7. IsInjective(s) => h \notin ToSet(t)
  BY <1>4 DEF ToSet, IsInjective
<1>8. IsInjective(s) => IsInjective(t)
  <2>1. SUFFICES ASSUME IsInjective(s), NEW i \in DOMAIN t, NEW j \in DOMAIN t, t[i] = t[j]
                 PROVE  i = j
    BY DEF IsInjective
  <2>2. i + 1 = j + 1
    BY <1>4, <2>1 DEF IsInjective
  <2>3. i \in Nat /\ j \in Nat
    BY <1>1, <1>3
  <2>4. QED BY <2>2, <2>3
<1>9. QED BY <1>5, <1>6, <1>7, <1>8 DEF t, h

(* The roles of a validator differ, and all belong to it.                   *)
LEMMA RolesOfOwn ==
  ASSUME NEW v \in Validators
  PROVE  /\ RolesOf(v) \in Seq(Roles) \ {<<>>}
         /\ IsInjective(RolesOf(v))
         /\ \A r \in ToSet(RolesOf(v)) : r.validator = v
<1>1. RolesOf(v) \in Seq(Roles) \ {<<>>}
  BY RolesOfType
<1> DEFINE n == NumProxies + NumShards
<1>2. n \in Nat /\ NumProxies \in Nat /\ DOMAIN RolesOf(v) = 1..n
  BY LocalNetAssumption DEF RolesOf
<1>3. \A k \in 1..n :
        /\ k <= NumProxies => RolesOf(v)[k] = [validator |-> v, kind |-> "proxy", id |-> k - 1]
        /\ ~(k <= NumProxies) =>
             RolesOf(v)[k] = [validator |-> v, kind |-> "server", id |-> k - NumProxies - 1]
  BY DEF RolesOf
<1> DEFINE s == RolesOf(v)
<1> HIDE DEF s
<1>4. \A k \in 1..n :
        /\ s[k].validator = v
        /\ k <= NumProxies => s[k].kind = "proxy" /\ s[k].id = k - 1
        /\ ~(k <= NumProxies) => s[k].kind = "server" /\ s[k].id = k - NumProxies - 1
  <2> TAKE k \in 1..n
  <2>1. CASE k <= NumProxies
    <3>1. s[k] = [validator |-> v, kind |-> "proxy", id |-> k - 1]
      BY <1>3, <2>1 DEF s
    <3>2. QED BY <2>1, <3>1
  <2>2. CASE ~(k <= NumProxies)
    <3>1. s[k] = [validator |-> v, kind |-> "server", id |-> k - NumProxies - 1]
      BY <1>3, <2>2 DEF s
    <3>2. QED BY <2>2, <3>1
  <2>3. QED BY <2>1, <2>2
<1>5. \A i, j \in 1..n : s[i] = s[j] => i = j
  <2> TAKE i, j \in 1..n
  <2> HAVE s[i] = s[j]
  <2>1. i \in Int /\ j \in Int /\ NumProxies \in Int
    BY <1>2
  <2>2. CASE i <= NumProxies
    BY <1>4, <2>1, <2>2
  <2>3. CASE ~(i <= NumProxies)
    BY <1>4, <2>1, <2>3
  <2>4. QED BY <2>2, <2>3
<1>6. DOMAIN s = 1..n
  BY <1>2 DEF s
<1>7. IsInjective(s) /\ \A r \in ToSet(s) : r.validator = v
  BY <1>4, <1>5, <1>6 DEF IsInjective, ToSet
<1>8. QED BY <1>1, <1>7 DEF s

(* What dropping handles does to the table.                                 *)
LEMMA DroppedRecords ==
  ASSUME NEW table, NEW gone, DropHandles(gone, table)
  PROVE  /\ dropped \subseteq dropped'
         /\ \A p \in Processes :
              /\ process'[p] \in {table[p], Unused}
              /\ p \notin gone => process'[p] = table[p]
              /\ p \in gone => p \in dropped' \/ process'[p] = Unused
         /\ (\A p \in gone : ~Alive(table[p])) => dropped' = dropped
BY DEF DropHandles, Alive

(* The count of failures and of ports, when no process fails.               *)
LEMMA NothingFails ==
  ASSUME CommitteeInv, faults' = faults,
         \A p \in Processes : process'[p].status \in {"refused", "exited"} =>
           process'[p].status = process[p].status
  PROVE  NoPortConflict' /\ FailuresCounted'
<1>1. NoPortConflict'
  BY DEF CommitteeInv, NoPortConflict
<1>2. Failed' \subseteq Failed
  BY DEF Failed
<1>3. IsFiniteSet(Failed)
  BY LocalNetAssumption, FS_Subset DEF Failed
<1>4. Cardinality(Failed)' <= Cardinality(Failed) /\ Cardinality(Failed)' \in Nat
      /\ Cardinality(Failed) \in Nat
  <2> DEFINE new == Failed'
  <2>1. Cardinality(new) <= Cardinality(Failed) /\ IsFiniteSet(new)
    BY <1>2, <1>3, FS_Subset
  <2>2. Cardinality(new) \in Nat /\ Cardinality(Failed) \in Nat
    BY <1>3, <2>1, FS_CardinalityType
  <2>3. QED BY <2>1, <2>2
<1>5. faults \in Nat
  BY LocalNetAssumption DEF CommitteeInv, NetInv, NetTypes
<1>6. FailuresCounted'
  BY <1>4, <1>5 DEF CommitteeInv, FailuresCounted
<1>7. QED BY <1>1, <1>6

(* A step that ends in an error, or drops the network.                      *)
LEMMA GivingUp ==
  ASSUME CommitteeInv, NetInv', next_step' \in 1..28, faults' = faults,
         op'.type = "Idle", ~Going',
         \A p \in Processes :
           /\ process'[p].status \in {"refused", "exited"} => process'[p].status = process[p].status
           /\ process'[p].status = "starting" /\ p \notin dropped' =>
                /\ process[p].status = "starting" /\ p \notin dropped
                /\ ~(op.type = "Restart" /\ op.child = p)
  PROVE  CommitteeInv'
<1>1. NoPortConflict' /\ FailuresCounted'
  BY NothingFails
<1>2. StartingKnown'
  BY DEF CommitteeInv, StartingKnown
<1>3. QED BY <1>1, <1>2 DEF CommitteeInv

-----------------------------------------------------------------------------
(* Every step keeps the invariant of the committee.                         *)

(* A process is unused, or has a record.                                    *)
LEMMA Records ==
  ASSUME NetInv, NEW p \in Processes
  PROVE  /\ process \in Table
         /\ process[p] \in Record \cup {Unused}
         /\ process[p].status # "unused" => process[p] \in Record
         /\ \A status : [process[p] EXCEPT !.status = status].status = status
         /\ \A status : process[p] \in Record =>
              [process[p] EXCEPT !.status = status].role = process[p].role
BY DEF NetInv, NetTypes, Table, Record, Unused

(* Before a step of the script nothing is starting or dying.                *)
LEMMA BeforeScript ==
  ASSUME CommitteeInv, NextStep
  PROVE  /\ next_step \in 1..26 /\ next_step' = next_step + 1
         /\ op = Idle("Ok") /\ op.type = "Idle"
         /\ GoingWell /\ dropped = {}
         /\ \A p \in Processes : process[p].status # "starting"
<1>1. op = Idle("Ok") /\ op.type = "Idle" /\ op.result = "Ok"
  BY DEF NextStep, Idle
<1>2. next_step \in 1..26 /\ next_step' = next_step + 1
  BY ScriptSteps DEF NextStep, CommitteeInv
<1>3. GoingWell
  BY <1>1, <1>2 DEF CommitteeInv, Going
<1>4. \A p \in Processes : process[p].status # "starting"
  BY <1>1, <1>3 DEF CommitteeInv, StartingKnown, GoingWell
<1>5. QED BY <1>1, <1>2, <1>3, <1>4 DEF GoingWell

(* A step of the script that fails at once.                                 *)
LEMMA ScriptFails ==
  ASSUME CommitteeInv, NetInv', NextStep, op' = Idle("Err"), faults' = faults, dropped' = dropped,
         \A p \in Processes : process'[p].status \in {process[p].status, "waited"}
  PROVE  CommitteeInv'
<1>1. next_step' \in 1..28
  BY BeforeScript
<1>2. op'.type = "Idle" /\ ~Going'
  BY DEF Idle, Going
<1>3. \A p \in Processes :
        /\ process'[p].status \in {"refused", "exited"} => process'[p].status = process[p].status
        /\ process'[p].status = "starting" /\ p \notin dropped' =>
             /\ process[p].status = "starting" /\ p \notin dropped
             /\ ~(op.type = "Restart" /\ op.child = p)
  BY BeforeScript
<1>4. QED BY <1>1, <1>2, <1>3, GivingUp

(* A step of the script that starts and stops nothing.                      *)
LEMMA ScriptPasses ==
  ASSUME CommitteeInv, NetInv', NextStep, Script[next_step].type \notin {"start", "stop"},
         UNCHANGED <<running, process, dropped, faults>>,
         \/ op' = Idle("Ok")
         \/ op' = Posts("before") /\ Script[next_step].type = "post"
         \/ op'.type = "Terminate" /\ Script[next_step].type = "terminate"
  PROVE  CommitteeInv'
<1>1. /\ next_step \in 1..26 /\ next_step' = next_step + 1 /\ op.type = "Idle"
      /\ GoingWell /\ \A p \in Processes : process[p].status # "starting"
  BY BeforeScript
<1>2. /\ UpBefore[next_step'] = UpBefore[next_step]
      /\ Script[next_step].type = "post" => next_step' \in {8, 14, 19, 24}
      /\ Script[next_step].type = "terminate" => next_step' = 27
  BY <1>1, UpSteps
<1>3. op'.type \in {"Idle", "Posts", "Terminate"}
  BY DEF Idle, Posts
<1>4. NoPortConflict' /\ FailuresCounted' /\ StartingKnown'
  BY <1>1 DEF CommitteeInv, NoPortConflict, FailuresCounted, StartingKnown, Failed
<1>5. RunningMatches'
  BY <1>1, <1>2, <1>3 DEF GoingWell, RunningMatches, Awaited
<1>6. RolesMatch' /\ ChildrenUpright'
  BY <1>1 DEF GoingWell, RolesMatch, ChildrenUpright, Upright
<1>7. StartingWell' /\ KillingWell' /\ PostingWell'
  BY <1>2, <1>3 DEF StartingWell, KillingWell, PostingWell, Idle, Posts
<1>8. GoingWell'
  BY <1>1, <1>5, <1>6, <1>7 DEF GoingWell
<1>9. QED BY <1>1, <1>3, <1>4, <1>8 DEF CommitteeInv

(* A validator is started.                                                  *)
LEMMA ScriptStarts ==
  ASSUME CommitteeInv, NetInv', NextStep, NEW v \in Validators,
         Script[next_step].type = "start", Script[next_step].validator = v,
         UNCHANGED <<running, process, dropped, faults>>,
         op' = Starting("Restart", v, RolesOf(v))
  PROVE  CommitteeInv'
<1>1. /\ next_step \in 1..26 /\ next_step' = next_step + 1 /\ op.type = "Idle"
      /\ GoingWell /\ \A p \in Processes : process[p].status # "starting"
  BY BeforeScript
<1>2. v \notin UpBefore[next_step] /\ UpBefore[next_step'] = UpBefore[next_step] \cup {v}
  BY <1>1, UpSteps
<1>3. /\ op'.type = "Restart" /\ op'.validator = v /\ op'.roles = RolesOf(v)
      /\ op'.built = <<>> /\ op'.child = NoChild
  BY DEF Starting
<1>4. NoPortConflict' /\ FailuresCounted' /\ StartingKnown'
  BY <1>1 DEF CommitteeInv, NoPortConflict, FailuresCounted, StartingKnown, Failed
<1>5. RunningMatches'
  BY <1>1, <1>2, <1>3 DEF GoingWell, RunningMatches, Awaited
<1>6. RolesMatch' /\ ChildrenUpright'
  BY <1>1 DEF GoingWell, RolesMatch, ChildrenUpright, Upright
<1>7. StartingWell'
  <2>1. IsInjective(RolesOf(v)) /\ \A r \in ToSet(RolesOf(v)) : r.validator = v
    BY RolesOfOwn
  <2>2. ToSet(<<>>) = {}
    BY ElementsOfSeq, EmptySeq
  <2>3. QED BY <1>2, <1>3, <2>1, <2>2 DEF StartingWell
<1>8. KillingWell' /\ PostingWell'
  BY <1>3 DEF KillingWell, PostingWell
<1>9. GoingWell'
  BY <1>1, <1>5, <1>6, <1>7, <1>8 DEF GoingWell
<1>10. QED BY <1>1, <1>3, <1>4, <1>9 DEF CommitteeInv

(* A validator is stopped.                                                  *)
LEMMA ScriptStops ==
  ASSUME CommitteeInv, NetInv', NextStep, NEW v \in Validators,
         Script[next_step].type = "stop", Script[next_step].validator = v, StopValidator(v)
  PROVE  CommitteeInv'
<1>1. /\ next_step \in 1..26 /\ next_step' = next_step + 1 /\ op.type = "Idle"
      /\ GoingWell /\ \A p \in Processes : process[p].status # "starting"
  BY BeforeScript
<1>2. UpBefore[next_step'] = UpBefore[next_step] \ {v}
  BY <1>1, UpSteps
<1>3. /\ UNCHANGED <<process, dropped, faults>>
      /\ running' = [running EXCEPT ![v] = <<>>]
      /\ op' = IF running[v] = NotRunning THEN Idle("Ok")
               ELSE Killing("Stop", running[v], ToSet(running[v]))
  BY DEF StopValidator, NotRunning
<1>4. running \in [Validators -> Seq(Processes)]
  BY DEF CommitteeInv, NetInv, NetTypes
<1>5. \A w \in Validators : running'[w] = IF w = v THEN <<>> ELSE running[w]
  BY <1>3, <1>4
<1>6. \/ op'.type = "Idle"
      \/ op'.type = "Stop" /\ op'.owned = ToSet(op'.queue)
  BY <1>3 DEF Idle, Killing
<1>7. NoPortConflict' /\ FailuresCounted' /\ StartingKnown'
  BY <1>1, <1>3 DEF CommitteeInv, NoPortConflict, FailuresCounted, StartingKnown, Failed
<1>8. RunningMatches'
  BY <1>1, <1>2, <1>5, <1>6 DEF GoingWell, RunningMatches, Awaited, NotRunning
<1>9. ToSet(<<>>) = {}
  BY ElementsOfSeq, EmptySeq
<1>10. RolesMatch' /\ ChildrenUpright'
  BY <1>1, <1>3, <1>5, <1>9 DEF GoingWell, RolesMatch, ChildrenUpright, Upright
<1>11. StartingWell' /\ KillingWell' /\ PostingWell'
  BY <1>6 DEF StartingWell, KillingWell, PostingWell
<1>12. GoingWell'
  BY <1>1, <1>3, <1>8, <1>10, <1>11 DEF GoingWell
<1>13. QED BY <1>1, <1>6, <1>7, <1>12 DEF CommitteeInv

(* The steps of the script.                                                 *)
LEMMA ScriptKept ==
  ASSUME CommitteeInv, NetInv', NextStep
  PROVE  CommitteeInv'
<1> DEFINE step == Script[next_step]
<1>1. next_step \in 1..26 /\ op = Idle("Ok") /\ op.type = "Idle"
  BY BeforeScript
<1>2. PerformNet(step) \/ PerformClient(step)
  BY DEF NextStep
<1>3. step.type \in {"start", "stop"} => step.validator \in Validators
  BY <1>1, ScriptSteps, MigrationAssumption DEF Validators
<1> HIDE DEF step
<1>4. CASE step.type = "start" /\ StartValidator(step.validator)
  <2>1. UNCHANGED <<running, process, dropped, faults>>
    BY <1>4 DEF StartValidator
  <2>2. CASE op' = Starting("Restart", step.validator, RolesOf(step.validator))
    BY <1>3, <1>4, <2>1, <2>2, ScriptStarts DEF step
  <2>3. CASE op' = Idle("Err")
    BY <2>1, <2>3, ScriptFails
  <2>4. QED BY <1>4, <2>2, <2>3 DEF StartValidator
<1>5. CASE step.type = "stop" /\ StopValidator(step.validator)
  BY <1>3, <1>5, ScriptStops DEF step
<1>6. CASE step.type = "directory" /\ SetDirectory(NewDirectory)
  BY <1>6, ScriptPasses DEF SetDirectory, step
<1>7. CASE step.type = "ensure" /\ EnsureIsRunning
  <2>1. UNCHANGED <<running, dropped, faults>>
    BY <1>7 DEF EnsureIsRunning
  <2>2. CASE op' = Idle("Ok") /\ UNCHANGED process
    BY <1>7, <2>1, <2>2, ScriptPasses DEF step
  <2>3. ASSUME NEW x, process' = [process EXCEPT ![x].status = "waited"], op' = Idle("Err")
        PROVE  CommitteeInv'
    <3>1. \A p \in Processes : process'[p].status \in {process[p].status, "waited"}
      BY <2>3, Records DEF CommitteeInv, Table
    <3>2. QED BY <2>1, <2>3, <3>1, ScriptFails
  <2>4. QED BY <1>7, <2>2, <2>3 DEF EnsureIsRunning
<1>8. CASE step.type = "terminate" /\ Terminate
  <2>1. UNCHANGED <<running, process, dropped, faults>>
        /\ (op' = Idle("Ok") \/ op'.type = "Terminate")
    BY <1>8 DEF Terminate, Killing
  <2>2. QED BY <1>8, <2>1, ScriptPasses DEF step
<1>9. CASE PerformClient(step)
  <2>1. UNCHANGED <<running, process, dropped, faults>> /\ step.type \notin {"start", "stop"}
        /\ (op' \in {Idle("Ok"), Idle("Err")} \/ (op' = Posts("before") /\ step.type = "post"))
    BY <1>9 DEF PerformClient, UseNetwork, Subscribe, EnsureServices, SocialMakePosts, netVars
  <2>2. QED BY <2>1, ScriptPasses, ScriptFails DEF step
<1>10. QED BY <1>2, <1>4, <1>5, <1>6, <1>7, <1>8, <1>9 DEF PerformNet

-----------------------------------------------------------------------------

(* Handles are dropped, and the operation or the test ends.                 *)
LEMMA DropsKept ==
  ASSUME CommitteeInv, NetInv', next_step' \in 1..28, faults' = faults,
         op'.type = "Idle", ~Going',
         NEW gone, DropHandles(gone, process),
         op.type = "Restart" /\ op.child # NoChild => op.child \in gone
  PROVE  CommitteeInv'
<1>1. /\ dropped \subseteq dropped'
      /\ \A p \in Processes :
           /\ process'[p] \in {process[p], Unused}
           /\ p \in gone => p \in dropped' \/ process'[p] = Unused
  BY DroppedRecords
<1>2. Unused.status = "unused"
  BY DEF Unused
<1>3. \A p \in Processes : op.type = "Restart" /\ op.child = p => p \in gone
  BY LocalNetAssumption
<1>4. \A p \in Processes :
        /\ process'[p].status \in {"refused", "exited"} => process'[p].status = process[p].status
        /\ process'[p].status = "starting" /\ p \notin dropped' =>
             /\ process[p].status = "starting" /\ p \notin dropped
             /\ ~(op.type = "Restart" /\ op.child = p)
  BY <1>1, <1>2, <1>3
<1>5. QED BY <1>4, GivingUp

(* The network is dropped.                                                  *)
LEMMA DropNetKept ==
  ASSUME CommitteeInv, NetInv', DropNet
  PROVE  CommitteeInv'
<1>1. /\ op.type = "Idle" /\ op' = op /\ faults' = faults /\ next_step' = 28
      /\ DropHandles(ToSet(Children), process)
  BY ScriptSteps DEF DropNet
<1>2. ~Going'
  BY <1>1 DEF Going
<1>3. next_step' \in 1..28 /\ op'.type = "Idle" /\ op.type # "Restart"
  BY <1>1
<1>4. QED BY <1>1, <1>2, <1>3, DropsKept

(* While a validator is started.                                            *)
LEMMA WhileStarting ==
  ASSUME CommitteeInv, op.type \in StartTypes
  PROVE  /\ op.type = "Restart" /\ next_step \in 1..27
         /\ GoingWell /\ dropped = {}
         /\ op \in StartOperations
         /\ op.roles \in Seq(Roles) /\ op.roles # <<>> /\ op.validator \in Validators
         /\ op.built \in Seq(Processes) /\ op.child \in Processes \cup {NoChild}
         /\ running[op.validator] = <<>>
<1>1. op.type = "Restart"
  BY DEF CommitteeInv, StartTypes
<1>2. next_step \in 1..27
  BY <1>1 DEF CommitteeInv
<1>3. GoingWell
  BY <1>1, <1>2 DEF CommitteeInv, Going
<1>4. op \in StartOperations
  BY Started DEF CommitteeInv
<1>5. op.validator \in Validators
  BY <1>4 DEF StartOperations
<1>6. running[op.validator] = <<>>
  BY <1>1, <1>3, <1>5 DEF GoingWell, RunningMatches, Awaited, NotRunning
<1>7. QED BY <1>1, <1>2, <1>3, <1>4, <1>5, <1>6 DEF GoingWell, StartOperations

(* An operation that gives up drops the child that it awaits.               *)
LEMMA StartFailsKept ==
  ASSUME CommitteeInv, NetInv', CannotSpawn \/ HasNotStarted, next_step' = next_step
  PROVE  CommitteeInv'
<1>1. /\ op.type \in StartTypes /\ op' = Idle("Err") /\ faults' = faults
  BY DEF CannotSpawn, HasNotStarted, StartTypes
<1>2. PICK gone : DropHandles(gone, process) /\ (op.child # NoChild => op.child \in gone)
  BY DEF CannotSpawn, HasNotStarted
<1>3. op'.type = "Idle" /\ ~Going' /\ next_step' \in 1..28
  BY <1>1 DEF Idle, Going, CommitteeInv
<1>4. QED BY <1>1, <1>2, <1>3, DropsKept

(* No other process that serves listens on a port of the awaited child.     *)
LEMMA OthersElsewhere ==
  ASSUME CommitteeInv, op.type = "Restart", op.child # NoChild,
         NEW q \in Processes, Serving(q), q # op.child
  PROVE  /\ process[op.child].role \in Roles /\ process[q].role \in Roles
         /\ Ports(process[q].role) \cap Ports(process[op.child].role) = {}
<1>1. /\ GoingWell /\ dropped = {} /\ op.roles \in Seq(Roles) /\ op.roles # <<>>
      /\ op.validator \in Validators /\ op.child \in Processes /\ running[op.validator] = <<>>
  BY WhileStarting DEF StartTypes
<1>2. /\ process[op.child].role = Head(op.roles) /\ Head(op.roles) \in Roles
      /\ Head(op.roles) \in ToSet(op.roles) /\ Head(op.roles).validator = op.validator
  <2>1. Head(op.roles) \in Roles /\ Head(op.roles) \in ToSet(op.roles)
    BY <1>1, ElementsOfSeq
  <2>2. QED BY <1>1, <2>1 DEF GoingWell, StartingWell
<1>3. process[q] \in Record /\ process[q] # Unused /\ process[q].role \in Roles
  <2>1. process[q] \in Record
    BY Records DEF Serving, CommitteeInv
  <2>2. QED BY <2>1 DEF Record, Unused
<1>4. q \in HandlesOf(running) \cup ToSet(op.built)
  <2>1. Held = (ToSet(op.built) \cup {op.child}) \ {NoChild}
    BY Started DEF CommitteeInv, StartTypes
  <2>2. q \in UsedIn(process)
    BY <1>3 DEF UsedIn
  <2>3. q \in HandlesOf(running) \cup Held
    BY <1>1, <2>2 DEF CommitteeInv, NetInv, Tracks
  <2>4. QED BY <2>1, <2>3
<1>5. process[q].role # process[op.child].role
  <2>1. CASE q \in ToSet(op.built)
    BY <1>1, <1>2, <2>1 DEF GoingWell, StartingWell
  <2>2. CASE q \in HandlesOf(running)
    <3>1. PICK w \in Validators : q \in ToSet(running[w])
      BY <2>2 DEF HandlesOf
    <3>2. ToSet(<<>>) = {}
      BY ElementsOfSeq, EmptySeq
    <3>3. w # op.validator
      BY <1>1, <3>1, <3>2
    <3>4. process[q].role.validator = w
      BY <1>1, <3>1 DEF GoingWell, RolesMatch
    <3>5. QED BY <1>2, <3>3, <3>4
  <2>3. QED BY <1>4, <2>1, <2>2
<1>6. Ports(process[q].role) \cap Ports(process[op.child].role) = {}
  BY <1>2, <1>3, <1>5, RolesApart, MigrationAssumption
<1>7. QED BY <1>2, <1>3, <1>6

(* The port on which a role is checked is one of its ports.                 *)
LEMMA HealthPortIsPort == ASSUME NEW role PROVE HealthPort(role) \in Ports(role)
BY DEF HealthPort, Ports

(* If the awaited child seems to answer, it is the one that does.           *)
LEMMA AnswersItself ==
  ASSUME CommitteeInv, op.type = "Restart", op.child # NoChild, Answering(Head(op.roles))
  PROVE  process[op.child].status = "serving"
<1>1. process[op.child].role = Head(op.roles)
  BY WhileStarting DEF GoingWell, StartingWell, StartTypes
<1>2. PICK q \in Processes : Serving(q) /\ HealthPort(Head(op.roles)) \in Ports(process[q].role)
  BY DEF Answering
<1>3. HealthPort(Head(op.roles)) \in Ports(Head(op.roles))
  BY HealthPortIsPort
<1>4. q = op.child
  BY <1>1, <1>2, <1>3, OthersElsewhere
<1>5. QED BY <1>2, <1>4 DEF Serving

(* A child is spawned.                                                      *)
LEMMA SpawnKept ==
  ASSUME CommitteeInv, NetInv', NEW c \in Processes, Spawn(c), next_step' = next_step
  PROVE  CommitteeInv'
<1>1. /\ op.type \in StartTypes /\ op.child = NoChild /\ process[c] = Unused
      /\ op' = [op EXCEPT !.child = c]
      /\ process' = [process EXCEPT ![c] =
           [role |-> Head(op.roles), directory |-> directory, status |-> "starting"]]
      /\ dropped' = dropped /\ faults' = faults /\ running' = running
  BY DEF Spawn, StartTypes
<1>2. /\ op.type = "Restart" /\ next_step \in 1..27 /\ GoingWell /\ dropped = {}
      /\ op \in StartOperations
  BY <1>1, WhileStarting
<1>3. /\ op'.type = "Restart" /\ op'.validator = op.validator /\ op'.roles = op.roles
      /\ op'.built = op.built /\ op'.child = c
  BY <1>1, <1>2 DEF StartOperations
<1>4. /\ process'[c].status = "starting" /\ process'[c].role = Head(op.roles)
      /\ \A p \in Processes : p # c => process'[p] = process[p]
  BY <1>1, Records DEF CommitteeInv, Table
<1>5. c \notin HandlesOf(running) /\ c \notin ToSet(op.built)
  <2>1. Held = (ToSet(op.built) \cup {op.child}) \ {NoChild}
    BY <1>1, Started DEF CommitteeInv
  <2>2. c \notin UsedIn(process)
    BY <1>1 DEF UsedIn
  <2>3. QED BY <2>1, <2>2, LocalNetAssumption DEF CommitteeInv, NetInv, Tracks
<1>6. \A v \in Validators : \A p \in ToSet(running[v]) : p \in Processes /\ p # c
  BY <1>5, ElementsOfSeq DEF HandlesOf, CommitteeInv, NetInv, NetTypes
<1>7. \A p \in ToSet(op.built) : p \in Processes /\ p # c
  BY <1>1, <1>5, Started DEF CommitteeInv
<1>8. NoPortConflict' /\ FailuresCounted'
  <2>1. \A p \in Processes : process'[p].status \in {"refused", "exited"} =>
          process'[p].status = process[p].status
    BY <1>4
  <2>2. QED BY <1>1, <2>1, NothingFails
<1>9. StartingKnown'
  BY <1>1, <1>2, <1>3, <1>4, LocalNetAssumption DEF CommitteeInv, StartingKnown
<1>10. RunningMatches'
  BY <1>1, <1>2, <1>3 DEF GoingWell, RunningMatches, Awaited
<1>11. RolesMatch' /\ ChildrenUpright'
  BY <1>1, <1>2, <1>4, <1>6 DEF GoingWell, RolesMatch, ChildrenUpright, Upright
<1>12. StartingWell'
  BY <1>2, <1>3, <1>4, <1>7 DEF GoingWell, StartingWell, Upright
<1>13. KillingWell' /\ PostingWell'
  BY <1>3 DEF KillingWell, PostingWell
<1>14. GoingWell'
  BY <1>1, <1>2, <1>10, <1>11, <1>12, <1>13 DEF GoingWell
<1>15. QED BY <1>2, <1>3, <1>8, <1>9, <1>14 DEF CommitteeInv

-----------------------------------------------------------------------------

(* Dropping no handle changes nothing.                                      *)
LEMMA DropsNothing ==
  ASSUME NEW table, DropHandles({}, table)
  PROVE  dropped' = dropped /\ \A p \in Processes : process'[p] = table[p]
BY DEF DropHandles

(* A child has started: it serves, since no other process answers for it.   *)
LEMMA HasStartedKept ==
  ASSUME CommitteeInv, NetInv', HasStarted, next_step' = next_step
  PROVE  CommitteeInv'
<1> DEFINE built == Append(op.built, op.child)
           v == op.validator
<1>1. /\ op.type \in StartTypes /\ op.child # NoChild /\ faults' = faults
      /\ Answering(Head(op.roles))
      /\ \/ Len(op.roles) = 1 /\ Finish(built)
         \/ /\ Len(op.roles) # 1
            /\ op' = [op EXCEPT !.roles = Tail(op.roles), !.built = built, !.child = NoChild]
            /\ UNCHANGED <<running, process, dropped>>
  BY DEF HasStarted, StartTypes
<1>2. /\ op.type = "Restart" /\ next_step \in 1..27 /\ GoingWell /\ dropped = {}
      /\ op \in StartOperations /\ op.roles \in Seq(Roles) /\ op.roles # <<>>
      /\ v \in Validators /\ op.built \in Seq(Processes) /\ op.child \in Processes
      /\ running[v] = <<>>
  BY <1>1, WhileStarting
<1>3. process[op.child].status = "serving"
  BY <1>1, <1>2, AnswersItself
<1>4. \A p \in Processes : process[p].status # "starting"
  BY <1>2, <1>3 DEF CommitteeInv, StartingKnown
<1>5. built \in Seq(Processes) /\ built # <<>> /\ ToSet(built) = ToSet(op.built) \cup {op.child}
  <2>1. built \in Seq(Processes) /\ ToSet(built) = ToSet(op.built) \cup {op.child}
    BY <1>2, AppendElements
  <2>2. ToSet(<<>>) = {}
    BY ElementsOfSeq, EmptySeq
  <2>3. built # <<>>
    BY <2>1, <2>2
  <2>4. QED BY <2>1, <2>3
<1> HIDE DEF built
<1>6. /\ process[op.child].role = Head(op.roles)
      /\ ToSet(op.roles) = {Head(op.roles)} \cup ToSet(Tail(op.roles))
      /\ IsInjective(Tail(op.roles)) /\ Head(op.roles) \notin ToSet(Tail(op.roles))
  <2>1. IsInjective(op.roles) /\ process[op.child].role = Head(op.roles)
    BY <1>1, <1>2 DEF GoingWell, StartingWell
  <2>2. QED BY <1>2, <2>1, HeadAndTail
<1>7. \A p \in ToSet(built) :
        Upright(p) /\ process[p].role.validator = v /\ process[p].role \notin ToSet(Tail(op.roles))
  BY <1>2, <1>3, <1>5, <1>6 DEF GoingWell, StartingWell, Upright
<1>8. CASE Len(op.roles) = 1 /\ Finish(built)
  <2>1. /\ running' = [running EXCEPT ![v] = built]
        /\ DropHandles(ToSet(running[v]), process) /\ op' = Idle("Ok")
    BY <1>2, <1>8 DEF Finish
  <2>2. dropped' = dropped /\ \A p \in Processes : process'[p] = process[p]
    <3>1. ToSet(running[v]) = {}
      BY <1>2, ElementsOfSeq, EmptySeq
    <3>2. DropHandles({}, process)
      BY <2>1, <3>1
    <3>3. QED BY <3>2, DropsNothing
  <2>3. running \in [Validators -> Seq(Processes)]
    BY DEF CommitteeInv, NetInv, NetTypes
  <2>4. \A w \in Validators : running'[w] = IF w = v THEN built ELSE running[w]
    BY <1>2, <2>1, <2>3
  <2>5. \A w \in Validators : \A p \in ToSet(running'[w]) : p \in Processes
    BY <1>5, <2>3, <2>4, ElementsOfSeq
  <2>6. op'.type = "Idle"
    BY <2>1 DEF Idle
  <2>7. NoPortConflict' /\ FailuresCounted'
    BY <1>1, <2>2, NothingFails
  <2>8. StartingKnown'
    BY <1>4, <2>2 DEF StartingKnown
  <2>9. RunningMatches'
    BY <1>2, <1>5, <2>4, <2>6 DEF GoingWell, StartingWell, RunningMatches, Awaited, NotRunning
  <2>10. RolesMatch' /\ ChildrenUpright'
    BY <1>2, <1>7, <2>2, <2>4, <2>5 DEF GoingWell, RolesMatch, ChildrenUpright, Upright
  <2>11. StartingWell' /\ KillingWell' /\ PostingWell'
    BY <2>6 DEF StartingWell, KillingWell, PostingWell
  <2>12. GoingWell'
    BY <1>2, <2>2, <2>9, <2>10, <2>11 DEF GoingWell
  <2>13. QED BY <1>2, <2>6, <2>7, <2>8, <2>12 DEF CommitteeInv
<1>9. CASE /\ Len(op.roles) # 1
           /\ op' = [op EXCEPT !.roles = Tail(op.roles), !.built = built, !.child = NoChild]
           /\ UNCHANGED <<running, process, dropped>>
  <2>1. /\ op'.type = "Restart" /\ op'.validator = v /\ op'.roles = Tail(op.roles)
        /\ op'.built = built /\ op'.child = NoChild
    BY <1>2, <1>9 DEF StartOperations
  <2>2. NoPortConflict' /\ FailuresCounted' /\ StartingKnown'
    BY <1>1, <1>4, <1>9 DEF CommitteeInv, NoPortConflict, FailuresCounted, StartingKnown, Failed
  <2>3. RunningMatches'
    BY <1>2, <1>9, <2>1 DEF GoingWell, RunningMatches, Awaited
  <2>4. RolesMatch' /\ ChildrenUpright'
    BY <1>2, <1>9 DEF GoingWell, RolesMatch, ChildrenUpright, Upright
  <2>5. StartingWell'
    BY <1>2, <1>6, <1>7, <1>9, <2>1 DEF GoingWell, StartingWell, Upright
  <2>6. KillingWell' /\ PostingWell'
    BY <2>1 DEF KillingWell, PostingWell
  <2>7. GoingWell'
    BY <1>2, <1>9, <2>3, <2>4, <2>5, <2>6 DEF GoingWell
  <2>8. QED BY <1>2, <2>1, <2>2, <2>7 DEF CommitteeInv
<1>10. QED BY <1>1, <1>8, <1>9

(* A child is killed.  Those of a validator that runs are left alone until  *)
(* the network is terminated.                                               *)
LEMMA KillKept ==
  ASSUME CommitteeInv, NetInv', Kill, next_step' = next_step
  PROVE  CommitteeInv'
<1> DEFINE c == Head(op.queue)
           killed == [process EXCEPT ![c].status = "waited"]
<1>1. /\ op.type \in KillTypes /\ UNCHANGED <<running, faults>>
      /\ \/ DropHandles(op.owned, process) /\ op' = Idle("Err")
         \/ Len(op.queue) = 1 /\ DropHandles(op.owned, killed) /\ op' = Idle("Ok")
         \/ /\ Len(op.queue) # 1 /\ process' = killed /\ dropped' = dropped
            /\ op' = [op EXCEPT !.queue = Tail(op.queue)]
  BY DEF Kill, KillTypes
<1>2. op.type \in {"Stop", "Terminate"}
  BY <1>1 DEF CommitteeInv, KillTypes
<1>3. next_step \in 1..27 /\ GoingWell /\ dropped = {}
  BY <1>2 DEF CommitteeInv, Going, GoingWell
<1>4. op \in KillOperations
  BY <1>1, OperationKinds DEF CommitteeInv, NetInv, NetTypes
<1>5. /\ op.queue \in Seq(Processes) /\ op.queue # <<>> /\ op.owned \subseteq Processes
      /\ Held = op.owned
  BY <1>1, <1>4 DEF KillOperations, Held, StartTypes, KillTypes
<1>6. c \in Processes /\ ToSet(op.queue) = {c} \cup ToSet(Tail(op.queue))
      /\ (Len(op.queue) = 1 => ToSet(op.queue) = {c})
  BY <1>5, HeadAndTail
<1>7. /\ killed[c].status = "waited" /\ killed[c].role = process[c].role
      /\ \A p \in Processes : p # c => killed[p] = process[p]
      /\ killed[c] \in Record
  <2>1. c \in ToSet(op.queue)
    BY <1>6
  <2>2. c \in HandlesOf(running) \cup Held
    BY <1>2, <1>5, <2>1 DEF CommitteeInv, NetInv, Prepared
  <2>3. process[c] # Unused /\ process \in Table
    BY <1>6, <2>2 DEF CommitteeInv, NetInv, Tracks, UsedIn, NetTypes
  <2>4. process[c] \in Record
    BY <1>6, <2>3 DEF Table
  <2>5. QED BY <1>6, <2>3, <2>4 DEF Table, Record
<1> HIDE DEF killed
<1>8. \A v \in Validators : \A p \in ToSet(running[v]) :
        p \in Processes /\ p \notin op.owned /\ (op.type = "Stop" => p # c)
  <2>1. SUFFICES ASSUME NEW v \in Validators, NEW p \in ToSet(running[v])
                 PROVE  p \in Processes /\ p \notin op.owned /\ (op.type = "Stop" => p # c)
    OBVIOUS
  <2>2. p \in HandlesOf(running)
    BY DEF HandlesOf
  <2>3. p \in Processes
    BY ElementsOfSeq DEF CommitteeInv, NetInv, NetTypes
  <2>4. p \notin op.owned
    BY <1>5, <2>2 DEF CommitteeInv, NetInv
  <2>5. op.type = "Stop" => c \in op.owned
    BY <1>6 DEF CommitteeInv, NetInv, Prepared
  <2>6. QED BY <2>3, <2>4, <2>5
<1>9. op.type = "Terminate" => op.owned = {} /\ next_step = 27
  BY <1>3 DEF CommitteeInv, NetInv, Prepared, GoingWell, KillingWell
<1>10. CASE DropHandles(op.owned, process) /\ op' = Idle("Err")
  <2>1. op'.type = "Idle" /\ ~Going' /\ next_step' \in 1..28 /\ op.type # "Restart"
    BY <1>2, <1>3, <1>10 DEF Idle, Going
  <2>2. QED BY <1>1, <1>10, <2>1, DropsKept
<1>11. ASSUME dropped' = {}, op'.type \in {"Idle", op.type}, KillingWell',
              \A p \in Processes : process'[p] \in {killed[p], Unused},
              \A p \in Processes : p \notin op.owned => process'[p] = killed[p]
       PROVE  CommitteeInv'
  <2>1. Unused.status = "unused"
    BY DEF Unused
  <2>2. \A p \in Processes : process'[p].status \in {process[p].status, "waited", "unused"}
    BY <1>6, <1>7, <1>11, <2>1
  <2>3. NoPortConflict' /\ FailuresCounted'
    <3>1. \A p \in Processes : process'[p].status \in {"refused", "exited"} =>
            process'[p].status = process[p].status
      BY <2>2
    <3>2. QED BY <1>1, <3>1, NothingFails
  <2>4. StartingKnown'
    BY <1>2, <1>3, <1>11, <2>2 DEF CommitteeInv, StartingKnown
  <2>5. op'.type \in {"Idle", "Stop", "Terminate"}
    BY <1>2, <1>11
  <2>6. RunningMatches'
    BY <1>1, <1>2, <1>3, <2>5 DEF GoingWell, RunningMatches, Awaited
  <2>7. \A v \in Validators : \A p \in ToSet(running[v]) :
          /\ process'[p].role = process[p].role
          /\ op.type = "Stop" => process'[p] = process[p]
    BY <1>7, <1>8, <1>11
  <2>8. RolesMatch'
    BY <1>1, <1>3, <2>7 DEF GoingWell, RolesMatch
  <2>9. ChildrenUpright'
    BY <1>1, <1>2, <1>3, <1>9, <2>7 DEF GoingWell, ChildrenUpright, Upright
  <2>10. StartingWell' /\ PostingWell'
    BY <2>5 DEF StartingWell, PostingWell
  <2>11. GoingWell'
    BY <1>11, <2>6, <2>8, <2>9, <2>10 DEF GoingWell
  <2>12. QED BY <1>3, <2>3, <2>4, <2>5, <2>11 DEF CommitteeInv
<1>12. CASE Len(op.queue) = 1 /\ DropHandles(op.owned, killed) /\ op' = Idle("Ok")
  <2>1. \A p \in op.owned : killed[p].status = "waited"
    BY <1>2, <1>3, <1>5, <1>6, <1>7, <1>9, <1>12 DEF GoingWell, KillingWell
  <2>2. \A p \in op.owned : ~Alive(killed[p])
    BY <2>1 DEF Alive
  <2>3. DropHandles(op.owned, killed)
    BY <1>12
  <2>4. /\ dropped' = dropped
        /\ \A p \in Processes : process'[p] \in {killed[p], Unused}
        /\ \A p \in Processes : p \notin op.owned => process'[p] = killed[p]
    BY <2>2, <2>3, DroppedRecords
  <2>5. op'.type = "Idle"
    BY <1>12 DEF Idle
  <2>6. KillingWell'
    BY <2>5 DEF KillingWell
  <2>7. QED BY <1>3, <1>11, <2>4, <2>5, <2>6
<1>13. CASE /\ Len(op.queue) # 1 /\ process' = killed /\ dropped' = dropped
            /\ op' = [op EXCEPT !.queue = Tail(op.queue)]
  <2>1. op'.type = op.type /\ op'.queue = Tail(op.queue) /\ op'.owned = op.owned
    BY <1>4, <1>13 DEF KillOperations
  <2>2. KillingWell'
    BY <1>3, <1>5, <1>6, <1>7, <1>13, <2>1 DEF GoingWell, KillingWell
  <2>3. QED BY <1>3, <1>11, <1>13, <2>1, <2>2
<1>14. QED BY <1>1, <1>10, <1>12, <1>13

-----------------------------------------------------------------------------

(* Making posts leaves the network alone.                                   *)
LEMMA PostsKept ==
  ASSUME CommitteeInv, NetInv', WaitProcessInbox \/ Post, next_step' = next_step
  PROVE  CommitteeInv'
<1>1. op.type = "Posts" /\ UNCHANGED <<running, process, dropped, faults>>
  BY DEF WaitProcessInbox, Post, netVars
<1>2. op \in [type : {"Posts"}, phase : {"before", "post", "after"}, polls : 0..4]
  BY <1>1, PostingKinds DEF CommitteeInv, NetInv, NetTypes
<1>3. next_step \in 1..27 /\ GoingWell /\ dropped = {}
  BY <1>1 DEF CommitteeInv, Going, GoingWell
<1>4. op' \in {Idle("Ok"), Idle("Err"), Idle("panic"), Posts("post"), Posts("after"),
               [op EXCEPT !.polls = op.polls + 1]}
  BY DEF WaitProcessInbox, Post, CheckPosts
<1>5. op'.type \in {"Idle", "Posts"}
  BY <1>2, <1>4 DEF Idle, Posts
<1>6. NoPortConflict' /\ FailuresCounted' /\ StartingKnown'
  BY <1>1 DEF CommitteeInv, NoPortConflict, FailuresCounted, StartingKnown, Failed
<1>7. RunningMatches'
  BY <1>1, <1>3, <1>5 DEF GoingWell, RunningMatches, Awaited
<1>8. RolesMatch' /\ ChildrenUpright'
  BY <1>1, <1>3 DEF GoingWell, RolesMatch, ChildrenUpright, Upright
<1>9. StartingWell' /\ KillingWell' /\ PostingWell'
  BY <1>1, <1>3, <1>5 DEF GoingWell, StartingWell, KillingWell, PostingWell
<1>10. GoingWell'
  BY <1>1, <1>3, <1>7, <1>8, <1>9 DEF GoingWell
<1>11. QED BY <1>3, <1>5, <1>6, <1>10 DEF CommitteeInv

(* A process binds its ports or fails.                                      *)
LEMMA StatusKept ==
  ASSUME CommitteeInv, NetInv', UNCHANGED <<running, dropped, op, next_step>>,
         NEW c \in Processes, process[c].status # "waited",
         process'[c].role = process[c].role, process'[c].status \in {"serving", "exited"},
         \A p \in Processes : p # c => process'[p] = process[p],
         NoPortConflict', FailuresCounted'
  PROVE  CommitteeInv'
<1>1. StartingKnown'
  BY DEF CommitteeInv, StartingKnown
<1>2. ASSUME Going PROVE GoingWell'
  <2>1. GoingWell
    BY <1>2 DEF CommitteeInv
  <2>2. \A v \in Validators : \A p \in ToSet(running[v]) : p \in Processes
    BY ElementsOfSeq DEF CommitteeInv, NetInv, NetTypes
  <2>3. RolesMatch' /\ ChildrenUpright'
    BY <2>1, <2>2 DEF GoingWell, RolesMatch, ChildrenUpright, Upright
  <2>4. RunningMatches' /\ PostingWell'
    BY <2>1 DEF GoingWell, RunningMatches, Awaited, PostingWell
  <2>5. StartingWell'
    <3>1. CASE op.type = "Restart"
      <4>1. op.child \in Processes \cup {NoChild} /\ ToSet(op.built) \subseteq Processes
        BY <3>1, WhileStarting, Started DEF StartTypes, CommitteeInv
      <4>2. QED BY <2>1, <3>1, <4>1 DEF GoingWell, StartingWell, Upright
    <3>2. QED BY <3>1 DEF StartingWell
  <2>6. KillingWell'
    <3>1. CASE op.type = "Stop"
      <4>1. op.owned \subseteq Processes
        BY <3>1, OperationKinds DEF CommitteeInv, NetInv, NetTypes, KillTypes, KillOperations
      <4>2. QED BY <2>1, <3>1, <4>1 DEF GoingWell, KillingWell
    <3>2. QED BY <2>1, <3>1 DEF GoingWell, KillingWell
  <2>7. QED BY <2>1, <2>3, <2>4, <2>5, <2>6 DEF GoingWell
<1>3. Going' => Going
  BY DEF Going
<1>4. QED BY <1>1, <1>2, <1>3 DEF CommitteeInv

(* The awaited child binds its ports, and finds none of them taken.         *)
LEMMA BindKept ==
  ASSUME CommitteeInv, NetInv', NEW c \in Processes, Bind(c), next_step' = next_step
  PROVE  CommitteeInv'
<1>1. process[c].status = "starting" /\ op.type = "Restart" /\ op.child = c /\ op.child # NoChild
  BY LocalNetAssumption DEF Bind, CommitteeInv, StartingKnown
<1>2. ~PortsTaken(process[c].role)
  <2>1. \A q \in Processes : Serving(q) => q # c
    BY <1>1 DEF Serving
  <2>2. \A q \in Processes : Serving(q) => Ports(process[q].role) \cap Ports(process[c].role) = {}
    BY <1>1, <2>1, OthersElsewhere
  <2>3. QED BY <2>2 DEF PortsTaken
<1>3. /\ process' = [process EXCEPT ![c].status = "serving"]
      /\ UNCHANGED <<running, dropped, op, faults>>
  BY <1>2 DEF Bind
<1>4. /\ process'[c].status = "serving" /\ process'[c].role = process[c].role
      /\ \A p \in Processes : p # c => process'[p] = process[p]
  BY <1>1, <1>3, Records DEF CommitteeInv, Table
<1>5. NoPortConflict' /\ FailuresCounted'
  <2>1. \A p \in Processes : process'[p].status \in {"refused", "exited"} =>
          process'[p].status = process[p].status
    BY <1>4
  <2>2. QED BY <1>3, <2>1, NothingFails
<1>6. QED BY <1>1, <1>3, <1>4, <1>5, StatusKept

(* A process fails, and is counted.                                         *)
LEMMA FailKept ==
  ASSUME CommitteeInv, NetInv', NEW c \in Processes, Fail(c), next_step' = next_step
  PROVE  CommitteeInv'
<1>1. /\ process[c].status \in {"starting", "serving"} /\ faults' = faults + 1
      /\ process' = [process EXCEPT ![c].status = "exited"]
      /\ UNCHANGED <<running, dropped, op>>
  BY DEF Fail, Alive
<1>2. /\ process'[c].status = "exited" /\ process'[c].role = process[c].role
      /\ \A p \in Processes : p # c => process'[p] = process[p]
  BY <1>1, Records DEF CommitteeInv, Table
<1>3. NoPortConflict'
  BY <1>2 DEF CommitteeInv, NoPortConflict
<1>4. FailuresCounted'
  <2>1. Failed' = Failed \cup {c} /\ c \notin Failed
    BY <1>1, <1>2 DEF Failed
  <2>2. IsFiniteSet(Failed)
    BY LocalNetAssumption, FS_Subset DEF Failed
  <2>3. Cardinality(Failed \cup {c}) = Cardinality(Failed) + 1 /\ Cardinality(Failed) \in Nat
    BY <2>1, <2>2, FS_AddElement, FS_CardinalityType
  <2>4. Cardinality(Failed)' = Cardinality(Failed) + 1
    BY <2>1, <2>3
  <2>5. faults \in Nat /\ Cardinality(Failed) <= faults
    BY LocalNetAssumption DEF CommitteeInv, NetInv, NetTypes, FailuresCounted
  <2>6. QED BY <1>1, <2>3, <2>4, <2>5 DEF FailuresCounted
<1>5. process[c].status # "waited"
  BY <1>1
<1>6. QED BY <1>1, <1>2, <1>3, <1>4, <1>5, StatusKept

(* A dropped process is gone.  Processes are only dropped after an error or *)
(* at the end.                                                              *)
LEMMA ReapKept ==
  ASSUME CommitteeInv, NetInv', NEW c \in Processes, Reap(c), next_step' = next_step
  PROVE  CommitteeInv'
<1>1. /\ c \in dropped /\ dropped' = dropped \ {c} /\ op' = op /\ faults' = faults
      /\ process' = [process EXCEPT ![c] = Unused]
  BY DEF Reap
<1>2. ~Going /\ op.type = "Idle"
  BY <1>1 DEF CommitteeInv, Going, GoingWell
<1>3. op'.type = "Idle" /\ ~Going' /\ next_step' \in 1..28
  BY <1>1, <1>2 DEF Going, CommitteeInv
<1>4. process'[c].status = "unused" /\ \A p \in Processes : p # c => process'[p] = process[p]
  BY <1>1, Records DEF CommitteeInv, Table, Unused
<1>5. \A p \in Processes :
        /\ process'[p].status \in {"refused", "exited"} => process'[p].status = process[p].status
        /\ process'[p].status = "starting" /\ p \notin dropped' =>
             /\ process[p].status = "starting" /\ p \notin dropped
             /\ ~(op.type = "Restart" /\ op.child = p)
  BY <1>1, <1>2, <1>4
<1>6. QED BY <1>1, <1>3, <1>5, GivingUp

-----------------------------------------------------------------------------

(* At first nothing runs.                                                   *)
LEMMA CommitteeInit == MigrationInit => CommitteeInv
<1> SUFFICES ASSUME MigrationInit PROVE CommitteeInv
  OBVIOUS
<1>1. NetInv /\ op = Idle("Ok") /\ op.type = "Idle" /\ next_step = 1 /\ dropped = {}
      /\ running = [v \in Validators |-> <<>>] /\ faults = 0
      /\ process = [p \in Processes |-> Unused]
  BY NetInit DEF MigrationInit, Init, Idle, NotRunning
<1>2. \A p \in Processes : process[p].status = "unused"
  BY <1>1 DEF Unused
<1>3. NoPortConflict /\ StartingKnown
  BY <1>2 DEF NoPortConflict, StartingKnown
<1>4. FailuresCounted
  <2>1. Failed = {}
    BY <1>2 DEF Failed
  <2>2. QED BY <1>1, <2>1, FS_EmptySet DEF FailuresCounted
<1>5. UpBefore[1] = {}
  BY DEF UpBefore
<1>6. ToSet(<<>>) = {}
  BY ElementsOfSeq, EmptySeq
<1>7. RunningMatches /\ RolesMatch /\ ChildrenUpright
  BY <1>1, <1>5, <1>6 DEF RunningMatches, RolesMatch, ChildrenUpright, NotRunning, Awaited
<1>8. GoingWell
  BY <1>1, <1>7 DEF GoingWell, StartingWell, KillingWell, PostingWell
<1>9. QED BY <1>1, <1>3, <1>4, <1>8 DEF CommitteeInv

(* Every step keeps the invariant of the committee.                         *)
LEMMA CommitteeStep == CommitteeInv /\ [MigrationNext]_allVars => CommitteeInv'
<1> SUFFICES ASSUME CommitteeInv, [MigrationNext]_allVars PROVE CommitteeInv'
  OBVIOUS
<1>1. NetInv'
  BY MigrationNet DEF CommitteeInv
<1>2. CASE NextStep
  BY <1>1, <1>2, ScriptKept
<1>3. CASE DropNet
  BY <1>1, <1>3, DropNetKept
<1>4. CASE DriverProgress
  BY <1>1, <1>4, SpawnKept, StartFailsKept, HasStartedKept, KillKept, PostsKept
     DEF DriverProgress
<1>5. CASE System /\ UNCHANGED <<next_step, postVars>>
  BY <1>1, <1>5, BindKept, FailKept, ReapKept DEF System
<1>6. CASE UNCHANGED <<vars, next_step>>
  BY <1>1, <1>6 DEF vars, CommitteeInv, NoPortConflict, StartingKnown, FailuresCounted, Failed,
                    Going, GoingWell, RunningMatches, Awaited, RolesMatch, ChildrenUpright,
                    Upright, StartingWell, KillingWell, PostingWell
<1>7. QED BY <1>2, <1>3, <1>4, <1>5, <1>6
          DEF MigrationNext, Driver, HearOfPosts, ProcessAutomatically, allVars

(* No process of the test finds its port taken: while a child is awaited,   *)
(* every other process that serves has another role, since the validator it *)
(* belongs to does not run.                                                 *)
THEOREM PortsNeverTaken == MigrationSpec => []NoPortConflict
<1>1. CommitteeInv => NoPortConflict
  BY DEF CommitteeInv
<1>2. QED BY <1>1, CommitteeInit, CommitteeStep, PTL DEF MigrationSpec

(* Validators that are not served have failed processes of their own.       *)
LEMMA UnservedFailed ==
  ASSUME CommitteeInv, Posting
  PROVE  CommitteeServes
<1> DEFINE Unserved == {v \in Validators : ~Served(v)}
           Child(v) == CHOOSE p \in ToSet(running[v]) : process[p].status = "exited"
<1>1. /\ GoingWell /\ next_step \in {8, 14, 19, 24} /\ op.type = "Posts"
  BY DEF Posting, CommitteeInv, Going, GoingWell, PostingWell
<1>2. \A v \in Validators : running[v] # NotRunning
  BY <1>1, UpAtPosts, MigrationAssumption DEF GoingWell, RunningMatches, Awaited, Validators
<1>3. \A v \in Unserved : \E p \in ToSet(running[v]) : process[p].status = "exited"
  <2>1. SUFFICES ASSUME NEW v \in Validators, ~Served(v)
                 PROVE  \E p \in ToSet(running[v]) : process[p].status = "exited"
    OBVIOUS
  <2>2. PICK i \in DOMAIN running[v] : ~Serving(running[v][i])
    BY <1>2, <2>1 DEF Served
  <2>3. running[v][i] \in ToSet(running[v])
    BY DEF ToSet
  <2>4. Upright(running[v][i])
    BY <1>1, <2>3 DEF GoingWell, ChildrenUpright
  <2>5. QED BY <2>2, <2>3, <2>4 DEF Upright, Serving
<1>4. \A v \in Unserved : Child(v) \in ToSet(running[v]) /\ process[Child(v)].status = "exited"
  BY <1>3
<1> HIDE DEF Child
<1>5. \A v \in Unserved : v \in Validators /\ Child(v) \in Failed
  BY <1>4, ElementsOfSeq DEF Failed, CommitteeInv, NetInv, NetTypes
<1>6. \A v, w \in Unserved : Child(v) = Child(w) => v = w
  BY <1>4, <1>5 DEF CommitteeInv, NetInv, Apart
<1>7. Cardinality(Unserved) <= Cardinality(Failed) /\ Cardinality(Unserved) \in Nat
      /\ Cardinality(Failed) \in Nat
  <2>1. IsFiniteSet(Failed)
    BY LocalNetAssumption, FS_Subset DEF Failed
  <2>2. [v \in Unserved |-> Child(v)] \in Injection(Unserved, Failed)
    BY <1>5, <1>6 DEF Injection, IsInjective
  <2>3. Cardinality(Unserved) <= Cardinality(Failed) /\ IsFiniteSet(Unserved)
    BY <2>1, <2>2, FS_Injection DEF ExistsInjection
  <2>4. QED BY <2>1, <2>3, FS_CardinalityType
<1>8. Cardinality(Failed) <= faults /\ faults \in Nat
  BY LocalNetAssumption DEF CommitteeInv, FailuresCounted, NetInv, NetTypes
<1>9. Cardinality(Unserved) <= faults
  <2> HIDE DEF Unserved
  <2>1. QED BY <1>7, <1>8
<1>10. QED BY <1>9 DEF CommitteeServes

(* Whenever posts are made, at most one validator per process that failed   *)
(* by itself is not served.                                                 *)
THEOREM CommitteeAlwaysServes == MigrationSpec => []CommitteeServes
<1>1. CommitteeInv => CommitteeServes
  BY UnservedFailed DEF CommitteeServes
<1>2. QED BY <1>1, CommitteeInit, CommitteeStep, PTL DEF MigrationSpec

-----------------------------------------------------------------------------
(* The storages.                                                            *)

(* Whoever is alive was so before, in the same role and of the same schema. *)
NobodyNew ==
  \A p \in Processes : Alive(process'[p]) =>
    /\ Alive(process[p])
    /\ process'[p].role = process[p].role /\ process'[p].directory = process[p].directory

(* Binaries of one schema at a time, that of the start under way.           *)
SchemasApart ==
  /\ CommitteeInv
  /\ \A v \in Validators : \A p, q \in OnStorage(v) : process[p].directory = process[q].directory
  /\ op.type = "Restart" =>
       \A p \in OnStorage(op.validator) : process[p].directory = directory

(* A new status makes nobody new, unless it brings the dead to life.        *)
LEMMA StatusNobodyNew ==
  ASSUME NetInv, NEW x \in Processes, NEW status,
         Alive([status |-> status]) => Alive(process[x]),
         NEW table, table = [process EXCEPT ![x].status = status],
         NEW p \in Processes, Alive(table[p])
  PROVE  /\ Alive(process[p])
         /\ table[p].role = process[p].role /\ table[p].directory = process[p].directory
<1>1. process \in Table /\ process[x] \in Record \cup {Unused}
  BY Records
<1>2. CASE p # x
  <2>1. table[p] = process[p]
    BY <1>1, <1>2 DEF Table
  <2>2. QED BY <2>1
<1>3. CASE p = x
  <2>1. table[x] = [process[x] EXCEPT !.status = status]
    BY <1>1 DEF Table
  <2>2. table[x].status = status
    BY <2>1, Records
  <2>3. Alive(process[x])
    BY <1>3, <2>2 DEF Alive
  <2>4. process[x] \in Record
    BY <1>1, <2>3 DEF Alive, Unused
  <2>5. QED BY <1>3, <2>1, <2>3, <2>4 DEF Record
<1>4. QED BY <1>2, <1>3

(* Steps that start nobody keep the schemas apart.                          *)
LEMMA SpareSchemas ==
  ASSUME SchemasApart, CommitteeInv', NobodyNew,
         op'.type = "Restart" =>
           op.type = "Restart" /\ op'.validator = op.validator /\ directory' = directory
  PROVE  SchemasApart'
<1>1. \A v \in Validators : \A p \in OnStorage(v)' :
        p \in OnStorage(v) /\ process'[p].directory = process[p].directory
  BY DEF NobodyNew, OnStorage
<1>2. \A v \in Validators : \A p, q \in OnStorage(v)' :
        process'[p].directory = process'[q].directory
  BY <1>1 DEF SchemasApart
<1>3. ASSUME op'.type = "Restart"
      PROVE  \A p \in OnStorage(op.validator)' : process'[p].directory = directory'
  <2>1. op.type = "Restart" /\ op'.validator = op.validator /\ directory' = directory
    BY <1>3
  <2>2. op.validator \in Validators
    BY <2>1, WhileStarting DEF SchemasApart, StartTypes
  <2>3. QED BY <1>1, <2>1, <2>2 DEF SchemasApart
<1>4. QED BY <1>2, <1>3 DEF SchemasApart, OnStorage

(* While a validator is started, the start holds whoever is on its storage. *)
LEMMA StartAlone ==
  ASSUME CommitteeInv, op.type = "Restart", NEW p \in OnStorage(op.validator)
  PROVE  p \in Held
<1>1. GoingWell /\ dropped = {} /\ op.validator \in Validators /\ running[op.validator] = <<>>
  BY WhileStarting DEF StartTypes
<1>2. p \in Processes /\ Alive(process[p]) /\ process[p].role.validator = op.validator
  BY DEF OnStorage
<1>3. p \in UsedIn(process)
  BY <1>2 DEF UsedIn, Alive, Unused
<1>4. p \in HandlesOf(running) \cup Held
  BY <1>1, <1>3 DEF CommitteeInv, NetInv, Tracks
<1>5. ASSUME NEW w \in Validators, p \in ToSet(running[w]) PROVE FALSE
  <2>1. w = op.validator
    BY <1>1, <1>2, <1>5 DEF GoingWell, RolesMatch
  <2>2. ToSet(<<>>) = {}
    BY ElementsOfSeq, EmptySeq
  <2>3. QED BY <1>1, <1>5, <2>1, <2>2
<1>6. QED BY <1>4, <1>5 DEF HandlesOf

(* Nobody is on the storage of a validator that does not run.               *)
LEMMA StoppedAlone ==
  ASSUME CommitteeInv, op.type = "Idle", GoingWell, NEW v \in Validators, running[v] = <<>>
  PROVE  OnStorage(v) = {}
<1>1. SUFFICES ASSUME NEW p \in Processes, Alive(process[p]), process[p].role.validator = v
               PROVE  FALSE
  BY DEF OnStorage
<1>2. p \in UsedIn(process)
  BY <1>1 DEF UsedIn, Alive, Unused
<1>3. p \in HandlesOf(running)
  BY <1>2, IdleHolds DEF CommitteeInv, GoingWell, Tracks
<1>4. PICK w \in Validators : p \in ToSet(running[w])
  BY <1>3 DEF HandlesOf
<1>5. w = v
  BY <1>1, <1>4 DEF GoingWell, RolesMatch
<1>6. ToSet(<<>>) = {}
  BY ElementsOfSeq, EmptySeq
<1>7. QED BY <1>4, <1>5, <1>6

(* A step of the script.                                                    *)
LEMMA ScriptKeepsApart ==
  ASSUME SchemasApart, CommitteeInv', NextStep
  PROVE  SchemasApart'
<1>1. /\ next_step \in 1..26 /\ op.type = "Idle" /\ GoingWell /\ CommitteeInv
  BY BeforeScript DEF SchemasApart
<1>2. CASE op'.type # "Restart" /\ UNCHANGED process
  BY <1>2, SpareSchemas DEF NobodyNew
<1>3. CASE Script[next_step].type = "start" /\ StartValidator(Script[next_step].validator)
  <2> DEFINE v == Script[next_step].validator
  <2>1. UNCHANGED <<process, directory>>
    BY <1>3 DEF StartValidator
  <2>2. CASE op'.type = "Restart"
    <3>1. v \in Validators
      BY <1>1, <1>3, ScriptSteps, MigrationAssumption DEF Validators
    <3>2. op'.validator = v
      BY <1>3, <2>2 DEF StartValidator, Starting, Idle
    <3>3. v \notin UpBefore[next_step]
      BY <1>1, <1>3, UpSteps
    <3>4. running[v] = <<>>
      BY <1>1, <3>1, <3>3 DEF GoingWell, RunningMatches, NotRunning
    <3>5. OnStorage(v) = {}
      BY <1>1, <3>1, <3>4, StoppedAlone
    <3>6. \A w : OnStorage(w)' = OnStorage(w)
      BY <2>1 DEF OnStorage
    <3>7. OnStorage(op.validator)' = {}
      BY <3>2, <3>5, <3>6
    <3>8. \A w \in Validators : \A p, q \in OnStorage(w)' :
            process'[p].directory = process'[q].directory
      BY <2>1, <3>6 DEF SchemasApart
    <3>9. QED BY <3>7, <3>8 DEF SchemasApart, OnStorage
  <2>3. QED BY <1>2, <2>1, <2>2
<1>4. CASE EnsureIsRunning
  <2>1. op'.type # "Restart"
    BY <1>4 DEF EnsureIsRunning, Idle
  <2>2. CASE UNCHANGED process
    BY <1>2, <2>1, <2>2
  <2>3. CASE \E x : process' = [process EXCEPT ![x].status = "waited"]
    <3>1. PICK x : process' = [process EXCEPT ![x].status = "waited"]
      BY <2>3
    <3>2. CASE x \in Processes
      <4>1. ~Alive([status |-> "waited"])
        BY DEF Alive
      <4>2. NobodyNew
        BY <1>1, <3>1, <3>2, <4>1, StatusNobodyNew DEF NobodyNew, CommitteeInv
      <4>3. QED BY <2>1, <4>2, SpareSchemas
    <3>3. CASE x \notin Processes
      <4>1. process' = process
        BY <1>1, <3>1, <3>3 DEF CommitteeInv, NetInv, NetTypes, Table
      <4>2. QED BY <1>2, <2>1, <4>1
    <3>4. QED BY <3>2, <3>3
  <2>4. QED BY <1>4, <2>2, <2>3 DEF EnsureIsRunning
<1>5. CASE \/ \E v : StopValidator(v)
           \/ SetDirectory(NewDirectory) \/ Terminate
  <2>1. op'.type # "Restart" /\ UNCHANGED process
    BY <1>5 DEF StopValidator, SetDirectory, Terminate, Idle, Killing
  <2>2. QED BY <1>2, <2>1
<1>6. CASE PerformClient(Script[next_step])
  <2>1. op'.type # "Restart" /\ UNCHANGED process
    BY <1>6 DEF PerformClient, UseNetwork, Subscribe, EnsureServices, SocialMakePosts, netVars,
                Idle, Posts
  <2>2. QED BY <1>2, <2>1
<1>7. QED BY <1>3, <1>4, <1>5, <1>6 DEF NextStep, PerformNet

(* A start, whose children are of the schema that is started now.           *)
LEMMA SpawnKeepsApart ==
  ASSUME SchemasApart, CommitteeInv', NEW c \in Processes, Spawn(c)
  PROVE  SchemasApart'
<1>1. /\ op.type = "Restart" /\ op'.type = "Restart" /\ op'.validator = op.validator
      /\ op.validator \in Validators /\ Head(op.roles).validator = op.validator
  <2>1. op.type = "Restart" /\ GoingWell /\ op \in StartOperations
        /\ op.validator \in Validators /\ op.roles \in Seq(Roles) /\ op.roles # <<>>
    BY WhileStarting DEF SchemasApart, Spawn, StartTypes
  <2>2. Head(op.roles) \in ToSet(op.roles)
    BY <2>1, ElementsOfSeq
  <2>3. Head(op.roles).validator = op.validator
    BY <2>1, <2>2 DEF GoingWell, StartingWell
  <2>4. op' = [op EXCEPT !.child = c]
    BY DEF Spawn
  <2>5. QED BY <2>1, <2>3, <2>4 DEF StartOperations
<1>2. /\ process'[c].role = Head(op.roles) /\ process'[c].directory = directory
      /\ \A p \in Processes : p # c => process'[p] = process[p]
      /\ directory' = directory
  BY Records DEF Spawn, SchemasApart, CommitteeInv, Table
<1>3. ASSUME NEW v \in Validators, NEW p \in OnStorage(v)', p # c
      PROVE  p \in OnStorage(v) /\ process'[p].directory = process[p].directory
  BY <1>2, <1>3 DEF OnStorage
<1>4. ASSUME NEW v \in Validators, c \in OnStorage(v)'
      PROVE  v = op.validator
  BY <1>1, <1>2, <1>4 DEF OnStorage
<1>5. \A p \in OnStorage(op.validator)' : process'[p].directory = directory
  BY <1>1, <1>2, <1>3 DEF SchemasApart
<1>6. ASSUME NEW v \in Validators, NEW p \in OnStorage(v)', NEW q \in OnStorage(v)'
      PROVE  process'[p].directory = process'[q].directory
  <2>1. CASE v = op.validator
    BY <1>1, <1>5, <1>6, <2>1 DEF OnStorage
  <2>2. CASE v # op.validator
    BY <1>3, <1>4, <1>6, <2>2 DEF SchemasApart
  <2>3. QED BY <2>1, <2>2
<1>7. QED BY <1>1, <1>2, <1>5, <1>6 DEF SchemasApart, OnStorage

(* Dropping handles starts nobody, nor does a kill.                         *)
LEMMA DropNobodyNew ==
  ASSUME NetInv, NEW gone, DropHandles(gone, process)
  PROVE  NobodyNew
BY DroppedRecords DEF NobodyNew, Alive, Unused

LEMMA KillKeepsApart ==
  ASSUME SchemasApart, CommitteeInv', Kill
  PROVE  SchemasApart'
<1> DEFINE c == Head(op.queue)
           killed == [process EXCEPT ![c].status = "waited"]
<1>1. NetInv /\ op.type \in KillTypes
  BY DEF SchemasApart, CommitteeInv, Kill, KillTypes
<1>2. op \in KillOperations
  BY <1>1, OperationKinds DEF NetInv, NetTypes
<1>3. c \in Processes
  BY <1>2, HeadAndTail DEF KillOperations
<1>4. ~Alive([status |-> "waited"])
  BY DEF Alive
<1>5. \A p \in Processes : Alive(killed[p]) =>
        /\ Alive(process[p])
        /\ killed[p].role = process[p].role /\ killed[p].directory = process[p].directory
  <2> SUFFICES ASSUME NEW p \in Processes, Alive(killed[p])
               PROVE  /\ Alive(process[p])
                      /\ killed[p].role = process[p].role
                      /\ killed[p].directory = process[p].directory
    OBVIOUS
  <2>1. PICK table : table = killed
    OBVIOUS
  <2>2. /\ Alive(process[p])
        /\ table[p].role = process[p].role /\ table[p].directory = process[p].directory
    BY <1>1, <1>3, <1>4, <2>1, StatusNobodyNew
  <2>3. QED BY <2>1, <2>2
<1>6. /\ op'.type # "Restart"
      /\ \/ DropHandles(op.owned, process)
         \/ DropHandles(op.owned, killed)
         \/ process' = killed
  <2>1. op.type # "Restart"
    BY <1>1 DEF KillTypes
  <2>2. [op EXCEPT !.queue = Tail(op.queue)].type = op.type
    BY <1>2 DEF KillOperations
  <2>3. CASE op' = [op EXCEPT !.queue = Tail(op.queue)] /\ process' = killed
    BY <2>1, <2>2, <2>3
  <2>4. CASE op' \in {Idle("Ok"), Idle("Err")}
    <3>1. op'.type # "Restart"
      BY <2>4 DEF Idle
    <3>2. QED BY <2>4, <3>1 DEF Kill
  <2>5. QED BY <2>3, <2>4 DEF Kill
<1> HIDE DEF killed
<1>7. NobodyNew
  <2>1. CASE DropHandles(op.owned, process)
    BY <1>1, <2>1, DropNobodyNew
  <2>2. CASE DropHandles(op.owned, killed)
    <3>1. \A p \in Processes : process'[p] \in {killed[p], Unused}
      BY <2>2, DroppedRecords
    <3>2. ~Alive(Unused)
      BY DEF Alive, Unused
    <3>3. \A p \in Processes : Alive(process'[p]) => process'[p] = killed[p]
      BY <3>1, <3>2
    <3>4. QED BY <1>5, <3>3 DEF NobodyNew
  <2>3. CASE process' = killed
    BY <1>5, <2>3 DEF NobodyNew
  <2>4. QED BY <1>6, <2>1, <2>2, <2>3
<1>8. QED BY <1>6, <1>7, SpareSchemas

(* A child that is started, or is not.                                      *)
LEMMA StartKeepsApart ==
  ASSUME SchemasApart, CommitteeInv', CannotSpawn \/ HasStarted \/ HasNotStarted
  PROVE  SchemasApart'
<1>1. /\ NetInv /\ op.type = "Restart" /\ op \in StartOperations
  BY WhileStarting DEF SchemasApart, CommitteeInv, CannotSpawn, HasStarted, HasNotStarted,
                       StartTypes
<1>2. /\ directory' = directory
      /\ op'.type = "Restart" => op'.validator = op.validator
      /\ UNCHANGED process \/ \E gone : DropHandles(gone, process)
  <2>1. CASE CannotSpawn \/ HasNotStarted
    BY <2>1 DEF CannotSpawn, HasNotStarted, Idle
  <2>2. CASE HasStarted
    <3>1. [op EXCEPT !.roles = Tail(op.roles), !.built = Append(op.built, op.child),
                     !.child = NoChild].validator = op.validator
      BY <1>1 DEF StartOperations
    <3>2. CASE Len(op.roles) = 1
      <4>1. Finish(Append(op.built, op.child)) /\ UNCHANGED directory
        BY <2>2, <3>2 DEF HasStarted
      <4>2. op' = Idle("Ok") /\ DropHandles(ToSet(running[op.validator]), process)
        BY <1>1, <4>1 DEF Finish
      <4>3. QED BY <4>1, <4>2 DEF Idle
    <3>3. CASE Len(op.roles) # 1
      BY <2>2, <3>1, <3>3 DEF HasStarted
    <3>4. QED BY <3>2, <3>3
  <2>3. QED BY <2>1, <2>2
<1>3. NobodyNew
  <2>1. CASE UNCHANGED process
    BY <2>1 DEF NobodyNew
  <2>2. CASE \E gone : DropHandles(gone, process)
    BY <1>1, <2>2, DropNobodyNew
  <2>3. QED BY <1>2, <2>1, <2>2
<1>4. QED BY <1>1, <1>2, <1>3, SpareSchemas

(* The system starts nobody either.                                         *)
LEMMA SystemKeepsApart ==
  ASSUME SchemasApart, CommitteeInv', System
  PROVE  SchemasApart'
<1>1. PICK x \in Processes : Bind(x) \/ Fail(x) \/ Reap(x)
  BY DEF System
<1>2. NetInv /\ UNCHANGED <<op, directory>>
  BY <1>1 DEF SchemasApart, CommitteeInv, Bind, Fail, Reap
<1>3. NobodyNew
  <2>1. CASE Bind(x) \/ Fail(x)
    <3>1. PICK status : process' = [process EXCEPT ![x].status = status]
      BY <2>1 DEF Bind, Fail
    <3>2. Alive(process[x])
      BY <2>1 DEF Bind, Fail, Alive
    <3>3. QED BY <1>2, <3>1, <3>2, StatusNobodyNew DEF NobodyNew
  <2>2. CASE Reap(x)
    <3>1. \A p \in Processes : process'[p] \in {process[p], Unused}
      BY <2>2, <1>2, Records DEF Reap, Table
    <3>2. QED BY <3>1 DEF NobodyNew, Alive, Unused
  <2>3. QED BY <1>1, <2>1, <2>2
<1>4. QED BY <1>2, <1>3, SpareSchemas

(* Every step keeps the schemas apart.                                      *)
LEMMA SchemasStep == SchemasApart /\ [MigrationNext]_allVars => SchemasApart'
<1> SUFFICES ASSUME SchemasApart, [MigrationNext]_allVars PROVE SchemasApart'
  OBVIOUS
<1>1. CommitteeInv' /\ NetInv
  BY CommitteeStep DEF SchemasApart, CommitteeInv
<1>2. CASE NextStep
  BY <1>1, <1>2, ScriptKeepsApart
<1>3. CASE DropNet
  <2>1. op'.type # "Restart"
    BY <1>3 DEF DropNet
  <2>2. NobodyNew
    BY <1>1, <1>3, DropNobodyNew DEF DropNet
  <2>3. QED BY <1>1, <2>1, <2>2, SpareSchemas
<1>4. CASE \E p \in Processes : Spawn(p)
  BY <1>1, <1>4, SpawnKeepsApart
<1>5. CASE CannotSpawn \/ HasStarted \/ HasNotStarted
  BY <1>1, <1>5, StartKeepsApart
<1>6. CASE Kill
  BY <1>1, <1>6, KillKeepsApart
<1>7. CASE WaitProcessInbox \/ Post
  <2>1. UNCHANGED process /\ op.type = "Posts" /\ op' \in PostsOperations
    <3>1. op.type = "Posts" /\ UNCHANGED netVars
      BY <1>7 DEF WaitProcessInbox, Post
    <3>2. op \in [type : {"Posts"}, phase : {"before", "post", "after"}, polls : 0..4]
      BY <1>1, <3>1, PostingKinds DEF NetInv, NetTypes
    <3>3. op.polls # 4 => [op EXCEPT !.polls = op.polls + 1] \in PostsOperations
      BY <3>2 DEF PostsOperations
    <3>4. op' \in PostsOperations
      BY <1>7, <3>3 DEF WaitProcessInbox, Post, CheckPosts, PostsOperations, Posts
    <3>5. QED BY <3>1, <3>4 DEF netVars
  <2>2. op'.type # "Restart"
    BY <2>1, PostingKinds DEF StartTypes
  <2>3. QED BY <1>1, <2>1, <2>2, SpareSchemas DEF NobodyNew
<1>8. CASE System
  BY <1>1, <1>8, SystemKeepsApart
<1>9. CASE UNCHANGED vars
  BY <1>1, <1>9, SpareSchemas DEF vars, NobodyNew
<1>10. QED BY <1>2, <1>3, <1>4, <1>5, <1>6, <1>7, <1>8, <1>9
           DEF MigrationNext, Driver, DriverProgress, HearOfPosts, ProcessAutomatically, allVars

(* A storage is only ever used by binaries of one schema, and by nobody but *)
(* the start under way from its initialisation on: the validator was        *)
(* stopped, which waits for every one of its processes to die.              *)
THEOREM StorageIsHandedOver == MigrationSpec => []StorageHandedOver
<1>1. MigrationInit => SchemasApart
  <2>1. ASSUME MigrationInit PROVE \A v \in Validators : OnStorage(v) = {}
    BY <2>1 DEF MigrationInit, Init, OnStorage, Alive, Unused
  <2>2. MigrationInit => op.type # "Restart"
    BY DEF MigrationInit, Init, Idle
  <2>3. QED BY <2>1, <2>2, CommitteeInit DEF SchemasApart
<1>2. SchemasApart => StorageHandedOver
  <2> SUFFICES ASSUME SchemasApart PROVE StorageHandedOver
    OBVIOUS
  <2>1. CommitteeInv
    BY DEF SchemasApart
  <2>2. ASSUME op.type = "Restart" PROVE OnStorage(op.validator) \subseteq HeldByOperation
    <3>1. Held = (ToSet(op.built) \cup {op.child}) \ {NoChild}
      BY <2>1, <2>2, Started DEF CommitteeInv, StartTypes
    <3>2. HeldByOperation = (ToSet(op.built) \cup {op.child}) \ {NoChild}
      BY <2>2 DEF HeldByOperation
    <3>3. QED BY <2>1, <2>2, <3>1, <3>2, StartAlone
  <2>3. QED BY <2>2 DEF SchemasApart, StorageHandedOver
<1>3. QED BY <1>1, <1>2, SchemasStep, PTL DEF MigrationSpec

=============================================================================
