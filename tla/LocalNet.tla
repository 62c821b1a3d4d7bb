------------------------------ MODULE LocalNet ------------------------------
(***************************************************************************)
(* SpecifiedLocalNet: validators as child processes of a test, each one    *)
(* made of proxies and of shard servers that listen on fixed ports.  One   *)
(* operation runs at a time, but it waits for the system, and processes    *)
(* start, fail and die between its steps.                                  *)
(*                                                                         *)
(* A validator of running_validators is the sequence of its children, the  *)
(* proxies first, as they are started and killed; an absent one is <<>>.   *)
(* External: a child whose handle is dropped is killed, but nobody waits   *)
(* for it to die; a process that finds a port taken exits; a child that    *)
(* was waited for can't be killed again.                                   *)
(***************************************************************************)
EXTENDS Integers, FiniteSets, SequencesExt

CONSTANTS
  NumValidators,   \* num_initial_validators
  NumProxies,      \* proxies of a validator
  NumShards,       \* servers of a validator
  Directories,     \* where the binaries are taken from
  OldDirectory,    \* the directory at first
  Processes,       \* bound: names of processes
  MaxFaults        \* bound: processes that fail by themselves

NoChild == "none"

ASSUME LocalNetAssumption ==
  /\ NumValidators \in Nat \ {0} /\ NumProxies \in Nat \ {0} /\ NumShards \in Nat
  /\ OldDirectory \in Directories
  /\ IsFiniteSet(Processes) /\ NoChild \notin Processes /\ MaxFaults \in Nat
  /\ NumValidators * NumShards <= 1000

VARIABLES
  running,    \* running_validators[v]: its children, or NotRunning
  storages,   \* initialized_validator_storages
  directory,  \* the directory of the binaries that are started now
  process,    \* the system's table of processes
  dropped,    \* children killed because their handle was dropped, not yet dead
  op,         \* the operation under way, or the result of the last one
  faults      \* processes that have failed by themselves

vars == <<running, storages, directory, process, dropped, op, faults>>

Validators == 0..(NumValidators - 1)

Roles == [validator : Validators, kind : {"proxy"}, id : 0..(NumProxies - 1)]
           \cup [validator : Validators, kind : {"server"}, id : 0..(NumShards - 1)]

NotRunning == <<>>

Unused == [status |-> "unused"]

Idle(result) == [type |-> "Idle", result |-> result]

-----------------------------------------------------------------------------
(* Ports.                                                                   *)

Size(kind) == IF kind = "proxy" THEN NumProxies ELSE NumShards

Offset(role) == role.validator * Size(role.kind) + role.id + 1

(* The port on which a role is checked, and all ports it listens on.        *)
HealthPort(role) == (IF role.kind = "proxy" THEN 13000 ELSE 9000) + Offset(role)

Ports(role) ==
  {base + Offset(role) :
     base \in IF role.kind = "proxy" THEN {13000, 10000, 12000} ELSE {9000, 11000}}

Serving(p) == process[p].status = "serving"

Answering(role) == \E p \in Processes : Serving(p) /\ HealthPort(role) \in Ports(process[p].role)

PortsTaken(role) == \E p \in Processes : Serving(p) /\ Ports(role) \cap Ports(process[p].role) # {}

-----------------------------------------------------------------------------
(* Children.                                                                *)

Alive(record) == record.status \in {"starting", "serving"}

(* Mutant of DropHandles: forgets the handles without killing anything.     *)
LeakHandles(handles, table) ==
  /\ process' = [p \in Processes |->
       IF p \in handles /\ ~Alive(table[p]) THEN Unused ELSE table[p]]
  /\ UNCHANGED dropped

(* Dropping handles kills the children, given the table of processes.       *)
DropHandles(handles, table) ==
  /\ process' = [p \in Processes |->
       IF p \in handles /\ ~Alive(table[p]) THEN Unused ELSE table[p]]
  /\ dropped' = dropped \cup {p \in handles : Alive(table[p])}

(* An operation that starts the children of `roles`, one after the other,   *)
(* and then adds them to the validator, or replaces it by them.             *)
Starting(type, v, roles) ==
  [type |-> type, validator |-> v, roles |-> roles, built |-> <<>>, child |-> NoChild]

(* An operation that kills the children `queue` and then drops `owned`.     *)
Killing(type, queue, owned) == [type |-> type, queue |-> queue, owned |-> owned]

(* Mutant of RolesOf: counts from 1.                                        *)
RolesFromOne(v) ==
  [k \in 1..(NumProxies + NumShards) |->
    IF k <= NumProxies
    THEN [validator |-> v, kind |-> "proxy", id |-> k]
    ELSE [validator |-> v, kind |-> "server", id |-> k - NumProxies]]

RolesOf(v) ==
  [k \in 1..(NumProxies + NumShards) |->
    IF k <= NumProxies
    THEN [validator |-> v, kind |-> "proxy", id |-> k - 1]
    ELSE [validator |-> v, kind |-> "server", id |-> k - NumProxies - 1]]

(* All children in the order of the map.                                    *)
Children == FlattenSeq([i \in 1..NumValidators |-> running[i - 1]])

-----------------------------------------------------------------------------
(* The operations of the network, up to the first point where they wait.    *)

(* initialize_storage may fail; what it does to a storage that exists       *)
(* already is up to the binary.                                             *)
StartValidator(v) ==
  /\ op.type = "Idle"
  /\ \/ /\ storages' = storages \cup {v}
        /\ op' = Starting("Restart", v, RolesOf(v))
     \/ /\ op' = Idle("Err")
        /\ UNCHANGED storages
  /\ UNCHANGED <<running, directory, process, dropped, faults>>

(* Panics unless the storage is initialised.                                *)
RestartValidator(v) ==
  /\ op.type = "Idle"
  /\ v \in storages
  /\ op' = Starting("Restart", v, RolesOf(v))
  /\ UNCHANGED <<running, storages, directory, process, dropped, faults>>

StartServer(v, shard) ==
  /\ op.type = "Idle"
  /\ v \in storages
  /\ op' = Starting("StartServer", v,
       <<[validator |-> v, kind |-> "server", id |-> shard]>>)
  /\ UNCHANGED <<running, storages, directory, process, dropped, faults>>

(* Mutant of StopValidator: waits for the proxies, drops the servers.       *)
StopProxies(v) ==
  /\ op.type = "Idle"
  /\ op' = IF running[v] = NotRunning THEN Idle("Ok")
           ELSE Killing("Stop", SubSeq(running[v], 1, NumProxies), ToSet(running[v]))
  /\ running' = [running EXCEPT ![v] = NotRunning]
  /\ UNCHANGED <<storages, directory, process, dropped, faults>>

StopValidator(v) ==
  /\ op.type = "Idle"
  /\ op' = IF running[v] = NotRunning THEN Idle("Ok")
           ELSE Killing("Stop", running[v], ToSet(running[v]))
  /\ running' = [running EXCEPT ![v] = NotRunning]
  /\ UNCHANGED <<storages, directory, process, dropped, faults>>

(* Takes the child at a position of the servers; out of range panics.       *)
TerminateServer(v, index) ==
  /\ op.type = "Idle"
  /\ \/ /\ running[v] = NotRunning
        /\ op' = Idle("Err")
        /\ UNCHANGED running
     \/ /\ NumProxies + index + 1 \in DOMAIN running[v]
        /\ LET server == running[v][NumProxies + index + 1] IN
             op' = Killing("TerminateServer", <<server>>, {server})
        /\ running' = [running EXCEPT ![v] = RemoveAt(@, NumProxies + index + 1)]
  /\ UNCHANGED <<storages, directory, process, dropped, faults>>

RemoveValidator(v) ==
  /\ op.type = "Idle"
  /\ DropHandles(ToSet(running[v]), process)
  /\ running' = [running EXCEPT ![v] = NotRunning]
  /\ op' = Idle(IF running[v] = NotRunning THEN "Err" ELSE "Ok")
  /\ UNCHANGED <<storages, directory, faults>>

(* The validators stay in the map.                                          *)
Terminate ==
  /\ op.type = "Idle"
  /\ op' = IF Children = <<>> THEN Idle("Ok") ELSE Killing("Terminate", Children, {})
  /\ UNCHANGED <<running, storages, directory, process, dropped, faults>>

(* Waits for the first child that has exited, and fails.                    *)
EnsureIsRunning ==
  /\ op.type = "Idle"
  /\ LET failed == {i \in DOMAIN Children : ~Alive(process[Children[i]])} IN
       IF failed = {}
       THEN op' = Idle("Ok") /\ UNCHANGED process
       ELSE /\ process' = [process EXCEPT ![Children[Min(failed)]].status = "waited"]
            /\ op' = Idle("Err")
  /\ UNCHANGED <<running, storages, directory, dropped, faults>>

SetDirectory(d) ==
  /\ op.type = "Idle"
  /\ directory' = d
  /\ op' = Idle("Ok")
  /\ UNCHANGED <<running, storages, process, dropped, faults>>

-----------------------------------------------------------------------------
(* run_proxy and run_server.                                                *)

Spawn(p) ==
  /\ op.type \in {"Restart", "StartServer"}
  /\ op.child = NoChild
  /\ process[p] = Unused
  /\ process' = [process EXCEPT ![p] =
       [role |-> Head(op.roles), directory |-> directory, status |-> "starting"]]
  /\ op' = [op EXCEPT !.child = p]
  /\ UNCHANGED <<running, storages, directory, dropped, faults>>

(* The log file can't be made, or the binary can't be started.              *)
CannotSpawn ==
  /\ op.type \in {"Restart", "StartServer"}
  /\ op.child = NoChild
  /\ DropHandles(ToSet(op.built), process)
  /\ op' = Idle("Err")
  /\ UNCHANGED <<running, storages, directory, faults>>

(* The children of an operation are all started.                            *)
Finish(built) ==
  LET v == op.validator IN
  \/ /\ op.type = "Restart"
     /\ running' = [running EXCEPT ![v] = built]
     /\ DropHandles(ToSet(running[v]), process)
     /\ op' = Idle("Ok")
  \/ /\ op.type = "StartServer"
     /\ running[v] # NotRunning
     /\ running' = [running EXCEPT ![v] = @ \o built]
     /\ op' = Idle("Ok")
     /\ UNCHANGED <<process, dropped>>
  \/ /\ op.type = "StartServer"
     /\ running[v] = NotRunning
     /\ DropHandles(ToSet(built), process)
     /\ op' = Idle("Err")
     /\ UNCHANGED running

(* Mutant of HasStarted: does not check the health.                         *)
HasStartedUnchecked ==
  /\ op.type \in {"Restart", "StartServer"}
  /\ op.child # NoChild
  /\ LET built == Append(op.built, op.child) IN
       IF Len(op.roles) = 1 THEN Finish(built)
       ELSE /\ op' = [op EXCEPT !.roles = Tail(@), !.built = built, !.child = NoChild]
            /\ UNCHANGED <<running, process, dropped>>
  /\ UNCHANGED <<storages, directory, faults>>

(* The health check passes: some process answers on the port of the child.  *)
HasStarted ==
  /\ op.type \in {"Restart", "StartServer"}
  /\ op.child # NoChild
  /\ Answering(Head(op.roles))
  /\ LET built == Append(op.built, op.child) IN
       IF Len(op.roles) = 1 THEN Finish(built)
       ELSE /\ op' = [op EXCEPT !.roles = Tail(@), !.built = built, !.child = NoChild]
            /\ UNCHANGED <<running, process, dropped>>
  /\ UNCHANGED <<storages, directory, faults>>

(* Ten checks have failed.                                                  *)
HasNotStarted ==
  /\ op.type \in {"Restart", "StartServer"}
  /\ op.child # NoChild
  /\ ~Answering(Head(op.roles))
  /\ DropHandles(ToSet(op.built) \cup {op.child}, process)
  /\ op' = Idle("Err")
  /\ UNCHANGED <<running, storages, directory, faults>>

(* Mutant of Kill: does not wait for the child to die.                      *)
KillWithoutWaiting ==
  /\ op.type \in {"Stop", "TerminateServer", "Terminate"}
  /\ DropHandles({Head(op.queue)}, process)
  /\ op' = IF Len(op.queue) = 1 THEN Idle("Ok") ELSE [op EXCEPT !.queue = Tail(@)]
  /\ UNCHANGED <<running, storages, directory, faults>>

(* kill: fails on a child that was waited for, and kills and waits for any  *)
(* other.                                                                   *)
Kill ==
  /\ op.type \in {"Stop", "TerminateServer", "Terminate"}
  /\ LET p == Head(op.queue)
         killed == [process EXCEPT ![p].status = "waited"]
     IN
     IF process[p].status = "waited"
     THEN DropHandles(op.owned, process) /\ op' = Idle("Err")
     ELSE IF Len(op.queue) = 1
     THEN DropHandles(op.owned, killed) /\ op' = Idle("Ok")
     ELSE /\ process' = killed
          /\ op' = [op EXCEPT !.queue = Tail(@)]
          /\ UNCHANGED dropped
  /\ UNCHANGED <<running, storages, directory, faults>>

-----------------------------------------------------------------------------
(* The system.                                                              *)

(* A new process binds its ports, or exits if one of them is taken.         *)
Bind(p) ==
  /\ process[p].status = "starting" /\ p \notin dropped
  /\ process' = [process EXCEPT ![p].status =
       IF PortsTaken(process[p].role) THEN "refused" ELSE "serving"]
  /\ UNCHANGED <<running, storages, directory, dropped, op, faults>>

Fail(p) ==
  /\ Alive(process[p]) /\ p \notin dropped
  /\ faults < MaxFaults
  /\ faults' = faults + 1
  /\ process' = [process EXCEPT ![p].status = "exited"]
  /\ UNCHANGED <<running, storages, directory, dropped, op>>

(* A process that was killed by dropping its handle is gone.                *)
Reap(p) ==
  /\ p \in dropped
  /\ dropped' = dropped \ {p}
  /\ process' = [process EXCEPT ![p] = Unused]
  /\ UNCHANGED <<running, storages, directory, op, faults>>

-----------------------------------------------------------------------------

Init ==
  /\ running = [v \in Validators |-> NotRunning]
  /\ storages = {}
  /\ directory = OldDirectory
  /\ process = [p \in Processes |-> Unused]
  /\ dropped = {}
  /\ op = Idle("Ok")
  /\ faults = 0

Operation ==
  \/ \E v \in Validators :
       \/ StartValidator(v) \/ RestartValidator(v) \/ StopValidator(v) \/ RemoveValidator(v)
       \/ \E shard \in 0..(NumShards - 1) : StartServer(v, shard) \/ TerminateServer(v, shard)
  \/ Terminate \/ EnsureIsRunning
  \/ \E d \in Directories : SetDirectory(d)

Progress ==
  \/ \E p \in Processes : Spawn(p)
  \/ CannotSpawn \/ HasStarted \/ HasNotStarted \/ Kill

System == \E p \in Processes : Bind(p) \/ Fail(p) \/ Reap(p)

Next == Operation \/ Progress \/ System

Spec == Init /\ [][Next]_vars

-----------------------------------------------------------------------------
(* Properties.                                                              *)

Record ==
  [role : Roles, directory : Directories,
   status : {"starting", "serving", "refused", "exited", "waited"}]

Operations ==
  [type : {"Idle"}, result : {"Ok", "Err"}]
    \cup [type : {"Restart", "StartServer"}, validator : Validators, roles : Seq(Roles) \ {<<>>},
          built : Seq(Processes), child : Processes \cup {NoChild}]
    \cup [type : {"Stop", "TerminateServer", "Terminate"}, queue : Seq(Processes) \ {<<>>},
          owned : SUBSET Processes]

TypeOK ==
  /\ running \in [Validators -> Seq(Processes)]
  /\ storages \subseteq Validators
  /\ directory \in Directories
  /\ process \in [Processes -> Record \cup {Unused}]
  /\ dropped \subseteq Processes
  /\ op \in Operations
  /\ faults \in 0..MaxFaults

(* Handles the operation under way holds outside of the map.                *)
HeldByOperation ==
  CASE op.type = "Idle" -> {}
    [] op.type \in {"Restart", "StartServer"} -> (ToSet(op.built) \cup {op.child}) \ {NoChild}
    [] op.type \in {"Stop", "TerminateServer", "Terminate"} -> op.owned

(* The handle of every process is held in exactly one place: by one         *)
(* validator of the map, once, or by the operation under way, or it was     *)
(* dropped and the process is dying.  So no operation, failing halfway,     *)
(* replacing a running validator or stopping it, leaves a process behind    *)
(* that nothing will ever kill.                                             *)
HandlesTracked ==
  /\ IsInjective(Children)
  /\ ToSet(Children) \cap HeldByOperation = {}
  /\ (ToSet(Children) \cup HeldByOperation) \cap dropped = {}
  /\ ToSet(Children) \cup HeldByOperation \cup dropped
       = {p \in Processes : process[p] # Unused}

=============================================================================
