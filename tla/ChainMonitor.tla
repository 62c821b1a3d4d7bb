----------------------------- MODULE ChainMonitor -----------------------------
(***************************************************************************)
(* Two tools that ask the validators of the testnet about chains, one      *)
(* validator after the other, while the chains grow: monitor_chains, which *)
(* calls a list of chains healthy or not, and the consistency check of     *)
(* main.rs, which says whether the validators agree on one chain.          *)
(*                                                                         *)
(* A block is the time it is made at.  A validator holds a prefix of the   *)
(* blocks of a chain, and one that is not sound has a state of its own.    *)
(* External: the validators and the network.                               *)
(***************************************************************************)
EXTENDS Integers, FiniteSets, SequencesExt

CONSTANTS
  Chains,
  NumValidators,   \* length of VALIDATORS
  Files,           \* chains files: sequences of chains and of the lines below
  BigDiff,         \* big_diff_threshold
  StaleAge,        \* stale_seconds
  MaxBlocks,       \* bound on the blocks of all chains
  MaxDiverged,     \* bound on the validators with a state of their own
  MaxClock         \* bound on the time

Comment == "# a comment or an empty line"
Malformed == "not a chain id"

ASSUME MonitorAssumption ==
  /\ NumValidators \in Nat \ {0}
  /\ BigDiff \in Nat /\ StaleAge \in Nat
  /\ Files \subseteq Seq(Chains \cup {Comment, Malformed})
  /\ Comment \notin Chains /\ Malformed \notin Chains

Validators == 1..NumValidators

VARIABLES
  blocks,        \* times of the blocks of each chain
  held,          \* how many of them each validator has
  sound,         \* whether the state of a validator is the one of its blocks
  clock,
  program,       \* "none", "monitor" or "consistency"
  chain_ids,     \* the chains to ask about
  now,           \* now_micros
  chain,         \* position in chain_ids
  validator,     \* position in VALIDATORS
  infos,         \* answers about this chain
  unanswered,    \* history: whether some validator has not answered
  lagging,       \* lagging_validators
  issues_found,
  verdict,
  first          \* history: what was held when the program started

networkVars == <<blocks, held, sound, clock>>
passVars == <<chain_ids, now, first>>
monitorVars == <<networkVars, program, passVars, chain, validator, infos, unanswered, lagging,
                 issues_found, verdict>>

-----------------------------------------------------------------------------
(* The network.                                                             *)

Made == {b \in Chains \X (1..MaxBlocks) : b[2] <= Len(blocks[b[1]])}

MakeBlock(c) ==
  /\ Cardinality(Made) < MaxBlocks
  /\ blocks' = [blocks EXCEPT ![c] = Append(@, clock)]
  /\ UNCHANGED <<held, sound, clock>>

Receive(c, v) ==
  /\ held[c][v] < Len(blocks[c])
  /\ held' = [held EXCEPT ![c][v] = @ + 1]
  /\ UNCHANGED <<blocks, sound, clock>>

(* Only what happened before a tool runs matters to it, of these two.       *)
Tick ==
  /\ program = "none" /\ clock < MaxClock
  /\ clock' = clock + 1
  /\ UNCHANGED <<blocks, held, sound>>

(* Before or after the validator is asked.  Only the consistency check can  *)
(* see it.                                                                  *)
Diverge(v) ==
  /\ program = "consistency" /\ sound[v]
  /\ Cardinality({w \in Validators : ~sound[w]}) < MaxDiverged
  /\ sound' = [sound EXCEPT ![v] = FALSE]
  /\ UNCHANGED <<blocks, held, clock>>

(* What happens after the answer of a tool only makes it truer, and chains  *)
(* that a tool does not ask about do not matter to it: both are left out.   *)
Matters(c) == program # "none" => \E i \in DOMAIN chain_ids : chain_ids[i] = c

Network ==
  /\ verdict = "none"
  /\ \/ \E c \in Chains : Matters(c) /\ MakeBlock(c)
     \/ \E c \in Chains, v \in Validators : Matters(c) /\ Receive(c, v)
     \/ Tick
     \/ \E v \in Validators : Diverge(v)
  /\ UNCHANGED <<program, passVars, chain, validator, infos, unanswered, lagging, issues_found,
                 verdict>>

-----------------------------------------------------------------------------
(* Both tools ask one validator after the other.                            *)

Ongoing(p) == program = p /\ verdict = "none"

Begin(p, ids) ==
  /\ program = "none"
  /\ program' = p
  /\ chain_ids' = ids
  /\ first' = held
  /\ UNCHANGED <<networkVars, chain, validator, infos, unanswered, lagging, issues_found>>

AddChain(ids, line) == IF line \in Chains THEN Append(ids, line) ELSE ids

(* The chains that a file names, in order; other lines are left out.        *)
ReadChains(file) == FoldLeft(AddChain, <<>>, file)

Monitor ==
  \E file \in Files :
    /\ Begin("monitor", ReadChains(file))
    /\ now' = clock
    /\ verdict' = IF \E i \in DOMAIN file : file[i] = Malformed THEN "error"
                  ELSE IF chain_ids' = <<>> THEN "no chains" ELSE "none"

CheckConsistency ==
  /\ \E c \in Chains : Begin("consistency", <<c>>)
  /\ UNCHANGED <<now, verdict>>

Asking ==
  /\ program # "none" /\ verdict = "none"
  /\ chain <= Len(chain_ids) /\ validator <= NumValidators

Stamp(c, height) == IF height = 0 THEN 0 ELSE blocks[c][height]

(* A state is what the blocks make of it, or one that nobody else has.      *)
StateOfBlocks == 0
StateHash(v) == IF sound[v] THEN StateOfBlocks ELSE v

Info(c, v) == [validator |-> v, height |-> held[c][v], timestamp |-> Stamp(c, held[c][v]),
               state_hash |-> StateHash(v)]

Answered ==
  /\ Asking
  /\ infos' = infos \cup {Info(chain_ids[chain], validator)}
  /\ validator' = validator + 1
  /\ UNCHANGED <<networkVars, program, passVars, chain, unanswered, lagging, issues_found, verdict>>

(* No connection, no answer in time, or an answer that is an error.         *)
NotAnswered ==
  /\ Asking
  /\ unanswered' = TRUE
  /\ validator' = validator + 1
  /\ UNCHANGED <<networkVars, program, passVars, chain, infos, lagging, issues_found, verdict>>

Assessing(p) == Ongoing(p) /\ chain <= Len(chain_ids) /\ validator = NumValidators + 1

(* errors lists the validators that infos does not.                         *)
HasErrors == \E v \in Validators : \A r \in infos : r.validator # v

-----------------------------------------------------------------------------
(* monitor_chains.                                                          *)

Behind(v) == \E r, s \in infos : r.validator = v /\ r.height < s.height

(* Mutant of BigDiscrepancy: the threshold itself is still small.           *)
BigDiscrepancyBeyond == \E r, s \in infos : s.height - r.height > BigDiff

BigDiscrepancy == \E r, s \in infos : s.height - r.height >= BigDiff

(* Mutant of Stale: a chain without blocks is stale.                        *)
StaleGenesis == \E r \in infos : now - r.timestamp > StaleAge

Stale == \E r \in infos : r.timestamp # 0 /\ now - r.timestamp > StaleAge

Assess ==
  /\ Assessing("monitor")
  /\ issues_found' = (issues_found \/ HasErrors \/ BigDiscrepancy \/ Stale)
  /\ lagging' = IF BigDiscrepancy THEN lagging
                ELSE [v \in Validators |-> IF Behind(v) THEN lagging[v] + 1 ELSE lagging[v]]
  /\ chain' = chain + 1
  /\ validator' = 1
  /\ infos' = {}
  /\ UNCHANGED <<networkVars, program, passVars, unanswered, verdict>>

Report ==
  /\ Ongoing("monitor") /\ chain = Len(chain_ids) + 1
  /\ issues_found' = (issues_found \/ \E v \in Validators : lagging[v] > Len(chain_ids) \div 2)
  /\ verdict' = IF issues_found' THEN "issues" ELSE "healthy"
  /\ UNCHANGED <<networkVars, program, passVars, chain, validator, infos, unanswered, lagging>>

-----------------------------------------------------------------------------
(* The consistency check.                                                   *)

(* Mutant of Agreement: errors are not counted.                             *)
AgreementOfAnswers ==
  \A r, s \in infos : r.height = s.height /\ r.state_hash = s.state_hash

(* Balances and block hashes are those of the blocks.                       *)
Agreement ==
  /\ \A r, s \in infos : r.height = s.height /\ r.state_hash = s.state_hash
  /\ ~HasErrors

Compare ==
  /\ Assessing("consistency")
  /\ verdict' = IF Cardinality(infos) <= 1 THEN "nothing to compare"
                ELSE IF Agreement THEN "agree" ELSE "inconsistent"
  /\ UNCHANGED <<networkVars, program, passVars, chain, validator, infos, unanswered, lagging,
                 issues_found>>

-----------------------------------------------------------------------------

MonitorInit ==
  /\ blocks = [c \in Chains |-> <<>>]
  /\ held = [c \in Chains |-> [v \in Validators |-> 0]]
  /\ sound = [v \in Validators |-> TRUE]
  /\ clock = 1 /\ now = 0
  /\ program = "none" /\ verdict = "none"
  /\ chain_ids = <<>> /\ chain = 1 /\ validator = 1
  /\ infos = {} /\ unanswered = FALSE
  /\ lagging = [v \in Validators |-> 0]
  /\ issues_found = FALSE
  /\ first = held

MonitorNext ==
  \/ Network
  \/ Monitor
  \/ CheckConsistency
  \/ Answered
  \/ NotAnswered
  \/ Assess
  \/ Report
  \/ Compare

MonitorSpec == MonitorInit /\ [][MonitorNext]_monitorVars

-----------------------------------------------------------------------------
(* Properties.  While a tool runs the chains grow, so that it compares      *)
(* heights of different moments.  What it says is true of the heights that  *)
(* validators had when it started and have when it ends.                    *)

Asked == 1..Len(chain_ids)

(* At position i, validator v has been behind another one all the time.     *)
AlwaysBehind(i, v) == \E w \in Validators : held[chain_ids[i]][v] < first[chain_ids[i]][w]

(* Healthy chains are no more than the threshold apart, their blocks were   *)
(* recent when the monitor started, no validator has lagged on most of      *)
(* them, and all validators have answered.                                  *)
HealthyMeansClose ==
  verdict = "healthy" =>
    /\ ~unanswered
    /\ \A i \in Asked : \A v, w \in Validators :
         first[chain_ids[i]][v] - held[chain_ids[i]][w] < BigDiff
    /\ \A i \in Asked : \A v \in Validators :
         first[chain_ids[i]][v] > 0 =>
           now - Stamp(chain_ids[i], held[chain_ids[i]][v]) <= StaleAge
    /\ \A v \in Validators :
         2 * Cardinality({i \in Asked : AlwaysBehind(i, v)}) <= Len(chain_ids)

(* Issues have a reason: a missing answer, a difference or an age that the  *)
(* growth of the chain in the meantime cannot exceed, or validators that    *)
(* did not have all blocks of most of the chains when the monitor started.  *)
IssuesAreReal ==
  verdict = "issues" =>
    \/ unanswered
    \/ \E i \in Asked : \E v \in Validators :
         \/ Len(blocks[chain_ids[i]]) - first[chain_ids[i]][v] >= BigDiff
         \/ \E h \in first[chain_ids[i]][v]..Len(blocks[chain_ids[i]]) :
              h > 0 /\ now - Stamp(chain_ids[i], h) > StaleAge
    \/ \E v \in Validators :
         2 * Cardinality({i \in Asked : first[chain_ids[i]][v] < Len(blocks[chain_ids[i]])})
           > Len(chain_ids)

(* Validators that are said to agree have all answered, each with the state *)
(* that its blocks made when it was asked, and have all had one same height.*)
AgreeMeansSame ==
  verdict = "agree" =>
    /\ ~unanswered
    /\ \A r \in infos : r.state_hash = StateOfBlocks
    /\ \E h \in 0..Len(blocks[chain_ids[1]]) : \A v \in Validators :
         first[chain_ids[1]][v] <= h /\ h <= held[chain_ids[1]][v]

=============================================================================
