------------------------------ MODULE ToolProofs ------------------------------
(***************************************************************************)
(* Theorems about the smaller programs, which do not interact: what the    *)
(* consistency check of the validators and the monitor of chains say, for  *)
(* any number of validators, any chains and files, and however the chains  *)
(* grow while validators are asked; that the native fungible application   *)
(* is deployed where tokens arrive, for any number of chains, owners,      *)
(* amounts and bundles; when the counters save; that a signature of Morpho *)
(* counts once; and when the ways of writing and reading of the storage    *)
(* benchmark agree, for any number of pairs.                               *)
(***************************************************************************)
EXTENDS MorphoAdmin, ChainMonitor, StorageBenchmark, Counters, NativeFungible,
        SumTheorems

-----------------------------------------------------------------------------
(* The consistency check of validators.                                     *)

(* The network: validators hold no more blocks than there are, and no less  *)
(* than when the program started.                                           *)
NetworkInv ==
  /\ blocks \in [Chains -> Seq(Nat)]
  /\ held \in [Chains -> [Validators -> Nat]]
  /\ first \in [Chains -> [Validators -> Nat]]
  /\ sound \in [Validators -> BOOLEAN]
  /\ clock \in Nat
  /\ \A c \in Chains, v \in Validators :
       first[c][v] <= held[c][v] /\ held[c][v] <= Len(blocks[c])

NotBegun ==
  program = "none" =>
    /\ verdict = "none" /\ chain = 1 /\ validator = 1
    /\ infos = {} /\ ~unanswered

(* An answer about chain c is still between what was and what is held, and  *)
(* has a state that no other validator has, unless it is that of the blocks.*)
TrueAnswer(r, c) ==
  /\ r.validator \in Validators /\ r.validator < validator
  /\ r.height \in Nat
  /\ first[c][r.validator] <= r.height /\ r.height <= held[c][r.validator]
  /\ r.state_hash \in {StateOfBlocks, r.validator}

Asks(c) ==
  /\ chain_ids = <<c>> /\ chain = 1
  /\ validator \in 1..(NumValidators + 1)
  /\ \A r \in infos : TrueAnswer(r, c)
  /\ \A r, s \in infos : r.validator = s.validator => r = s
  /\ unanswered => \E v \in Validators : v < validator /\ \A r \in infos : r.validator # v

AsksOne == program = "consistency" /\ verdict = "none" => \E c \in Chains : Asks(c)

MonitorInv == NetworkInv /\ NotBegun /\ AsksOne /\ AgreeMeansSame

-----------------------------------------------------------------------------

(* Nothing has been asked yet.                                              *)
LEMMA MonitorInitInv == MonitorInit => MonitorInv
<1> SUFFICES ASSUME MonitorInit PROVE MonitorInv
  OBVIOUS
<1>1. NetworkInv
  BY DEF MonitorInit, NetworkInv
<1>2. QED BY <1>1 DEF MonitorInit, MonitorInv, NotBegun, AsksOne, AgreeMeansSame

(* Blocks are only added, and validators only learn more.                   *)
LEMMA NetworkGrows ==
  ASSUME NetworkInv, Network
  PROVE  NetworkInv' /\ \A c \in Chains, v \in Validators : held[c][v] <= held'[c][v]
<1>1. ASSUME NEW c \in Chains, MakeBlock(c), UNCHANGED first
      PROVE  NetworkInv' /\ \A d \in Chains, v \in Validators : held[d][v] <= held'[d][v]
  <2>1. blocks' = [blocks EXCEPT ![c] = Append(blocks[c], clock)]
        /\ held' = held /\ sound' = sound /\ clock' = clock
    BY <1>1 DEF MakeBlock
  <2>2. blocks[c] \in Seq(Nat) /\ clock \in Nat
    BY DEF NetworkInv
  <2>3. Append(blocks[c], clock) \in Seq(Nat) /\ Len(Append(blocks[c], clock)) = Len(blocks[c]) + 1
    BY <2>2
  <2>4. \A d \in Chains : Len(blocks[d]) \in Nat /\ Len(blocks[d]) <= Len(blocks'[d])
    BY <2>1, <2>3 DEF NetworkInv
  <2>5. blocks' \in [Chains -> Seq(Nat)]
    BY <2>1, <2>3 DEF NetworkInv
  <2>6. \A d \in Chains, v \in Validators : held[d][v] \in Nat /\ held[d][v] <= Len(blocks'[d])
    BY <2>4, <2>5 DEF NetworkInv
  <2>7. QED BY <1>1, <2>1, <2>5, <2>6 DEF NetworkInv
<1>2. ASSUME NEW c \in Chains, NEW v \in Validators, Receive(c, v), UNCHANGED first
      PROVE  NetworkInv' /\ \A d \in Chains, w \in Validators : held[d][w] <= held'[d][w]
  <2>1. /\ held' = [held EXCEPT ![c][v] = held[c][v] + 1] /\ held[c][v] < Len(blocks[c])
        /\ blocks' = blocks /\ sound' = sound /\ clock' = clock
    BY <1>2 DEF Receive
  <2>2. held' \in [Chains -> [Validators -> Nat]]
    BY <2>1 DEF NetworkInv
  <2>3. \A d \in Chains, w \in Validators :
          /\ held[d][w] \in Nat /\ Len(blocks[d]) \in Nat
          /\ held'[d][w] = IF d = c /\ w = v THEN held[d][w] + 1 ELSE held[d][w]
    BY <2>1 DEF NetworkInv
  <2>4. \A d \in Chains, w \in Validators :
          held[d][w] <= held'[d][w] /\ held'[d][w] <= Len(blocks[d]) /\ first[d][w] <= held'[d][w]
    BY <2>1, <2>3 DEF NetworkInv
  <2>5. QED BY <1>2, <2>1, <2>2, <2>4 DEF NetworkInv
<1>3. ASSUME Tick \/ \E v \in Validators : Diverge(v), UNCHANGED first
      PROVE  NetworkInv' /\ \A d \in Chains, w \in Validators : held[d][w] <= held'[d][w]
  <2>1. blocks' = blocks /\ held' = held /\ first' = first /\ clock' \in Nat
    <3>1. CASE Tick
      BY <1>3, <3>1 DEF Tick, NetworkInv
    <3>2. CASE \E v \in Validators : Diverge(v)
      BY <1>3, <3>2, Zenon DEF Diverge, NetworkInv
    <3>3. QED BY <1>3, <3>1, <3>2
  <2>2. sound' \in [Validators -> BOOLEAN]
    <3>1. sound' = sound \/ \E v \in Validators : sound' = [sound EXCEPT ![v] = FALSE]
      BY <1>3 DEF Tick, Diverge
    <3>2. QED BY <3>1 DEF NetworkInv
  <2>3. \A d \in Chains, w \in Validators : held[d][w] \in Nat
    BY DEF NetworkInv
  <2>4. QED BY <2>1, <2>2, <2>3 DEF NetworkInv
<1>4. UNCHANGED first
  BY DEF Network, passVars
<1>5. \/ \E c \in Chains : MakeBlock(c)
      \/ \E c \in Chains, v \in Validators : Receive(c, v)
      \/ Tick \/ \E v \in Validators : Diverge(v)
  BY DEF Network
<1>6. QED BY <1>1, <1>2, <1>3, <1>4, <1>5

(* What was answered stays true: heights only grow.                         *)
LEMMA NetworkStep == MonitorInv /\ Network => MonitorInv'
<1> SUFFICES ASSUME MonitorInv, Network PROVE MonitorInv'
  OBVIOUS
<1>1. NetworkInv' /\ \A c \in Chains, v \in Validators : held[c][v] <= held'[c][v]
  BY NetworkGrows DEF MonitorInv
<1>2. /\ verdict = "none" /\ verdict' = verdict /\ program' = program /\ chain' = chain
      /\ chain_ids' = chain_ids /\ first' = first /\ validator' = validator
      /\ infos' = infos /\ unanswered' = unanswered
  BY DEF Network, passVars
<1>4. AsksOne'
  <2> SUFFICES ASSUME program = "consistency" PROVE (\E c \in Chains : Asks(c))'
    BY <1>2 DEF AsksOne
  <2>1. PICK c \in Chains : Asks(c)
    BY <1>2 DEF MonitorInv, AsksOne
  <2>2. ASSUME NEW r \in infos PROVE TrueAnswer(r, c)'
    <3>1. TrueAnswer(r, c)
      BY <2>1 DEF Asks
    <3>2. held[c][r.validator] \in Nat /\ held'[c][r.validator] \in Nat
          /\ held[c][r.validator] <= held'[c][r.validator]
      BY <1>1, <3>1 DEF TrueAnswer, MonitorInv, NetworkInv
    <3>3. QED BY <1>2, <3>1, <3>2 DEF TrueAnswer
  <2>3. Asks(c)'
    BY <1>2, <2>1, <2>2 DEF Asks
  <2>4. QED BY <2>3
<1>5. NotBegun'
  BY <1>2 DEF MonitorInv, NotBegun
<1>6. AgreeMeansSame'
  BY <1>2 DEF AgreeMeansSame
<1>7. QED BY <1>1, <1>4, <1>5, <1>6 DEF MonitorInv

(* A program starts with no answer and remembers what is held.              *)
LEMMA BeginStep ==
  ASSUME MonitorInv, Monitor \/ CheckConsistency
  PROVE  MonitorInv'
<1>0. PICK p \in {"monitor", "consistency"} :
        \E ids : Begin(p, ids) /\ (p = "consistency" => \E c \in Chains : ids = <<c>>)
  BY DEF Monitor, CheckConsistency
<1>1. PICK ids : Begin(p, ids) /\ (p = "consistency" => \E c \in Chains : ids = <<c>>)
  BY <1>0
<1>2. /\ program = "none" /\ program' = p /\ chain_ids' = ids /\ first' = held
      /\ blocks' = blocks /\ held' = held /\ sound' = sound /\ clock' = clock
      /\ chain' = chain /\ validator' = validator /\ infos' = infos /\ unanswered' = unanswered
  BY <1>1 DEF Begin, networkVars
<1>3. verdict' # "agree"
  BY <1>2 DEF Monitor, CheckConsistency, MonitorInv, NotBegun
<1>4. NetworkInv'
  BY <1>2 DEF MonitorInv, NetworkInv
<1>5. chain' = 1 /\ validator' = 1 /\ infos' = {} /\ ~unanswered'
  BY <1>2 DEF MonitorInv, NotBegun
<1>6. AsksOne'
  <2>1. ASSUME NEW c \in Chains, ids = <<c>> PROVE Asks(c)'
    BY <1>2, <1>5, <2>1, MonitorAssumption DEF Asks
  <2>2. QED BY <1>1, <1>2, <2>1 DEF AsksOne
<1>7. QED BY <1>2, <1>3, <1>4, <1>6 DEF MonitorInv, NotBegun, AgreeMeansSame

(* One query, answered or not.                                              *)
LEMMA QueryStep ==
  ASSUME MonitorInv, Answered \/ NotAnswered
  PROVE  MonitorInv'
<1>1. /\ program # "none" /\ verdict = "none" /\ validator <= NumValidators
      /\ verdict' = verdict /\ program' = program /\ chain' = chain
      /\ chain_ids' = chain_ids /\ first' = first /\ validator' = validator + 1
      /\ blocks' = blocks /\ held' = held /\ sound' = sound /\ clock' = clock
  BY DEF Answered, NotAnswered, Asking, networkVars, passVars
<1>2. NetworkInv'
  BY <1>1 DEF MonitorInv, NetworkInv
<1>3. AsksOne'
  <2> SUFFICES ASSUME program = "consistency" PROVE (\E c \in Chains : Asks(c))'
    BY <1>1 DEF AsksOne
  <2>1. PICK c \in Chains : Asks(c)
    BY <1>1 DEF MonitorInv, AsksOne
  <2>2. chain_ids[chain] = c /\ validator \in Validators /\ validator' \in 1..(NumValidators + 1)
    BY <1>1, <2>1, MonitorAssumption DEF Asks, Validators
  <2>3. ASSUME NEW r, TrueAnswer(r, c) PROVE TrueAnswer(r, c)' /\ r.validator < validator
    BY <1>1, <2>2, <2>3 DEF TrueAnswer, Validators
  <2>4. CASE Answered
    <3>1. unanswered' = unanswered
      BY <2>4 DEF Answered
    <3>2. PICK new : /\ infos' = infos \cup {new}
                     /\ new.validator = validator /\ new.height = held[c][validator]
                     /\ new.state_hash = StateHash(validator)
      <4>1. infos' = infos \cup {Info(c, validator)}
        BY <2>2, <2>4 DEF Answered
      <4>2. /\ Info(c, validator).validator = validator
            /\ Info(c, validator).height = held[c][validator]
            /\ Info(c, validator).state_hash = StateHash(validator)
        BY DEF Info
      <4>3. QED BY <4>1, <4>2
    <3>4. TrueAnswer(new, c)'
      <4>1. first[c][validator] <= held[c][validator] /\ held[c][validator] \in Nat
        BY <2>2 DEF MonitorInv, NetworkInv
      <4>2. new.state_hash \in {StateOfBlocks, new.validator}
        BY <3>2 DEF StateHash
      <4>3. validator < validator'
        BY <1>1, <2>2 DEF Validators
      <4>4. first'[c][validator] <= new.height /\ new.height <= held'[c][validator]
            /\ new.height \in Nat
        BY <1>1, <3>2, <4>1
      <4>5. QED BY <2>2, <3>2, <4>2, <4>3, <4>4 DEF TrueAnswer
    <3>5. \A r \in infos' : TrueAnswer(r, c)'
      BY <2>1, <2>3, <3>2, <3>4 DEF Asks
    <3>6. \A r, s \in infos' : r.validator = s.validator => r = s
      <4>1. \A r \in infos : r.validator # validator
        <5> TAKE r \in infos
        <5>1. TrueAnswer(r, c)
          BY <2>1 DEF Asks
        <5>2. r.validator \in Int /\ validator \in Int /\ r.validator < validator
          BY <2>2, <5>1 DEF TrueAnswer, Validators
        <5>3. QED BY <5>2
      <4>2. QED BY <2>1, <3>2, <4>1 DEF Asks
    <3>7. unanswered' => \E v \in Validators : v < validator' /\ \A r \in infos' : r.validator # v
      <4>1. ASSUME unanswered'
            PROVE  \E v \in Validators : v < validator' /\ \A r \in infos' : r.validator # v
        <5>1. PICK v \in Validators : v < validator /\ \A r \in infos : r.validator # v
          BY <2>1, <3>1, <4>1 DEF Asks
        <5>2. v < validator' /\ v # validator
          BY <1>1, <2>2, <5>1 DEF Validators
        <5>3. QED BY <3>2, <5>1, <5>2
      <4>2. QED BY <4>1
    <3>8. Asks(c)'
      BY <1>1, <2>1, <2>2, <3>5, <3>6, <3>7 DEF Asks
    <3>9. QED BY <3>8
  <2>5. CASE NotAnswered
    <3>1. infos' = infos
      BY <2>5 DEF NotAnswered
    <3>2. validator < validator' /\ \A r \in infos' : r.validator # validator
      <4>1. \A r \in infos : TrueAnswer(r, c)
        BY <2>1 DEF Asks
      <4>2. QED BY <1>1, <2>2, <3>1, <4>1 DEF TrueAnswer, Validators
    <3>3. \A r \in infos' : TrueAnswer(r, c)'
      BY <2>1, <2>3, <3>1 DEF Asks
    <3>4. Asks(c)'
      BY <1>1, <2>1, <2>2, <3>1, <3>2, <3>3 DEF Asks
    <3>5. QED BY <3>4
  <2>6. QED BY <2>4, <2>5
<1>4. QED BY <1>1, <1>2, <1>3 DEF MonitorInv, NotBegun, AgreeMeansSame

-----------------------------------------------------------------------------

(* A set with more than one element has one that differs from a given one.  *)
LEMMA Another ==
  ASSUME NEW S, ~(Cardinality(S) <= 1), NEW x \in S
  PROVE  \E y \in S : y # x
<1> SUFFICES ASSUME \A y \in S : y = x PROVE FALSE
  OBVIOUS
<1>1. S = {x}
  OBVIOUS
<1>2. Cardinality({x}) = 1
  BY FS_Singleton
<1>3. QED BY <1>1, <1>2

(* All validators have answered alike.  One that was not sound would be the *)
(* only one with its state, and another one has answered too.               *)
LEMMA AgreementStep ==
  ASSUME MonitorInv, Compare
  PROVE  AgreeMeansSame'
<1> SUFFICES ASSUME verdict' = "agree" PROVE AgreeMeansSame'
  BY DEF AgreeMeansSame
<1>1. /\ program = "consistency" /\ verdict = "none"
      /\ ~(Cardinality(infos) <= 1) /\ Agreement
      /\ first' = first /\ chain_ids' = chain_ids /\ unanswered' = unanswered
      /\ blocks' = blocks /\ held' = held /\ infos' = infos
  BY DEF Compare, Assessing, Ongoing, networkVars, passVars
<1>2. PICK c \in Chains : Asks(c)
  BY <1>1 DEF MonitorInv, AsksOne
<1>3. chain_ids[1] = c
  BY <1>2 DEF Asks
<1>4. \A v \in Validators : \E r \in infos : r.validator = v
  BY <1>1 DEF Agreement, HasErrors
<1>5. ~unanswered
  BY <1>2, <1>4 DEF Asks
<1>6. \A r \in infos : r.state_hash = StateOfBlocks
  <2> SUFFICES ASSUME NEW r \in infos, r.state_hash = r.validator PROVE FALSE
    BY <1>2 DEF Asks, TrueAnswer
  <2>1. PICK s \in infos : s # r
    BY <1>1, Another
  <2>2. /\ r.validator \in Validators /\ s.validator # r.validator
        /\ s.state_hash \in {StateOfBlocks, s.validator}
    BY <1>2, <2>1 DEF Asks, TrueAnswer
  <2>3. r.state_hash = s.state_hash
    BY <1>1 DEF Agreement
  <2>4. r.validator # StateOfBlocks
    BY <2>2 DEF Validators, StateOfBlocks
  <2>5. QED BY <2>2, <2>3, <2>4
<1>7. \E h \in 0..Len(blocks[c]) : \A v \in Validators : first[c][v] <= h /\ h <= held[c][v]
  <2>1. PICK r \in infos : r.validator = 1
    BY <1>4, MonitorAssumption DEF Validators
  <2>2. \A v \in Validators : first[c][v] <= r.height /\ r.height <= held[c][v]
    <3> TAKE v \in Validators
    <3>1. PICK s \in infos : s.validator = v
      BY <1>4
    <3>2. s.height = r.height
      BY <1>1, <2>1, <3>1 DEF Agreement
    <3>3. QED BY <1>2, <3>1, <3>2 DEF Asks, TrueAnswer
  <2>3. 1 \in Validators
    BY MonitorAssumption DEF Validators
  <2>4. r.height \in Nat /\ held[c][1] \in Nat /\ held[c][1] <= Len(blocks[c])
        /\ Len(blocks[c]) \in Nat
    BY <1>2, <2>1, <2>3 DEF Asks, TrueAnswer, MonitorInv, NetworkInv
  <2>5. r.height \in 0..Len(blocks[c])
    BY <2>2, <2>3, <2>4
  <2>6. QED BY <2>2, <2>5
<1>8. QED BY <1>1, <1>3, <1>5, <1>6, <1>7 DEF AgreeMeansSame

(* The evaluation of answers; only the comparison reports agreement.        *)
LEMMA AssessmentStep ==
  ASSUME MonitorInv, Assess \/ Report \/ Compare
  PROVE  MonitorInv'
<1>1. /\ program # "none" /\ program' = program /\ first' = first
      /\ blocks' = blocks /\ held' = held /\ sound' = sound /\ clock' = clock
  BY DEF Assess, Report, Compare, Assessing, Ongoing, networkVars, passVars
<1>2. NetworkInv'
  BY <1>1 DEF MonitorInv, NetworkInv
<1>3. NotBegun'
  BY <1>1 DEF NotBegun
<1>4. AsksOne'
  BY <1>1 DEF AsksOne, Assess, Report, Compare, Assessing, Ongoing
<1>5. AgreeMeansSame'
  <2>1. CASE Compare
    BY <2>1, AgreementStep
  <2>2. CASE Assess
    BY <2>2 DEF Assess, Assessing, Ongoing, AgreeMeansSame
  <2>3. CASE Report
    BY <2>3 DEF Report, AgreeMeansSame
  <2>4. QED BY <2>1, <2>2, <2>3
<1>6. QED BY <1>2, <1>3, <1>4, <1>5 DEF MonitorInv

(* Every step keeps the invariant.                                          *)
LEMMA MonitorStep == MonitorInv /\ [MonitorNext]_monitorVars => MonitorInv'
<1> SUFFICES ASSUME MonitorInv, [MonitorNext]_monitorVars PROVE MonitorInv'
  OBVIOUS
<1>1. CASE UNCHANGED monitorVars
  BY <1>1 DEF monitorVars, networkVars, passVars, MonitorInv, NetworkInv, NotBegun, AsksOne, Asks,
              TrueAnswer, AgreeMeansSame
<1>2. QED BY <1>1, NetworkStep, BeginStep, QueryStep, AssessmentStep DEF MonitorNext

(* Validators that the consistency check says to agree have all answered,   *)
(* were sound when they were asked, and have had one same height, whatever  *)
(* grew or diverged meanwhile.                                              *)
THEOREM AgreementIsReal == MonitorSpec => []AgreeMeansSame
<1>1. MonitorInv => AgreeMeansSame
  BY DEF MonitorInv
<1>2. QED BY <1>1, MonitorInitInv, MonitorStep, PTL DEF MonitorSpec

-----------------------------------------------------------------------------
(* The monitor of chains.                                                   *)

(* Blocks are made at times that do not go back, since time 1.              *)
Timely ==
  /\ 1 <= clock
  /\ \A c \in Chains : \A i, j \in 1..Len(blocks[c]) : i <= j =>
       1 <= blocks[c][i] /\ blocks[c][i] <= blocks[c][j] /\ blocks[c][j] <= clock

(* What is said of the chain at position i.                                 *)
CloseAt(i) == \A v, w \in Validators : first[chain_ids[i]][v] - held[chain_ids[i]][w] < BigDiff
FreshAt(i) ==
  \A v \in Validators : first[chain_ids[i]][v] > 0 =>
    now - Stamp(chain_ids[i], held[chain_ids[i]][v]) <= StaleAge
ApartAt(i) == \E v \in Validators : Len(blocks[chain_ids[i]]) - first[chain_ids[i]][v] >= BigDiff
OldAt(i) ==
  \E v \in Validators : \E h \in first[chain_ids[i]][v]..Len(blocks[chain_ids[i]]) :
    h > 0 /\ now - Stamp(chain_ids[i], h) > StaleAge
ReceivesAt(i, v) == first[chain_ids[i]][v] < Len(blocks[chain_ids[i]])

Assessed == 1..(chain - 1)
BehindIn(v) == {i \in Assessed : AlwaysBehind(i, v)}
ReceivesIn(v) == {i \in Assessed : ReceivesAt(i, v)}

(* An answer about chain c has a height between what was and what is held,  *)
(* and the time of the block at that height.                                *)
TrueHeight(r, c) ==
  /\ r.validator \in Validators /\ r.height \in Nat
  /\ first[c][r.validator] <= r.height /\ r.height <= held[c][r.validator]
  /\ r.timestamp = Stamp(c, r.height)

(* The pass so far.  Without issues, chains are close and fresh, and who is *)
(* behind was counted; issues have a reason; and who was counted has        *)
(* received blocks since, or can.                                           *)
PassTypes ==
  /\ chain_ids \in Seq(Chains) /\ now \in Nat
  /\ chain \in 1..(Len(chain_ids) + 1) /\ validator \in 1..(NumValidators + 1)
  /\ lagging \in [Validators -> Nat]
  /\ issues_found \in BOOLEAN /\ unanswered \in BOOLEAN

PassAnswers ==
  /\ chain <= Len(chain_ids) \/ (infos = {} /\ validator = 1)
  /\ \A r \in infos : TrueHeight(r, chain_ids[chain]) /\ r.validator < validator
  /\ unanswered => issues_found
                   \/ \E v \in Validators : v < validator /\ \A r \in infos : r.validator # v
  /\ ~unanswered => \A v \in Validators : v < validator => \E r \in infos : r.validator = v

PassVerdict ==
  /\ ~issues_found => \A i \in Assessed : CloseAt(i) /\ FreshAt(i)
  /\ ~issues_found => \A v \in Validators : Cardinality(BehindIn(v)) <= lagging[v]
  /\ issues_found => unanswered \/ \E i \in Assessed : ApartAt(i) \/ OldAt(i)
  /\ \A v \in Validators : lagging[v] <= Cardinality(ReceivesIn(v))

Passing == program = "monitor" /\ verdict = "none"

VerdictInv ==
  /\ MonitorInv /\ Timely
  /\ program = "none" => lagging = [v \in Validators |-> 0] /\ issues_found = FALSE
                         /\ unanswered = FALSE
  /\ Passing => PassTypes /\ PassAnswers /\ PassVerdict
  /\ HealthyMeansClose /\ IssuesAreReal

-----------------------------------------------------------------------------

(* Nothing has been asked yet.                                              *)
LEMMA VerdictInitInv == MonitorInit => VerdictInv
<1> SUFFICES ASSUME MonitorInit PROVE VerdictInv
  OBVIOUS
<1>1. Timely
  BY DEF MonitorInit, Timely
<1>2. QED BY <1>1, MonitorInitInv DEF MonitorInit, VerdictInv, Passing, HealthyMeansClose,
             IssuesAreReal

(* Sets of positions are finite.                                            *)
LEMMA AssessedFinite ==
  ASSUME NEW n \in Nat, NEW S \in SUBSET (1..n)
  PROVE  IsFiniteSet(S) /\ Cardinality(S) \in Nat
<1>1. IsFiniteSet(1..n)
  BY FS_Interval
<1>2. QED BY <1>1, FS_Subset, FS_CardinalityType

(* Chains grow at their end, and time does not go back.                     *)
LEMMA TimelyGrows ==
  ASSUME NetworkInv, Timely, Network
  PROVE  /\ Timely'
         /\ \A c \in Chains : Len(blocks[c]) <= Len(blocks'[c])
         /\ \A c \in Chains, h \in Nat : h <= Len(blocks[c]) => Stamp(c, h)' = Stamp(c, h)
<1>1. CASE \E c \in Chains : MakeBlock(c)
  <2>1. PICK c \in Chains : MakeBlock(c)
    BY <1>1
  <2>2. blocks' = [blocks EXCEPT ![c] = Append(blocks[c], clock)] /\ clock' = clock
    BY <2>1 DEF MakeBlock
  <2>3. blocks \in [Chains -> Seq(Nat)] /\ clock \in Nat
    BY DEF NetworkInv
  <2>4. \A d \in Chains :
          /\ blocks[d] \in Seq(Nat) /\ Len(blocks[d]) \in Nat
          /\ blocks'[d] = IF d = c THEN Append(blocks[d], clock) ELSE blocks[d]
    BY <2>2, <2>3
  <2>5. \A d \in Chains :
          /\ Len(blocks'[d]) = IF d = c THEN Len(blocks[d]) + 1 ELSE Len(blocks[d])
          /\ \A i \in 1..Len(blocks[d]) : blocks'[d][i] = blocks[d][i]
          /\ d = c => blocks'[d][Len(blocks[d]) + 1] = clock
    <3>1. ASSUME NEW s \in Seq(Nat)
          PROVE  /\ Len(Append(s, clock)) = Len(s) + 1
                 /\ \A i \in 1..Len(s) : Append(s, clock)[i] = s[i]
                 /\ Append(s, clock)[Len(s) + 1] = clock
      BY <2>3
    <3>2. QED BY <2>4, <3>1
  <2>6. ASSUME NEW d \in Chains, NEW i \in 1..Len(blocks'[d]), NEW j \in 1..Len(blocks'[d]), i <= j
        PROVE  1 <= blocks'[d][i] /\ blocks'[d][i] <= blocks'[d][j] /\ blocks'[d][j] <= clock
    <3>1. Len(blocks[d]) \in Nat
      BY <2>4
    <3>2. CASE j <= Len(blocks[d])
      <4>1. i \in 1..Len(blocks[d]) /\ j \in 1..Len(blocks[d])
        BY <2>6, <3>1, <3>2
      <4>2. QED BY <2>5, <2>6, <4>1 DEF Timely
    <3>3. CASE j > Len(blocks[d])
      <4>1. d = c /\ j = Len(blocks[d]) + 1 /\ blocks'[d][j] = clock
        BY <2>5, <2>6, <3>1, <3>3
      <4>2. CASE i = j
        BY <4>1, <4>2, <2>3 DEF Timely
      <4>3. CASE i # j
        <5>1. i \in 1..Len(blocks[d])
          BY <2>6, <3>1, <4>1, <4>3
        <5>2. blocks'[d][i] = blocks[d][i] /\ 1 <= blocks[d][i] /\ blocks[d][i] <= clock
          BY <2>5, <5>1 DEF Timely
        <5>3. QED BY <4>1, <5>2, <2>3
      <4>4. QED BY <4>2, <4>3
    <3>4. QED BY <2>6, <3>1, <3>2, <3>3
  <2>7. Timely'
    BY <2>2, <2>6 DEF Timely
  <2>8. ASSUME NEW d \in Chains, NEW h \in Nat, h <= Len(blocks[d])
        PROVE  Stamp(d, h)' = Stamp(d, h)
    <3>1. h # 0 => h \in 1..Len(blocks[d])
      BY <2>4, <2>8
    <3>2. QED BY <2>5, <3>1 DEF Stamp
  <2>9. QED BY <2>4, <2>5, <2>7, <2>8
<1>2. CASE blocks' = blocks /\ clock' \in Nat /\ clock <= clock'
  <2>1. clock \in Nat /\ \A c \in Chains : Len(blocks[c]) \in Nat
    BY DEF NetworkInv
  <2>2. \A c \in Chains : \A i \in 1..Len(blocks[c]) : blocks[c][i] \in Nat
    BY DEF NetworkInv
  <2>3. \A c \in Chains : \A j \in 1..Len(blocks[c]) : blocks[c][j] <= clock'
    BY <1>2, <2>1, <2>2 DEF Timely
  <2>4. 1 <= clock'
    BY <1>2, <2>1 DEF Timely
  <2>5. Timely'
    BY <1>2, <2>3, <2>4 DEF Timely
  <2>6. QED BY <1>2, <2>1, <2>5 DEF Stamp
<1>3. (\E c \in Chains : MakeBlock(c)) \/ (blocks' = blocks /\ clock' \in Nat /\ clock <= clock')
  <2>1. clock \in Nat
    BY DEF NetworkInv
  <2>2. CASE \E v \in Validators : Diverge(v)
    <3>1. blocks' = blocks /\ clock' = clock
      BY <2>2, Zenon DEF Diverge
    <3>2. QED BY <2>1, <3>1
  <2>3. CASE Tick \/ \E c \in Chains, v \in Validators : Receive(c, v)
    BY <2>1, <2>3 DEF Receive, Tick
  <2>4. QED BY <2>2, <2>3 DEF Network
<1>4. QED BY <1>1, <1>2, <1>3

(* Heights and their times, of a chain that is asked about.                 *)
LEMMA HeightTypes ==
  ASSUME NetworkInv, Timely, NEW c \in Chains, NEW v \in Validators
  PROVE  /\ first[c][v] \in Nat /\ held[c][v] \in Nat /\ Len(blocks[c]) \in Nat
         /\ first[c][v] <= held[c][v] /\ held[c][v] <= Len(blocks[c])
         /\ \A h \in 0..Len(blocks[c]) : Stamp(c, h) \in Nat /\ (h # 0 => Stamp(c, h) # 0)
         /\ \A h, k \in 0..Len(blocks[c]) : h <= k => Stamp(c, h) <= Stamp(c, k)
<1>1. /\ first[c][v] \in Nat /\ held[c][v] \in Nat /\ Len(blocks[c]) \in Nat
      /\ first[c][v] <= held[c][v] /\ held[c][v] <= Len(blocks[c])
      /\ blocks[c] \in Seq(Nat)
  BY DEF NetworkInv
<1>2. \A h \in 1..Len(blocks[c]) : blocks[c][h] \in Nat /\ 1 <= blocks[c][h]
  BY <1>1 DEF Timely
<1>3. \A h \in 0..Len(blocks[c]) : Stamp(c, h) \in Nat /\ (h # 0 => Stamp(c, h) # 0)
  BY <1>1, <1>2 DEF Stamp
<1>4. ASSUME NEW h \in 0..Len(blocks[c]), NEW k \in 0..Len(blocks[c]), h <= k
      PROVE  Stamp(c, h) <= Stamp(c, k)
  <2>1. CASE h = 0
    BY <1>1, <1>3, <2>1 DEF Stamp
  <2>2. CASE h # 0
    <3>1. h \in 1..Len(blocks[c]) /\ k \in 1..Len(blocks[c])
      BY <1>1, <1>4, <2>2
    <3>2. blocks[c][h] <= blocks[c][k]
      BY <1>4, <3>1 DEF Timely
    <3>3. QED BY <3>1, <3>2 DEF Stamp
  <2>3. QED BY <2>1, <2>2
<1>5. QED BY <1>1, <1>3, <1>4

(* What was said of a chain stays true while it grows.                      *)
LEMMA StillTrue ==
  ASSUME NetworkInv, Timely, Network, UNCHANGED <<first, chain_ids, now, chain>>,
         now \in Nat, NEW i, i \in Asked, chain_ids \in Seq(Chains)
  PROVE  /\ CloseAt(i) => CloseAt(i)'
         /\ FreshAt(i) => FreshAt(i)'
         /\ ApartAt(i) => ApartAt(i)'
         /\ OldAt(i) => OldAt(i)'
         /\ \A v \in Validators : AlwaysBehind(i, v)' => AlwaysBehind(i, v)
         /\ \A v \in Validators : ReceivesAt(i, v) => ReceivesAt(i, v)'
         /\ \A r : TrueHeight(r, chain_ids[i]) => TrueHeight(r, chain_ids[i])'
<1> PICK c \in Chains : c = chain_ids[i]
  BY DEF Asked
<1>1. c = chain_ids'[i] /\ first' = first /\ now' = now
  OBVIOUS
<1>2. /\ NetworkInv' /\ Timely'
      /\ \A v \in Validators : held[c][v] <= held'[c][v]
      /\ Len(blocks[c]) <= Len(blocks'[c])
      /\ \A h \in Nat : h <= Len(blocks[c]) => Stamp(c, h)' = Stamp(c, h)
  BY <1>1, NetworkGrows, TimelyGrows
<1>3. \A v \in Validators :
        /\ first[c][v] \in Nat /\ held[c][v] \in Nat
        /\ first[c][v] <= held[c][v] /\ held[c][v] <= Len(blocks[c])
  BY <1>1, HeightTypes
<1>4. \A v \in Validators : held'[c][v] \in Nat /\ held'[c][v] <= Len(blocks'[c])
  BY <1>1, <1>2 DEF NetworkInv
<1>5. Len(blocks[c]) \in Nat /\ Len(blocks'[c]) \in Nat
  BY <1>1, <1>2 DEF NetworkInv
<1>6. BigDiff \in Nat /\ StaleAge \in Nat
  BY MonitorAssumption
<1>7. CloseAt(i) => CloseAt(i)'
  BY <1>1, <1>2, <1>3, <1>4, <1>6 DEF CloseAt
<1>8. FreshAt(i) => FreshAt(i)'
  <2> SUFFICES ASSUME FreshAt(i), NEW v \in Validators, first[c][v] > 0
      PROVE  (now - Stamp(c, held[c][v]) <= StaleAge)'
    BY <1>1 DEF FreshAt
  <2>1. now - Stamp(c, held[c][v]) <= StaleAge
    BY DEF FreshAt
  <2>2. PICK h \in Nat : h = held[c][v] /\ h <= Len(blocks[c])
    BY <1>3
  <2>3. PICK k \in Nat : k = held'[c][v] /\ k <= Len(blocks'[c]) /\ h <= k
    BY <1>2, <1>4, <2>2
  <2>4. Stamp(c, h)' = Stamp(c, h)
    BY <1>2, <2>2
  <2>5. Stamp(c, h)' <= Stamp(c, k)' /\ Stamp(c, h)' \in Nat /\ Stamp(c, k)' \in Nat
    <3>1. blocks'[c] \in Seq(Nat)
      BY <1>1, <1>2 DEF NetworkInv
    <3>2. CASE h = 0
      BY <1>5, <2>3, <3>1, <3>2 DEF Stamp
    <3>3. CASE h # 0
      <4>1. h \in 1..Len(blocks'[c]) /\ k \in 1..Len(blocks'[c])
        BY <1>5, <2>3, <3>3
      <4>2. \A m, n \in 1..Len(blocks'[c]) : m <= n => blocks'[c][m] <= blocks'[c][n]
        BY <1>2 DEF Timely
      <4>3. blocks'[c][h] <= blocks'[c][k]
        BY <2>3, <4>1, <4>2
      <4>4. blocks'[c][h] \in Nat /\ blocks'[c][k] \in Nat
        BY <3>1, <4>1
      <4>5. Stamp(c, h)' = blocks'[c][h]
        BY <3>3 DEF Stamp
      <4>6. Stamp(c, k)' = blocks'[c][k]
        <5>1. k # 0
          BY <2>3, <3>3
        <5>2. QED BY <5>1 DEF Stamp
      <4>7. PICK x, y \in Nat : x = blocks'[c][h] /\ y = blocks'[c][k]
        BY <4>4, Zenon
      <4>8. x <= y
        BY <4>3, <4>7, Zenon
      <4>9. Stamp(c, h)' = x /\ Stamp(c, k)' = y
        BY <4>5, <4>6, <4>7, Zenon
      <4>10. QED BY <4>7, <4>8, <4>9, Zenon
    <3>4. QED BY <3>2, <3>3
  <2>6. QED BY <1>6, <2>1, <2>2, <2>3, <2>4, <2>5
<1>9. ApartAt(i) => ApartAt(i)'
  BY <1>1, <1>2, <1>3, <1>5, <1>6 DEF ApartAt
<1>10. OldAt(i) => OldAt(i)'
  <2> SUFFICES ASSUME NEW v \in Validators, NEW h \in first[c][v]..Len(blocks[c]),
                      h > 0, now - Stamp(c, h) > StaleAge
      PROVE  OldAt(i)'
    BY DEF OldAt
  <2>1. h \in Nat /\ h <= Len(blocks[c]) /\ h \in first[c][v]..Len(blocks'[c])
    BY <1>2, <1>3, <1>5
  <2>2. Stamp(c, h)' = Stamp(c, h)
    BY <1>2, <2>1
  <2>3. QED BY <1>1, <2>1, <2>2 DEF OldAt
<1>11. \A v \in Validators : AlwaysBehind(i, v)' => AlwaysBehind(i, v)
  BY <1>1, <1>2, <1>3, <1>4 DEF AlwaysBehind
<1>12. \A v \in Validators : ReceivesAt(i, v) => ReceivesAt(i, v)'
  BY <1>1, <1>2, <1>3, <1>5 DEF ReceivesAt
<1>13. ASSUME NEW r, TrueHeight(r, c) PROVE TrueHeight(r, c)'
  <2>1. r.height \in Nat /\ r.validator \in Validators /\ r.height <= Len(blocks[c])
        /\ r.height <= held'[c][r.validator]
    BY <1>2, <1>3, <1>4, <1>5, <1>13 DEF TrueHeight
  <2>2. Stamp(c, r.height)' = Stamp(c, r.height)
    BY <1>2, <2>1
  <2>3. QED BY <1>1, <1>13, <2>1, <2>2 DEF TrueHeight
<1>14. QED BY <1>1, <1>7, <1>8, <1>9, <1>10, <1>11, <1>12, <1>13

-----------------------------------------------------------------------------
(* The chains that a file names.                                           *)

AddEquation(g, file) ==
  g = [s \in SUBSET (DOMAIN file) |->
         IF s = {} THEN <<>> ELSE AddChain(g[s \ {Max(s)}], file[Max(s)])]

LEMMA ReadUnfold ==
  ASSUME NEW file
  PROVE  ReadChains(file) = (CHOOSE g : AddEquation(g, file))[DOMAIN file]
BY Zenon DEF ReadChains, FoldLeft, MapThenFoldSet, AddEquation

(* A file names chains.                                                     *)
LEMMA ReadType ==
  ASSUME NEW file \in Files
  PROVE  ReadChains(file) \in Seq(Chains)
<1> DEFINE n == Len(file)
           V == Seq(Chains)
           act == [i \in 1..n |-> [ids \in V |-> AddChain(ids, file[i])]]
<1>1. n \in Nat /\ DOMAIN file = 1..n
  BY MonitorAssumption
<1>2. <<>> \in V /\ \A ids \in V : \A line : AddChain(ids, line) \in V
  BY DEF AddChain
<1>3. act \in [1..n -> [V -> V]]
  BY <1>2
<1> HIDE DEF n, V
<1>4. PICK g \in [SUBSET (1..n) -> V] : FoldSolution(g, act, <<>>, n)
  BY <1>1, <1>2, <1>3, FoldSolvable
<1>5. AddEquation(g, file)
  <2>1. ASSUME NEW s \in SUBSET (1..n)
        PROVE  g[s] = IF s = {} THEN <<>> ELSE AddChain(g[s \ {Max(s)}], file[Max(s)])
    <3>1. CASE s = {}
      BY <1>4, <3>1 DEF FoldSolution
    <3>2. CASE s # {}
      <4>1. Max(s) \in 1..n /\ s \ {Max(s)} \in SUBSET (1..n)
        BY <1>1, <3>2, GreatestUpTo
      <4>2. g[s] = act[Max(s)][g[s \ {Max(s)}]]
        BY <1>4, <3>2 DEF FoldSolution
      <4>3. g[s \ {Max(s)}] \in V
        BY <4>1
      <4>4. QED BY <3>2, <4>1, <4>2, <4>3
    <3>3. QED BY <3>1, <3>2
  <2>2. g = [s \in SUBSET (1..n) |-> g[s]]
    OBVIOUS
  <2>3. g = [s \in SUBSET (1..n) |->
               IF s = {} THEN <<>> ELSE AddChain(g[s \ {Max(s)}], file[Max(s)])]
    BY <2>1, <2>2, Zenon
  <2>4. QED BY <1>1, <2>3, Zenon DEF AddEquation
<1> DEFINE f == CHOOSE h : AddEquation(h, file)
<1>6. AddEquation(f, file)
  BY <1>5, Zenon
<1> HIDE DEF f
<1> DEFINE Good == {k \in 0..n : f[1..k] \in V}
<1>7. \A s \in SUBSET (1..n) :
        f[s] = IF s = {} THEN <<>> ELSE AddChain(f[s \ {Max(s)}], file[Max(s)])
  BY <1>1, <1>6, Zenon DEF AddEquation
<1>8. 0 \in Good
  <2>1. 1..0 = {} /\ 0 \in 0..n
    BY <1>1
  <2>2. f[{}] = <<>>
    BY <1>7
  <2>3. QED BY <1>2, <2>1, <2>2
<1>9. ASSUME NEW k \in 1..n, k - 1 \in Good PROVE k \in Good
  <2>1. /\ 1..k \in SUBSET (1..n) /\ 1..k # {} /\ k \in 0..n
        /\ Max(1..k) = k /\ (1..k) \ {k} = 1..(k - 1)
    BY <1>1, FirstOnes
  <2>2. f[1..k] = AddChain(f[1..(k - 1)], file[k])
    BY <1>7, <2>1
  <2>3. QED BY <1>2, <1>9, <2>1, <2>2
<1>10. n \in Good
  <2> HIDE DEF Good
  <2>1. n \in 0..n
    BY <1>1
  <2>2. QED BY <1>1, <1>8, <1>9, <2>1, UpTo
<1>11. QED BY <1>1, <1>10, ReadUnfold DEF f, V

-----------------------------------------------------------------------------

(* What the network does changes nothing that was said.                     *)
LEMMA VerdictNetwork ==
  ASSUME VerdictInv, Network
  PROVE  VerdictInv'
<1>1. MonitorInv' /\ Timely'
  BY NetworkStep, TimelyGrows DEF VerdictInv, MonitorInv
<1>2. /\ verdict = "none" /\ verdict' = verdict /\ program' = program /\ chain' = chain
      /\ chain_ids' = chain_ids /\ first' = first /\ validator' = validator /\ now' = now
      /\ infos' = infos /\ unanswered' = unanswered /\ lagging' = lagging
      /\ issues_found' = issues_found
  BY DEF Network, passVars
<1>3. HealthyMeansClose' /\ IssuesAreReal'
  BY <1>2 DEF HealthyMeansClose, IssuesAreReal
<1>4. ASSUME Passing PROVE (PassTypes /\ PassAnswers /\ PassVerdict)'
  <2>1. PassTypes /\ PassAnswers /\ PassVerdict /\ NetworkInv /\ Timely
    BY <1>4 DEF VerdictInv, MonitorInv
  <2>2. PassTypes' /\ Assessed' = Assessed
    BY <1>2, <2>1 DEF PassTypes, Assessed
  <2>3. /\ chain_ids \in Seq(Chains) /\ now \in Nat /\ Len(chain_ids) \in Nat
        /\ chain \in 1..(Len(chain_ids) + 1)
    BY <2>1 DEF PassTypes
  <2>4. \A i \in Assessed : i \in Asked
    BY <2>3 DEF Assessed, Asked
  <2>5. ASSUME NEW i \in Asked
        PROVE  /\ CloseAt(i) => CloseAt(i)'
               /\ FreshAt(i) => FreshAt(i)'
               /\ ApartAt(i) => ApartAt(i)'
               /\ OldAt(i) => OldAt(i)'
               /\ \A v \in Validators : AlwaysBehind(i, v)' => AlwaysBehind(i, v)
               /\ \A v \in Validators : ReceivesAt(i, v) => ReceivesAt(i, v)'
               /\ \A r : TrueHeight(r, chain_ids[i]) => TrueHeight(r, chain_ids[i])'
    BY <1>2, <2>1, <2>3, StillTrue
  <2>6. PassAnswers'
    <3>1. ASSUME NEW r \in infos PROVE TrueHeight(r, chain_ids[chain])'
      <4>1. TrueHeight(r, chain_ids[chain]) /\ chain <= Len(chain_ids)
        BY <2>1 DEF PassAnswers
      <4>2. chain \in Asked
        BY <2>3, <4>1 DEF Asked
      <4>3. PICK i \in Asked : i = chain
        BY <4>2
      <4>4. TrueHeight(r, chain_ids[i])'
        BY <2>5, <4>1, <4>3
      <4>5. QED BY <1>2, <4>3, <4>4
    <3>2. QED BY <1>2, <2>1, <3>1 DEF PassAnswers
  <2>7. ASSUME NEW v \in Validators
        PROVE  Cardinality(BehindIn(v))' <= Cardinality(BehindIn(v))
               /\ Cardinality(ReceivesIn(v)) <= Cardinality(ReceivesIn(v))'
               /\ Cardinality(BehindIn(v)) \in Nat /\ Cardinality(BehindIn(v))' \in Nat
               /\ Cardinality(ReceivesIn(v)) \in Nat /\ Cardinality(ReceivesIn(v))' \in Nat
    <3>1. BehindIn(v)' \subseteq BehindIn(v) /\ ReceivesIn(v) \subseteq ReceivesIn(v)'
      <4>1. BehindIn(v)' = {i \in Assessed : AlwaysBehind(i, v)'}
            /\ ReceivesIn(v)' = {i \in Assessed : ReceivesAt(i, v)'}
        BY <2>2 DEF BehindIn, ReceivesIn
      <4>2. QED BY <2>4, <2>5, <4>1 DEF BehindIn, ReceivesIn
    <3>2. chain - 1 \in Nat /\ BehindIn(v) \in SUBSET (1..(chain - 1))
          /\ ReceivesIn(v)' \in SUBSET (1..(chain - 1))
      <4>1. chain - 1 \in Nat
        BY <2>3
      <4>2. Assessed = 1..(chain - 1) /\ Assessed' = 1..(chain - 1)
        BY <2>2 DEF Assessed
      <4>3. BehindIn(v) \subseteq Assessed /\ ReceivesIn(v)' \subseteq Assessed'
        BY DEF BehindIn, ReceivesIn
      <4>4. QED BY <4>1, <4>2, <4>3
    <3>3. IsFiniteSet(BehindIn(v)) /\ IsFiniteSet(ReceivesIn(v)')
      BY <3>2, AssessedFinite
    <3>4. QED BY <3>1, <3>3, FS_Subset, FS_CardinalityType
  <2>8. PassVerdict'
    <3>1. ~issues_found' => \A i \in Assessed' : CloseAt(i)' /\ FreshAt(i)'
      BY <1>2, <2>1, <2>2, <2>4, <2>5 DEF PassVerdict
    <3>2. issues_found' => unanswered' \/ \E i \in Assessed' : ApartAt(i)' \/ OldAt(i)'
      BY <1>2, <2>1, <2>2, <2>4, <2>5 DEF PassVerdict
    <3>3. \A v \in Validators : lagging[v] \in Nat /\ lagging'[v] = lagging[v]
      BY <1>2, <2>1 DEF PassTypes
    <3>4. ~issues_found' => \A v \in Validators : Cardinality(BehindIn(v))' <= lagging'[v]
      <4> SUFFICES ASSUME ~issues_found, NEW v \in Validators
          PROVE  Cardinality(BehindIn(v))' <= lagging'[v]
        BY <1>2
      <4>1. Cardinality(BehindIn(v)) <= lagging[v]
        BY <2>1 DEF PassVerdict
      <4>2. QED BY <2>7, <3>3, <4>1
    <3>5. \A v \in Validators : lagging'[v] <= Cardinality(ReceivesIn(v))'
      <4> SUFFICES ASSUME NEW v \in Validators
          PROVE  lagging'[v] <= Cardinality(ReceivesIn(v))'
        OBVIOUS
      <4>1. lagging[v] <= Cardinality(ReceivesIn(v))
        BY <2>1 DEF PassVerdict
      <4>2. QED BY <2>7, <3>3, <4>1
    <3>6. QED BY <3>1, <3>2, <3>4, <3>5 DEF PassVerdict
  <2>9. QED BY <2>2, <2>6, <2>8
<1>5. (program = "none" => lagging = [v \in Validators |-> 0] /\ issues_found = FALSE
                           /\ unanswered = FALSE)'
  BY <1>2 DEF VerdictInv
<1>6. Passing' => Passing
  BY <1>2 DEF Passing
<1>7. QED BY <1>1, <1>3, <1>4, <1>5, <1>6 DEF VerdictInv

(* A pass begins with nothing said.                                         *)
LEMMA VerdictBegin ==
  ASSUME VerdictInv, Monitor \/ CheckConsistency
  PROVE  VerdictInv'
<1>1. MonitorInv'
  BY MonitorStep DEF VerdictInv, MonitorNext
<1>2. /\ blocks' = blocks /\ held' = held /\ clock' = clock /\ chain' = chain /\ validator' = validator
      /\ infos' = infos /\ unanswered' = unanswered /\ lagging' = lagging
      /\ issues_found' = issues_found /\ program = "none"
      /\ program' \in {"monitor", "consistency"}
      /\ verdict' \in {"none", "error", "no chains"}
  BY DEF Monitor, CheckConsistency, Begin, networkVars, VerdictInv, MonitorInv, NotBegun
<1>3. /\ chain = 1 /\ validator = 1 /\ infos = {} /\ unanswered = FALSE
      /\ lagging = [v \in Validators |-> 0] /\ issues_found = FALSE
  BY <1>2 DEF VerdictInv, MonitorInv, NotBegun
<1>4. chain' = 1 /\ validator' = 1
  BY <1>2, <1>3, Zenon
<1>5. Timely'
  BY <1>2 DEF VerdictInv, Timely
<1>6. HealthyMeansClose' /\ IssuesAreReal'
  BY <1>2 DEF HealthyMeansClose, IssuesAreReal
<1>7. ASSUME program' = "monitor" PROVE (PassTypes /\ PassAnswers /\ PassVerdict)'
  <2>1. PICK file \in Files : chain_ids' = ReadChains(file) /\ now' = clock
    BY <1>7 DEF Monitor, CheckConsistency, Begin
  <2>2. chain_ids' \in Seq(Chains) /\ now' \in Nat /\ Len(chain_ids') \in Nat
    BY <2>1, ReadType DEF VerdictInv, MonitorInv, NetworkInv
  <2>3. NumValidators \in Nat
    BY MonitorAssumption
  <2>4. PassTypes'
    <3>1. 1 \in 1..(Len(chain_ids') + 1)
      BY <2>2
    <3>2. 1 \in 1..(NumValidators + 1)
      BY <2>3
    <3>3. lagging' \in [Validators -> Nat]
      BY <1>2, <1>3
    <3>4. QED BY <1>2, <1>3, <1>4, <2>2, <3>1, <3>2, <3>3 DEF PassTypes
  <2>5. PassAnswers'
    <3>1. \A v \in Validators : ~(v < 1)
      BY <2>3 DEF Validators
    <3>2. QED BY <1>2, <1>3, <3>1 DEF PassAnswers
  <2>6. Assessed' = {}
    <3>1. 1..(1 - 1) = {}
      OBVIOUS
    <3>2. QED BY <1>4, <3>1, Zenon DEF Assessed
  <2>7. \A v \in Validators : BehindIn(v)' = {} /\ ReceivesIn(v)' = {}
    BY <2>6 DEF BehindIn, ReceivesIn
  <2>8. \A v \in Validators : lagging'[v] = 0
    BY <1>2, <1>3
  <2>9. Cardinality({}) = 0
    BY FS_EmptySet
  <2>10. \A v \in Validators : Cardinality(BehindIn(v))' = 0 /\ Cardinality(ReceivesIn(v))' = 0
    BY <2>7, <2>9
  <2>11. issues_found' = FALSE
    BY <1>2, <1>3
  <2>12. PassVerdict'
    BY <2>6, <2>8, <2>10, <2>11 DEF PassVerdict
  <2>13. QED BY <2>4, <2>5, <2>12
<1>8. QED BY <1>1, <1>2, <1>5, <1>6, <1>7 DEF VerdictInv, Passing

(* While the network stands still, what is said of a position stays.        *)
LEMMA VerdictStands ==
  ASSUME UNCHANGED <<networkVars, passVars>>
  PROVE  /\ \A i : CloseAt(i)' = CloseAt(i) /\ FreshAt(i)' = FreshAt(i)
         /\ \A i : ApartAt(i)' = ApartAt(i) /\ OldAt(i)' = OldAt(i)
         /\ \A i, v : AlwaysBehind(i, v)' = AlwaysBehind(i, v)
         /\ \A i, v : ReceivesAt(i, v)' = ReceivesAt(i, v)
         /\ \A r, c : TrueHeight(r, c)' = TrueHeight(r, c)
         /\ Timely' = Timely
<1>1. /\ blocks' = blocks /\ held' = held /\ clock' = clock /\ first' = first
      /\ chain_ids' = chain_ids /\ now' = now
  BY DEF networkVars, passVars
<1>2. \A c, h : Stamp(c, h)' = Stamp(c, h)
  BY <1>1 DEF Stamp
<1>3. /\ \A i : CloseAt(i)' = CloseAt(i)
      /\ \A i : FreshAt(i)' = FreshAt(i)
  BY <1>1 DEF CloseAt, FreshAt, Stamp
<1>4. /\ \A i : ApartAt(i)' = ApartAt(i)
      /\ \A i : OldAt(i)' = OldAt(i)
  BY <1>1 DEF ApartAt, OldAt, Stamp
<1>5. /\ \A i, v : AlwaysBehind(i, v)' = AlwaysBehind(i, v)
      /\ \A i, v : ReceivesAt(i, v)' = ReceivesAt(i, v)
  BY <1>1 DEF AlwaysBehind, ReceivesAt
<1>6. \A r, c : TrueHeight(r, c)' = TrueHeight(r, c)
  BY <1>1 DEF TrueHeight, Stamp
<1>7. Timely' = Timely
  BY <1>1 DEF Timely
<1>8. QED BY <1>3, <1>4, <1>5, <1>6, <1>7

(* One validator is asked.                                                  *)
LEMMA VerdictQuery ==
  ASSUME VerdictInv, Answered \/ NotAnswered
  PROVE  VerdictInv'
<1>1. MonitorInv'
  BY MonitorStep DEF VerdictInv, MonitorNext
<1>2. /\ UNCHANGED <<networkVars, passVars>>
      /\ chain' = chain /\ validator' = validator + 1 /\ lagging' = lagging
      /\ issues_found' = issues_found /\ program' = program /\ verdict' = verdict
      /\ program # "none" /\ verdict = "none"
      /\ chain <= Len(chain_ids) /\ validator <= NumValidators
  BY DEF Answered, NotAnswered, Asking
<1>3. HealthyMeansClose' /\ IssuesAreReal'
  BY <1>2 DEF HealthyMeansClose, IssuesAreReal
<1>4. Timely' /\ chain_ids' = chain_ids /\ now' = now
  BY <1>2, VerdictStands DEF VerdictInv, passVars
<1>5. ASSUME program = "monitor" PROVE (PassTypes /\ PassAnswers /\ PassVerdict)'
  <2>1. PassTypes /\ PassAnswers /\ PassVerdict
    BY <1>2, <1>5 DEF VerdictInv, Passing
  <2>2. validator \in Validators /\ validator' \in 1..(NumValidators + 1)
        /\ \A v \in Validators : v < validator' => v < validator \/ v = validator
    BY <1>2, <2>1, MonitorAssumption DEF PassTypes, Validators
  <2>3. unanswered' \in BOOLEAN /\ (unanswered => unanswered')
    BY <2>1 DEF Answered, NotAnswered, PassTypes
  <2>4. PassTypes'
    BY <1>2, <1>4, <2>1, <2>2, <2>3 DEF PassTypes
  <2>5. Assessed' = Assessed /\ \A v : BehindIn(v)' = BehindIn(v) /\ ReceivesIn(v)' = ReceivesIn(v)
    BY <1>2, VerdictStands DEF Assessed, BehindIn, ReceivesIn
  <2>6. PassVerdict'
    BY <1>2, <2>1, <2>3, <2>5, VerdictStands DEF PassVerdict
  <2>7. CASE Answered
    <3>1. infos' = infos \cup {Info(chain_ids[chain], validator)} /\ unanswered' = unanswered
      BY <2>7 DEF Answered
    <3>2. TrueHeight(Info(chain_ids[chain], validator), chain_ids[chain])
      <4>1. chain_ids[chain] \in Chains
        BY <1>2, <2>1 DEF PassTypes
      <4>2. PICK c \in Chains : c = chain_ids[chain]
        BY <4>1
      <4>3. held[c][validator] \in Nat /\ first[c][validator] <= held[c][validator]
        BY <2>2 DEF VerdictInv, MonitorInv, NetworkInv
      <4>4. held[c][validator] <= held[c][validator]
        BY <4>3
      <4>5. TrueHeight(Info(c, validator), c)
        BY <2>2, <4>3, <4>4 DEF TrueHeight, Info
      <4>6. QED BY <4>2, <4>5
    <3>3. \A r \in infos' : TrueHeight(r, chain_ids[chain])
      BY <2>1, <3>1, <3>2 DEF PassAnswers
    <3>4. ASSUME NEW r \in infos' PROVE TrueHeight(r, chain_ids[chain])'
      <4>1. PICK d : d = chain_ids[chain]
        OBVIOUS
      <4>2. TrueHeight(r, d)
        BY <3>3, <4>1
      <4>3. TrueHeight(r, d)'
        BY <1>2, <4>2, VerdictStands
      <4>4. QED BY <1>2, <1>4, <4>1, <4>3
    <3>5. \A v \in Validators : v < validator => v < validator' /\ v # validator
      BY <1>2, <2>1, <2>2, MonitorAssumption DEF PassTypes, Validators
    <3>6. Info(chain_ids[chain], validator).validator = validator
      BY DEF Info
    <3>7. unanswered' => issues_found'
            \/ \E v \in Validators : v < validator' /\ \A r \in infos' : r.validator # v
      BY <1>2, <2>1, <3>1, <3>5, <3>6 DEF PassAnswers
    <3>8. ~unanswered' =>
            \A v \in Validators : v < validator' => \E r \in infos' : r.validator = v
      BY <2>1, <2>2, <3>1, <3>6 DEF PassAnswers
    <3>9. \A r \in infos' : r.validator < validator'
      <4>1. validator < validator'
        BY <1>2, <2>1 DEF PassTypes
      <4>2. ASSUME NEW r \in infos PROVE r.validator < validator'
        <5>1. r.validator \in Validators /\ r.validator < validator
          BY <2>1 DEF PassAnswers, TrueHeight
        <5>2. QED BY <3>5, <5>1
      <4>3. QED BY <3>1, <3>6, <4>1, <4>2
    <3>10. PassAnswers'
      BY <1>2, <1>4, <3>4, <3>7, <3>8, <3>9 DEF PassAnswers
    <3>11. QED BY <2>4, <2>6, <3>10
  <2>8. CASE NotAnswered
    <3>1. infos' = infos /\ unanswered' = TRUE
      BY <2>8 DEF NotAnswered
    <3>2. ASSUME NEW r \in infos' PROVE TrueHeight(r, chain_ids[chain])'
      <4>1. PICK d : d = chain_ids[chain]
        OBVIOUS
      <4>2. TrueHeight(r, d)
        BY <2>1, <3>1, <4>1 DEF PassAnswers
      <4>3. TrueHeight(r, d)'
        BY <1>2, <4>2, VerdictStands
      <4>4. QED BY <1>2, <1>4, <4>1, <4>3
    <3>3. \A v \in Validators : v < validator => v < validator'
      BY <1>2, <2>1, <2>2, MonitorAssumption DEF PassTypes, Validators
    <3>4. issues_found' \/ \E v \in Validators : v < validator' /\ \A r \in infos' : r.validator # v
      <4>1. CASE unanswered
        BY <1>2, <2>1, <3>1, <3>3, <4>1 DEF PassAnswers
      <4>2. CASE \A r \in infos : r.validator # validator
        <5>1. validator < validator'
          BY <1>2, <2>1 DEF PassTypes
        <5>2. QED BY <2>2, <3>1, <4>2, <5>1
      <4>3. CASE \E r \in infos : r.validator = validator
        <5>1. validator < validator
          BY <2>1, <4>3 DEF PassAnswers
        <5>2. QED BY <2>1, <5>1 DEF PassTypes
      <4>4. QED BY <4>1, <4>2, <4>3
    <3>5. \A r \in infos' : r.validator < validator'
      BY <2>1, <3>1, <3>3 DEF PassAnswers, TrueHeight
    <3>6. PassAnswers'
      BY <1>2, <1>4, <3>1, <3>2, <3>4, <3>5 DEF PassAnswers
    <3>7. QED BY <2>4, <2>6, <3>6
  <2>9. QED BY <2>7, <2>8
<1>6. QED BY <1>1, <1>2, <1>3, <1>4, <1>5 DEF VerdictInv, Passing

-----------------------------------------------------------------------------

(* What the answers of all validators say of the chain they are about.      *)
LEMMA AssessmentSays ==
  ASSUME NetworkInv, Timely, PassTypes, PassAnswers,
         chain <= Len(chain_ids), validator = NumValidators + 1
  PROVE  /\ HasErrors => unanswered
         /\ unanswered => issues_found \/ HasErrors
         /\ ~HasErrors /\ ~BigDiscrepancy => CloseAt(chain)
         /\ ~HasErrors /\ ~Stale => FreshAt(chain)
         /\ ~HasErrors => \A v \in Validators : AlwaysBehind(chain, v) => Behind(v)
         /\ BigDiscrepancy => ApartAt(chain)
         /\ Stale => OldAt(chain)
         /\ \A v \in Validators : Behind(v) => ReceivesAt(chain, v)
<1>1. PICK c \in Chains : c = chain_ids[chain]
  BY DEF PassTypes
<1>2. \A v \in Validators : v < validator
  BY MonitorAssumption DEF Validators
<1>3. HasErrors => unanswered
  BY <1>2 DEF HasErrors, PassAnswers
<1>4. unanswered => issues_found \/ HasErrors
  BY DEF HasErrors, PassAnswers
<1>5. \A v \in Validators :
        /\ first[c][v] \in Nat /\ held[c][v] \in Nat /\ Len(blocks[c]) \in Nat
        /\ first[c][v] <= held[c][v] /\ held[c][v] <= Len(blocks[c])
  BY HeightTypes
<1>6. ASSUME NEW r \in infos
      PROVE  /\ r.validator \in Validators /\ r.height \in Nat
             /\ first[c][r.validator] <= r.height /\ r.height <= held[c][r.validator]
             /\ r.height <= Len(blocks[c]) /\ Len(blocks[c]) \in Nat
             /\ r.timestamp = Stamp(c, r.height) /\ r.timestamp \in Nat
             /\ r.height # 0 => r.timestamp # 0
  <2>1. TrueHeight(r, c)
    BY <1>1 DEF PassAnswers
  <2>2. r.height \in 0..Len(blocks[c])
    BY <1>5, <2>1 DEF TrueHeight
  <2>3. Stamp(c, r.height) \in Nat /\ (r.height # 0 => Stamp(c, r.height) # 0)
    BY <2>1, <2>2, HeightTypes DEF TrueHeight
  <2>4. QED BY <1>5, <2>1, <2>2, <2>3 DEF TrueHeight
<1>7. BigDiff \in Nat /\ StaleAge \in Nat /\ now \in Nat
  BY MonitorAssumption DEF PassTypes
<1>8. ASSUME ~HasErrors, ~BigDiscrepancy PROVE CloseAt(chain)
  <2> SUFFICES ASSUME NEW v \in Validators, NEW w \in Validators
      PROVE  first[c][v] - held[c][w] < BigDiff
    BY <1>1 DEF CloseAt
  <2>1. PICK s \in infos : s.validator = v
    BY <1>8 DEF HasErrors
  <2>2. PICK r \in infos : r.validator = w
    BY <1>8 DEF HasErrors
  <2>3. ~(s.height - r.height >= BigDiff)
    BY <1>8 DEF BigDiscrepancy
  <2>4. first[c][v] <= s.height /\ r.height <= held[c][w]
    BY <1>6, <2>1, <2>2
  <2>5. QED BY <1>5, <1>6, <1>7, <2>3, <2>4
<1>9. ASSUME ~HasErrors, ~Stale PROVE FreshAt(chain)
  <2> SUFFICES ASSUME NEW v \in Validators, first[c][v] > 0
      PROVE  now - Stamp(c, held[c][v]) <= StaleAge
    BY <1>1 DEF FreshAt
  <2>1. PICK r \in infos : r.validator = v
    BY <1>9 DEF HasErrors
  <2>2. first[c][v] <= r.height /\ r.height <= held[c][v] /\ r.height \in Nat
    BY <1>6, <2>1
  <2>3. r.timestamp # 0 /\ r.timestamp \in Nat /\ r.timestamp = Stamp(c, r.height)
    BY <1>5, <1>6, <2>1, <2>2
  <2>4. now - r.timestamp <= StaleAge
    BY <1>7, <1>9, <2>3 DEF Stale
  <2>5. r.height \in 0..Len(blocks[c]) /\ held[c][v] \in 0..Len(blocks[c])
    BY <1>5, <2>2
  <2>6. Stamp(c, r.height) <= Stamp(c, held[c][v]) /\ Stamp(c, held[c][v]) \in Nat
    BY <2>2, <2>5, HeightTypes
  <2>7. QED BY <1>7, <2>3, <2>4, <2>6
<1>10. ASSUME ~HasErrors, NEW v \in Validators, AlwaysBehind(chain, v) PROVE Behind(v)
  <2>1. PICK w \in Validators : held[c][v] < first[c][w]
    BY <1>1, <1>10 DEF AlwaysBehind
  <2>2. PICK r \in infos : r.validator = v
    BY <1>10 DEF HasErrors
  <2>3. PICK s \in infos : s.validator = w
    BY <1>10 DEF HasErrors
  <2>4. r.height <= held[c][v] /\ first[c][w] <= s.height /\ r.height \in Nat /\ s.height \in Nat
    BY <1>6, <2>2, <2>3
  <2>5. r.height < s.height
    BY <1>5, <2>1, <2>4
  <2>6. QED BY <2>2, <2>5 DEF Behind
<1>11. ASSUME BigDiscrepancy PROVE ApartAt(chain)
  <2>1. PICK r \in infos, s \in infos : s.height - r.height >= BigDiff
    BY <1>11 DEF BigDiscrepancy
  <2>2. PICK v \in Validators : v = r.validator
    BY <1>6
  <2>3. first[c][v] <= r.height /\ s.height <= Len(blocks[c]) /\ r.height \in Nat
        /\ s.height \in Nat
    BY <1>6, <2>2
  <2>4. Len(blocks[c]) - first[c][v] >= BigDiff
    BY <1>5, <1>7, <2>1, <2>3
  <2>5. QED BY <1>1, <2>4 DEF ApartAt
<1>12. ASSUME Stale PROVE OldAt(chain)
  <2>1. PICK r \in infos : r.timestamp # 0 /\ now - r.timestamp > StaleAge
    BY <1>12 DEF Stale
  <2>2. PICK v \in Validators : v = r.validator
    BY <1>6
  <2>3. r.height # 0
    BY <1>6, <2>1 DEF Stamp
  <2>4. PICK h \in first[c][v]..Len(blocks[c]) : h = r.height /\ h > 0
    BY <1>5, <1>6, <2>2, <2>3
  <2>5. now - Stamp(c, h) > StaleAge
    BY <1>6, <2>1, <2>4
  <2>6. QED BY <1>1, <2>4, <2>5 DEF OldAt
<1>13. ASSUME NEW v \in Validators, Behind(v) PROVE ReceivesAt(chain, v)
  <2>1. PICK r \in infos, s \in infos : r.validator = v /\ r.height < s.height
    BY <1>13 DEF Behind
  <2>2. first[c][v] <= r.height /\ s.height <= Len(blocks[c]) /\ r.height \in Nat
        /\ s.height \in Nat
    BY <1>6, <2>1
  <2>3. first[c][v] < Len(blocks[c])
    BY <1>5, <2>1, <2>2
  <2>4. QED BY <1>1, <2>3 DEF ReceivesAt
<1>14. QED BY <1>3, <1>4, <1>8, <1>9, <1>10, <1>11, <1>12, <1>13

(* A chain is assessed.                                                     *)
LEMMA VerdictAssess ==
  ASSUME VerdictInv, Assess
  PROVE  VerdictInv'
<1>1. MonitorInv'
  BY MonitorStep DEF VerdictInv, MonitorNext
<1>2. /\ UNCHANGED <<networkVars, passVars>>
      /\ chain' = chain + 1 /\ validator' = 1 /\ infos' = {}
      /\ program' = program /\ verdict' = verdict /\ unanswered' = unanswered
      /\ program = "monitor" /\ verdict = "none"
      /\ chain <= Len(chain_ids) /\ validator = NumValidators + 1
      /\ issues_found' = (issues_found \/ HasErrors \/ BigDiscrepancy \/ Stale)
  BY DEF Assess, Assessing, Ongoing
<1>3. HealthyMeansClose' /\ IssuesAreReal'
  BY <1>2 DEF HealthyMeansClose, IssuesAreReal
<1>4. Timely' /\ chain_ids' = chain_ids /\ now' = now
  BY <1>2, VerdictStands DEF VerdictInv, passVars
<1>5. PassTypes /\ PassAnswers /\ PassVerdict /\ NetworkInv /\ Timely
  BY <1>2 DEF VerdictInv, Passing, MonitorInv
<1>6. /\ HasErrors => unanswered
      /\ unanswered => issues_found \/ HasErrors
      /\ ~HasErrors /\ ~BigDiscrepancy => CloseAt(chain)
      /\ ~HasErrors /\ ~Stale => FreshAt(chain)
      /\ ~HasErrors => \A v \in Validators : AlwaysBehind(chain, v) => Behind(v)
      /\ BigDiscrepancy => ApartAt(chain)
      /\ Stale => OldAt(chain)
      /\ \A v \in Validators : Behind(v) => ReceivesAt(chain, v)
  BY <1>2, <1>5, AssessmentSays
<1>7. chain \in Nat /\ Len(chain_ids) \in Nat /\ NumValidators \in Nat /\ chain # 0
  BY <1>5, MonitorAssumption DEF PassTypes
<1>8. Assessed' = Assessed \cup {chain} /\ chain \notin Assessed /\ Assessed' = 1..chain
      /\ IsFiniteSet(Assessed)
  <2>1. Assessed' = 1..((chain + 1) - 1)
    BY <1>2 DEF Assessed
  <2>2. (chain + 1) - 1 = chain /\ 1..chain = (1..(chain - 1)) \cup {chain}
        /\ chain \notin 1..(chain - 1)
    BY <1>7
  <2>3. IsFiniteSet(1..(chain - 1))
    BY <1>7, FS_Interval
  <2>4. QED BY <2>1, <2>2, <2>3 DEF Assessed
<1>9. ASSUME NEW v \in Validators
      PROVE  /\ lagging[v] \in Nat /\ lagging'[v] \in {lagging[v], lagging[v] + 1}
             /\ lagging'[v] # lagging[v] => Behind(v)
             /\ ~BigDiscrepancy /\ Behind(v) => lagging'[v] = lagging[v] + 1
  <2>1. lagging \in [Validators -> Nat]
    BY <1>5 DEF PassTypes
  <2>2. lagging' = IF BigDiscrepancy THEN lagging
                   ELSE [w \in Validators |-> IF Behind(w) THEN lagging[w] + 1 ELSE lagging[w]]
    BY DEF Assess
  <2>3. QED BY <2>1, <2>2
<1>10. PassTypes'
  <2>1. chain' \in 1..(Len(chain_ids) + 1) /\ 1 \in 1..(NumValidators + 1)
    BY <1>2, <1>7
  <2>2. lagging' \in [Validators -> Nat]
    <3>1. lagging \in [Validators -> Nat]
      BY <1>5 DEF PassTypes
    <3>2. lagging' = IF BigDiscrepancy THEN lagging
                     ELSE [w \in Validators |-> IF Behind(w) THEN lagging[w] + 1 ELSE lagging[w]]
      BY DEF Assess
    <3>3. QED BY <3>1, <3>2
  <2>3. issues_found' \in BOOLEAN
    BY <1>2
  <2>4. QED BY <1>2, <1>4, <1>5, <2>1, <2>2, <2>3 DEF PassTypes
<1>11. PassAnswers'
  <2>1. \A v \in Validators : ~(v < 1)
    BY <1>7 DEF Validators
  <2>2. unanswered' => issues_found'
    BY <1>2, <1>6
  <2>3. QED BY <1>2, <2>1, <2>2 DEF PassAnswers
<1>12. ASSUME NEW v \in Validators
       PROVE  /\ BehindIn(v)' = BehindIn(v) \cup (IF AlwaysBehind(chain, v) THEN {chain} ELSE {})
              /\ ReceivesIn(v)' = ReceivesIn(v) \cup (IF ReceivesAt(chain, v) THEN {chain} ELSE {})
  BY <1>2, <1>8, VerdictStands DEF BehindIn, ReceivesIn
<1>13. ASSUME NEW v \in Validators
       PROVE  /\ Cardinality(BehindIn(v)) \in Nat /\ Cardinality(ReceivesIn(v)) \in Nat
              /\ Cardinality(BehindIn(v))'
                   = Cardinality(BehindIn(v)) + (IF AlwaysBehind(chain, v) THEN 1 ELSE 0)
              /\ Cardinality(ReceivesIn(v))'
                   = Cardinality(ReceivesIn(v)) + (IF ReceivesAt(chain, v) THEN 1 ELSE 0)
  <2>1. /\ IsFiniteSet(BehindIn(v)) /\ chain \notin BehindIn(v)
        /\ IsFiniteSet(ReceivesIn(v)) /\ chain \notin ReceivesIn(v)
    <3>1. BehindIn(v) \subseteq Assessed /\ ReceivesIn(v) \subseteq Assessed
      BY DEF BehindIn, ReceivesIn
    <3>2. QED BY <1>8, <3>1, FS_Subset
  <2>2. /\ Cardinality(BehindIn(v) \cup {chain}) = Cardinality(BehindIn(v)) + 1
        /\ Cardinality(ReceivesIn(v) \cup {chain}) = Cardinality(ReceivesIn(v)) + 1
        /\ Cardinality(BehindIn(v)) \in Nat /\ Cardinality(ReceivesIn(v)) \in Nat
    BY <2>1, FS_AddElement, FS_CardinalityType
  <2>3. /\ Cardinality(BehindIn(v))' = Cardinality(BehindIn(v)')
        /\ Cardinality(ReceivesIn(v))' = Cardinality(ReceivesIn(v)')
    OBVIOUS
  <2>4. /\ BehindIn(v)' = IF AlwaysBehind(chain, v) THEN BehindIn(v) \cup {chain} ELSE BehindIn(v)
        /\ ReceivesIn(v)' = IF ReceivesAt(chain, v) THEN ReceivesIn(v) \cup {chain}
                            ELSE ReceivesIn(v)
    BY <1>12
  <2>5. CASE AlwaysBehind(chain, v)
    <3>1. CASE ReceivesAt(chain, v)
      BY <2>2, <2>3, <2>4, <2>5, <3>1
    <3>2. CASE ~ReceivesAt(chain, v)
      BY <2>2, <2>3, <2>4, <2>5, <3>2
    <3>3. QED BY <3>1, <3>2
  <2>6. CASE ~AlwaysBehind(chain, v)
    <3>1. CASE ReceivesAt(chain, v)
      BY <2>2, <2>3, <2>4, <2>6, <3>1
    <3>2. CASE ~ReceivesAt(chain, v)
      BY <2>2, <2>3, <2>4, <2>6, <3>2
    <3>3. QED BY <3>1, <3>2
  <2>7. QED BY <2>5, <2>6
<1>14. PassVerdict'
  <2>1. ~issues_found' => \A i \in Assessed' : CloseAt(i)' /\ FreshAt(i)'
    BY <1>2, <1>5, <1>6, <1>8, VerdictStands DEF PassVerdict
  <2>2. issues_found' => unanswered' \/ \E i \in Assessed' : ApartAt(i)' \/ OldAt(i)'
    BY <1>2, <1>5, <1>6, <1>8, VerdictStands DEF PassVerdict
  <2>3. ASSUME ~issues_found', NEW v \in Validators
        PROVE  Cardinality(BehindIn(v))' <= lagging'[v]
    <3>1. ~issues_found /\ ~HasErrors /\ ~BigDiscrepancy
      BY <1>2, <2>3
    <3>2. Cardinality(BehindIn(v)) <= lagging[v]
      BY <1>5, <3>1 DEF PassVerdict
    <3>3. AlwaysBehind(chain, v) => lagging'[v] = lagging[v] + 1
      BY <1>6, <1>9, <3>1
    <3>4. QED BY <1>9, <1>13, <3>2, <3>3
  <2>4. ASSUME NEW v \in Validators PROVE lagging'[v] <= Cardinality(ReceivesIn(v))'
    <3>1. lagging[v] <= Cardinality(ReceivesIn(v))
      BY <1>5 DEF PassVerdict
    <3>2. lagging'[v] # lagging[v] => ReceivesAt(chain, v)
      BY <1>6, <1>9
    <3>3. QED BY <1>9, <1>13, <3>1, <3>2
  <2>5. QED BY <2>1, <2>2, <2>3, <2>4 DEF PassVerdict
<1>15. QED BY <1>1, <1>2, <1>3, <1>4, <1>10, <1>11, <1>14 DEF VerdictInv

(* The monitor reports when all chains have been assessed.                  *)
LEMMA VerdictReport ==
  ASSUME VerdictInv, Report
  PROVE  VerdictInv'
<1>1. MonitorInv'
  BY MonitorStep DEF VerdictInv, MonitorNext
<1>2. /\ UNCHANGED <<networkVars, passVars>>
      /\ program' = program /\ unanswered' = unanswered /\ lagging' = lagging
      /\ program = "monitor" /\ verdict = "none" /\ chain = Len(chain_ids) + 1
      /\ issues_found' = (issues_found \/ \E v \in Validators : lagging[v] > Len(chain_ids) \div 2)
      /\ verdict' = IF issues_found' THEN "issues" ELSE "healthy"
  BY DEF Report, Ongoing
<1>3. Timely' /\ chain_ids' = chain_ids /\ first' = first /\ held' = held /\ blocks' = blocks
      /\ now' = now
  BY <1>2, VerdictStands DEF VerdictInv, passVars, networkVars
<1>4. PassTypes /\ PassAnswers /\ PassVerdict
  BY <1>2 DEF VerdictInv, Passing
<1>5. Len(chain_ids) \in Nat
  BY <1>4 DEF PassTypes
<1>6. Assessed = Asked
  BY <1>2, <1>5 DEF Assessed, Asked
<1>7. unanswered => issues_found
  <2>1. validator = 1 /\ \A v \in Validators : ~(v < 1)
    BY <1>2, <1>4, <1>5, MonitorAssumption DEF PassAnswers, Validators
  <2>2. QED BY <1>4, <2>1 DEF PassAnswers
<1>8. ASSUME NEW v \in Validators
      PROVE  /\ lagging[v] \in Nat
             /\ Cardinality(BehindIn(v)) \in Nat /\ Cardinality(ReceivesIn(v)) \in Nat
             /\ BehindIn(v) = {i \in Asked : AlwaysBehind(i, v)}
             /\ ReceivesIn(v) = {i \in Asked : first[chain_ids[i]][v] < Len(blocks[chain_ids[i]])}
  <2>1. BehindIn(v) \subseteq Asked /\ ReceivesIn(v) \subseteq Asked
    BY <1>6 DEF BehindIn, ReceivesIn
  <2>2. IsFiniteSet(Asked)
    BY <1>5, FS_Interval DEF Asked
  <2>3. QED BY <1>4, <1>6, <2>1, <2>2, FS_Subset, FS_CardinalityType
            DEF BehindIn, ReceivesIn, ReceivesAt, PassTypes
<1>9. ASSUME NEW l \in Nat, NEW n \in Nat
      PROVE  /\ l <= Len(chain_ids) \div 2 /\ n <= l => 2 * n <= Len(chain_ids)
             /\ l > Len(chain_ids) \div 2 /\ l <= n => 2 * n > Len(chain_ids)
  <2>1. /\ Len(chain_ids) \div 2 \in Nat
        /\ 2 * (Len(chain_ids) \div 2) <= Len(chain_ids)
        /\ Len(chain_ids) < 2 * (Len(chain_ids) \div 2) + 2
    BY <1>5
  <2>2. QED BY <1>5, <2>1
<1>10. Len(chain_ids) \div 2 \in Nat
  BY <1>5
<1>11. CASE ~issues_found'
  <2>1. ~issues_found /\ verdict' = "healthy" /\ ~unanswered'
    BY <1>2, <1>7, <1>11
  <2>2. \A i \in Asked : CloseAt(i) /\ FreshAt(i)
    BY <1>4, <1>6, <2>1 DEF PassVerdict
  <2>3. ASSUME NEW v \in Validators
        PROVE  2 * Cardinality({i \in Asked : AlwaysBehind(i, v)}) <= Len(chain_ids)
    <3>1. lagging[v] <= Len(chain_ids) \div 2
      <4>1. ~(lagging[v] > Len(chain_ids) \div 2)
        BY <1>2, <1>11, Zenon
      <4>2. QED BY <1>8, <1>10, <4>1
    <3>2. Cardinality(BehindIn(v)) <= lagging[v]
      BY <1>4, <2>1 DEF PassVerdict
    <3>3. 2 * Cardinality(BehindIn(v)) <= Len(chain_ids)
      BY <1>8, <1>9, <3>1, <3>2
    <3>4. QED BY <1>8, <3>3
  <2>4. /\ \A i \in Asked : \A v, w \in Validators :
             first[chain_ids[i]][v] - held[chain_ids[i]][w] < BigDiff
        /\ \A i \in Asked : \A v \in Validators :
             first[chain_ids[i]][v] > 0 =>
               now - Stamp(chain_ids[i], held[chain_ids[i]][v]) <= StaleAge
    BY <2>2 DEF CloseAt, FreshAt
  <2>5. ~unanswered
    BY <1>2, <2>1
  <2>6. Asked' = Asked
    BY <1>3 DEF Asked
  <2>7. \A v : {i \in Asked : AlwaysBehind(i, v)}' = {i \in Asked : AlwaysBehind(i, v)}
    BY <1>2, <2>6, VerdictStands
  <2>8. \A c, h : Stamp(c, h)' = Stamp(c, h)
    BY <1>3 DEF Stamp
  <2>9. \A v \in Validators :
          (2 * Cardinality({i \in Asked : AlwaysBehind(i, v)}) <= Len(chain_ids))'
    BY <1>3, <2>3, <2>7
  <2>10. HealthyMeansClose'
    BY <1>2, <1>3, <2>4, <2>5, <2>6, <2>8, <2>9 DEF HealthyMeansClose
  <2>11. IssuesAreReal'
    BY <2>1 DEF IssuesAreReal
  <2>12. QED BY <1>1, <1>2, <1>3, <2>1, <2>10, <2>11 DEF VerdictInv, Passing
<1>12. CASE issues_found'
  <2>1. verdict' = "issues"
    BY <1>2, <1>12
  <2>2. HealthyMeansClose'
    BY <2>1 DEF HealthyMeansClose
  <2>3. \/ unanswered
        \/ \E i \in Asked : ApartAt(i) \/ OldAt(i)
        \/ \E v \in Validators : 2 * Cardinality(ReceivesIn(v)) > Len(chain_ids)
    <3>1. CASE issues_found
      BY <1>4, <1>6, <3>1 DEF PassVerdict
    <3>2. CASE ~issues_found
      <4>1. PICK v \in Validators : lagging[v] > Len(chain_ids) \div 2
        BY <1>2, <1>12, <3>2
      <4>2. lagging[v] <= Cardinality(ReceivesIn(v))
        BY <1>4 DEF PassVerdict
      <4>3. QED BY <1>8, <1>9, <4>1, <4>2
    <3>3. QED BY <3>1, <3>2
  <2>4. \/ unanswered
        \/ \E i \in Asked : \E v \in Validators :
             \/ Len(blocks[chain_ids[i]]) - first[chain_ids[i]][v] >= BigDiff
             \/ \E h \in first[chain_ids[i]][v]..Len(blocks[chain_ids[i]]) :
                  h > 0 /\ now - Stamp(chain_ids[i], h) > StaleAge
        \/ \E v \in Validators :
             2 * Cardinality({i \in Asked : first[chain_ids[i]][v] < Len(blocks[chain_ids[i]])})
               > Len(chain_ids)
    BY <1>8, <2>3 DEF ApartAt, OldAt
  <2>5. IssuesAreReal'
    BY <1>2, <1>3, <2>4 DEF IssuesAreReal, Asked, Stamp
  <2>6. QED BY <1>1, <1>2, <1>3, <2>1, <2>2, <2>5 DEF VerdictInv, Passing
<1>13. QED BY <1>11, <1>12

(* The consistency check says nothing of the monitor.                       *)
LEMMA VerdictCompare ==
  ASSUME VerdictInv, Compare
  PROVE  VerdictInv'
<1>1. MonitorInv'
  BY MonitorStep DEF VerdictInv, MonitorNext
<1>2. /\ UNCHANGED <<networkVars, passVars>>
      /\ program = "consistency" /\ program' = program
      /\ verdict' \in {"nothing to compare", "agree", "inconsistent"}
  BY DEF Compare, Assessing, Ongoing
<1>3. Timely'
  BY <1>2, VerdictStands DEF VerdictInv
<1>4. HealthyMeansClose' /\ IssuesAreReal'
  BY <1>2 DEF HealthyMeansClose, IssuesAreReal
<1>5. QED BY <1>1, <1>2, <1>3, <1>4 DEF VerdictInv, Passing

LEMMA VerdictStutter ==
  ASSUME VerdictInv, UNCHANGED monitorVars
  PROVE  VerdictInv'
<1>1. MonitorInv'
  BY MonitorStep DEF VerdictInv
<1>2. /\ UNCHANGED <<networkVars, passVars>>
      /\ blocks' = blocks /\ held' = held /\ first' = first
      /\ chain_ids' = chain_ids /\ now' = now
      /\ program' = program /\ chain' = chain /\ validator' = validator /\ infos' = infos
      /\ unanswered' = unanswered /\ lagging' = lagging /\ issues_found' = issues_found
      /\ verdict' = verdict
  BY DEF monitorVars, networkVars, passVars
<1>3. Timely'
  BY <1>2, VerdictStands DEF VerdictInv
<1>4. HealthyMeansClose' /\ IssuesAreReal'
  <2>1. Asked' = Asked /\ \A c, h : Stamp(c, h)' = Stamp(c, h)
    BY <1>2 DEF Asked, Stamp
  <2>2. \A v : {i \in Asked : AlwaysBehind(i, v)}' = {i \in Asked : AlwaysBehind(i, v)}
    BY <1>2, <2>1, VerdictStands
  <2>3. HealthyMeansClose'
    BY <1>2, <2>1, <2>2 DEF VerdictInv, HealthyMeansClose
  <2>4. IssuesAreReal'
    BY <1>2, <2>1 DEF VerdictInv, IssuesAreReal
  <2>5. QED BY <2>3, <2>4
<1>5. ASSUME Passing PROVE (PassTypes /\ PassAnswers /\ PassVerdict)'
  <2>1. PassTypes /\ PassAnswers /\ PassVerdict
    BY <1>5 DEF VerdictInv
  <2>2. PassTypes'
    BY <1>2, <2>1 DEF PassTypes
  <2>3. PassAnswers'
    BY <1>2, <2>1 DEF PassAnswers, TrueHeight, Stamp
  <2>4. Assessed' = Assessed /\ \A v : BehindIn(v)' = BehindIn(v) /\ ReceivesIn(v)' = ReceivesIn(v)
    BY <1>2, VerdictStands DEF Assessed, BehindIn, ReceivesIn
  <2>5. PassVerdict'
    BY <1>2, <2>1, <2>4, VerdictStands DEF PassVerdict
  <2>6. QED BY <2>2, <2>3, <2>5
<1>6. QED BY <1>1, <1>2, <1>3, <1>4, <1>5 DEF VerdictInv, Passing

LEMMA VerdictStep ==
  ASSUME VerdictInv, [MonitorNext]_monitorVars
  PROVE  VerdictInv'
<1>1. CASE Network
  BY <1>1, VerdictNetwork
<1>2. CASE Monitor \/ CheckConsistency
  BY <1>2, VerdictBegin
<1>3. CASE Answered \/ NotAnswered
  BY <1>3, VerdictQuery
<1>4. CASE Assess
  BY <1>4, VerdictAssess
<1>5. CASE Report
  BY <1>5, VerdictReport
<1>6. CASE Compare
  BY <1>6, VerdictCompare
<1>7. CASE UNCHANGED monitorVars
  BY <1>7, VerdictStutter
<1>8. QED BY <1>1, <1>2, <1>3, <1>4, <1>5, <1>6, <1>7 DEF MonitorNext

(* Chains that monitor_chains calls healthy are closer than the threshold,  *)
(* were fresh when it started, and all validators have answered and have    *)
(* kept up on half of the chains at least, whatever was made meanwhile.     *)
THEOREM HealthIsReal == MonitorSpec => []HealthyMeansClose
<1>1. VerdictInv => HealthyMeansClose
  BY DEF VerdictInv
<1>2. QED BY <1>1, VerdictInitInv, VerdictStep, PTL DEF MonitorSpec

(* Issues that monitor_chains finds have a reason in the chains, in the age *)
(* of their blocks, or in an answer that is missing.                        *)
THEOREM IssuesHaveReasons == MonitorSpec => []IssuesAreReal
<1>1. VerdictInv => IssuesAreReal
  BY DEF VerdictInv
<1>2. QED BY <1>1, VerdictInitInv, VerdictStep, PTL DEF MonitorSpec

-----------------------------------------------------------------------------
(* The native fungible application.                                         *)

(* Chains that have the application, or that are third to a claim.          *)
Served == deployed \cup elsewhere

(* A Credit brings the application along or goes where it is, and so does   *)
(* its return: its payer is served.                                         *)
CreditServed(b, served) ==
  b.system.type = "Credit" =>
    /\ b.notify \/ b.to \in served
    /\ b.system.from.chain \in served

(* A Withdraw brings the application to the payer, and the tokens may go on *)
(* to a chain that is served.                                               *)
WithdrawServed(b, served) ==
  b.system.type = "Withdraw" =>
    /\ b.notify
    /\ b.system.from.chain = b.to
    /\ b.system.to.chain \in served \cup {b.to}

BundlesServed(all, served) == \A b \in all : CreditServed(b, served) /\ WithdrawServed(b, served)

NativeInv == credited \subseteq Served /\ BundlesServed(bundles, Served)

-----------------------------------------------------------------------------

(* More chains that are served leave the bundles served.                    *)
LEMMA ServedGrows ==
  ASSUME NEW all, NEW served, NEW more, BundlesServed(all, served), served \subseteq more
  PROVE  BundlesServed(all, more)
BY DEF BundlesServed, CreditServed, WithdrawServed

(* A transfer within a chain sends nothing, another one sends one Credit.   *)
LEMMA MoveServed ==
  ASSUME NEW amount, NEW from, NEW to, Move(amount, from, to, TRUE),
         NEW served, from.chain \in served, BundlesServed(bundles, served)
  PROVE  BundlesServed(bundles', served)
<1>1. CASE to.chain = from.chain
  BY <1>1 DEF Move
<1>2. CASE to.chain # from.chain
  <2> DEFINE b == Bundle(to.chain, Credit(amount, from, to), TRUE)
  <2>1. bundles' = bundles \cup {b}
    BY <1>2 DEF Move, Send
  <2>2. CreditServed(b, served) /\ WithdrawServed(b, served)
    BY DEF CreditServed, WithdrawServed, Bundle, Credit
  <2>3. QED BY <2>1, <2>2 DEF BundlesServed
<1>3. QED BY <1>1, <1>2

(* A transfer leaves a served chain with the application.                   *)
LEMMA TransferServed ==
  ASSUME NativeInv, NEW here, NEW o, NEW amount, NEW target,
         TransferNative(here, o, amount, target)
  PROVE  NativeInv'
<1>1. /\ deployed' = deployed \cup {here} /\ credited' = credited /\ elsewhere' = elsewhere
      /\ Move(amount, Account(here, o), target, TRUE)
  BY DEF TransferNative
<1>2. Served \subseteq Served' /\ here \in Served'
  BY <1>1 DEF Served
<1>3. BundlesServed(bundles, Served')
  BY <1>2, ServedGrows DEF NativeInv
<1>4. Account(here, o).chain = here
  BY DEF Account
<1>5. BundlesServed(bundles', Served')
  BY <1>1, <1>2, <1>3, <1>4, MoveServed
<1>6. QED BY <1>1, <1>2, <1>5 DEF NativeInv

(* The payer of a claim is served by the block of the claim, or by the      *)
(* Notify that comes with the Withdraw.                                     *)
LEMMA ClaimServed ==
  ASSUME NativeInv, NEW here, NEW source, NEW amount, NEW target,
         ClaimNative(here, source, amount, target)
  PROVE  NativeInv'
<1>1. deployed' = deployed \cup {here} /\ credited' = credited
  BY DEF ClaimNative
<1>2. CASE source.chain = here
  <2>1. elsewhere' = elsewhere /\ Move(amount, source, target, TRUE)
    BY <1>2 DEF ClaimNative
  <2>2. Served \subseteq Served' /\ here \in Served'
    BY <1>1, <2>1 DEF Served
  <2>3. BundlesServed(bundles, Served')
    BY <2>2, ServedGrows DEF NativeInv
  <2>4. BundlesServed(bundles', Served')
    BY <1>2, <2>1, <2>2, <2>3, MoveServed
  <2>5. QED BY <1>1, <2>2, <2>4 DEF NativeInv
<1>3. CASE source.chain # here
  <2> DEFINE b == Bundle(source.chain, WithdrawFrom(amount, source, target), TRUE)
  <2>1. /\ elsewhere' = elsewhere \cup ({target.chain} \ {here, source.chain})
        /\ bundles' = bundles \cup {b}
    BY <1>3 DEF ClaimNative, ClaimRemotely, Send
  <2>2. Served \subseteq Served' /\ target.chain \in Served' \cup {source.chain}
    BY <1>1, <2>1 DEF Served
  <2>3. BundlesServed(bundles, Served')
    BY <2>2, ServedGrows DEF NativeInv
  <2>4. CreditServed(b, Served') /\ WithdrawServed(b, Served')
    BY <2>2 DEF CreditServed, WithdrawServed, Bundle, WithdrawFrom
  <2>5. BundlesServed(bundles', Served')
    BY <2>1, <2>3, <2>4 DEF BundlesServed
  <2>6. QED BY <1>1, <2>2, <2>5 DEF NativeInv
<1>4. QED BY <1>2, <1>3

(* Whatever arrives, with or without a Notify, deploys no less.             *)
LEMMA ArriveServed ==
  ASSUME NEW b, Arrive(b), elsewhere' = elsewhere
  PROVE  Served \subseteq Served' /\ (b.notify => b.to \in Served')
BY DEF Arrive, Served

(* A Credit credits a chain that is served, with its Notify or without.     *)
LEMMA ReceiveCreditServed ==
  ASSUME NativeInv, NEW b \in bundles, ReceiveCredit(b)
  PROVE  NativeInv'
<1>1. /\ Arrive(b) /\ elsewhere' = elsewhere
      /\ bundles' = bundles \ {b} /\ credited' = credited \cup {b.to}
      /\ b.system.type = "Credit"
  BY DEF ReceiveCredit
<1>2. Served \subseteq Served' /\ (b.notify => b.to \in Served')
  BY <1>1, ArriveServed
<1>3. b.notify \/ b.to \in Served
  BY <1>1 DEF NativeInv, BundlesServed, CreditServed
<1>4. BundlesServed(bundles, Served')
  BY <1>2, ServedGrows DEF NativeInv
<1>5. BundlesServed(bundles', Served')
  BY <1>1, <1>4 DEF BundlesServed
<1>6. QED BY <1>1, <1>2, <1>3, <1>5 DEF NativeInv

(* A return goes to the payer, which is served.                             *)
LEMMA RejectCreditServed ==
  ASSUME NativeInv, NEW b \in bundles, RejectCredit(b)
  PROVE  NativeInv'
<1> DEFINE returned == Bundle(Return(b.system).to.chain, Return(b.system), FALSE)
<1>1. /\ bundles' = (bundles \ {b}) \cup {returned}
      /\ b.system.type = "Credit"
      /\ Served' = Served /\ credited' = credited
  BY DEF RejectCredit, Served
<1>2. b.system.from.chain \in Served
  BY <1>1 DEF NativeInv, BundlesServed, CreditServed
<1>3. CreditServed(returned, Served) /\ WithdrawServed(returned, Served)
  BY <1>2 DEF CreditServed, WithdrawServed, Bundle, Return, Credit
<1>4. BundlesServed(bundles', Served)
  BY <1>1, <1>3 DEF NativeInv, BundlesServed
<1>5. QED BY <1>1, <1>4 DEF NativeInv

(* The tokens go on to a chain that is served, without a Notify.            *)
LEMMA ReceiveWithdrawServed ==
  ASSUME NativeInv, NEW b \in bundles, ReceiveWithdraw(b)
  PROVE  NativeInv'
<1> DEFINE s == b.system
           onward == Bundle(s.to.chain, Credit(s.amount, s.from, s.to), FALSE)
<1>1. Arrive(b) /\ elsewhere' = elsewhere /\ credited' = credited /\ s.type = "Withdraw"
  BY DEF ReceiveWithdraw
<1>2. b.notify /\ s.from.chain = b.to /\ s.to.chain \in Served \cup {b.to}
  BY <1>1 DEF NativeInv, BundlesServed, WithdrawServed
<1>3. Served \subseteq Served' /\ b.to \in Served'
  BY <1>1, <1>2, ArriveServed
<1>4. BundlesServed(bundles, Served')
  BY <1>3, ServedGrows DEF NativeInv
<1>5. bundles' \subseteq bundles \cup {onward}
  BY DEF ReceiveWithdraw
<1>6. CreditServed(onward, Served') /\ WithdrawServed(onward, Served')
  BY <1>2, <1>3 DEF CreditServed, WithdrawServed, Bundle, Credit
<1>7. BundlesServed(bundles', Served')
  BY <1>4, <1>5, <1>6 DEF BundlesServed
<1>8. QED BY <1>1, <1>3, <1>7 DEF NativeInv

(* A Withdraw that is rejected leaves nothing under way.                    *)
LEMMA RejectWithdrawServed ==
  ASSUME NativeInv, NEW b \in bundles, RejectWithdraw(b)
  PROVE  NativeInv'
<1>1. bundles' \subseteq bundles /\ credited' = credited /\ Served' = Served
  BY DEF RejectWithdraw, Served
<1>2. QED BY <1>1 DEF NativeInv, BundlesServed

(* Every step keeps the invariant.                                          *)
LEMMA NativeStep == NativeInv /\ [NativeNext]_nativeVars => NativeInv'
<1> SUFFICES ASSUME NativeInv, [NativeNext]_nativeVars PROVE NativeInv'
  OBVIOUS
<1>1. CASE Operate
  <2>1. PICK here \in NativeChains, c, d \in NativeChains, o, p \in NativeOwners,
              amount \in NativeAmounts :
          \/ TransferNative(here, o, amount, Account(d, p))
          \/ ClaimNative(here, Account(c, o), amount, Account(d, p))
    BY <1>1 DEF Operate
  <2>2. QED BY <2>1, TransferServed, ClaimServed
<1>2. ASSUME NEW b \in bundles, ReceiveCredit(b) PROVE NativeInv'
  BY <1>2, ReceiveCreditServed
<1>3. ASSUME NEW b \in bundles, RejectCredit(b) PROVE NativeInv'
  BY <1>3, RejectCreditServed
<1>4. ASSUME NEW b \in bundles, ReceiveWithdraw(b) PROVE NativeInv'
  BY <1>4, ReceiveWithdrawServed
<1>5. ASSUME NEW b \in bundles, RejectWithdraw(b) PROVE NativeInv'
  BY <1>5, RejectWithdrawServed
<1>6. CASE UNCHANGED nativeVars
  BY <1>6 DEF nativeVars, NativeInv, Served
<1>7. QED BY <1>1, <1>2, <1>3, <1>4, <1>5, <1>6 DEF NativeNext

(* A chain that has received tokens of the application, in a transfer, a    *)
(* claim or a return, has the application too, unless a claim made on       *)
(* another chain sent them to it from a third one.                          *)
THEOREM AlwaysDeployedWhereCredited == NativeSpec => []DeployedWhereCredited
<1>1. NativeInit => NativeInv
  BY DEF NativeInit, NativeInv, BundlesServed, Served
<1>2. NativeInv => DeployedWhereCredited
  BY DEF NativeInv, DeployedWhereCredited, Served
<1>3. QED BY <1>1, <1>2, NativeStep, PTL DEF NativeSpec

-----------------------------------------------------------------------------
(* The counters.                                                            *)

CounterTypes ==
  /\ kind \in [Applications -> {NoKind, "counter", "memory counter", "counter-no-state"}]
  /\ storage \in [Applications -> CounterValues \cup {EmptyStorage, NoCounter}]
  /\ asked \in [Applications -> BOOLEAN]

(* What is saved is what something has asked to save.                       *)
Saved(a) ==
  IF kind[a] = NoKind THEN ~asked[a]
  ELSE storage[a] \in IF asked[a] THEN CounterValues ELSE {EmptyStorage}

(* The counter of the transaction and its instance, before each step.       *)
Called ==
  LET a == creation.app IN
  /\ creation \in [step : 1..6, app : Applications, value : CounterValues, do_save : BOOLEAN]
  /\ kind[a] = "counter-no-state"
  /\ creation.step <= 3 => ~asked[a]
  /\ creation.step <= 2 => instance = NoInstance
  /\ creation.step = 3 => instance = 0
  /\ creation.step >= 4 =>
       /\ instance = creation.value /\ asked[a] = creation.do_save
       /\ creation.do_save => storage[a] = creation.value

(* The test expects of the counter it has created what it has asked for.    *)
Expects ==
  expected # "nothing" => app_id # 0 /\ (expected = "trivial" <=> ~asked[app_id])

CountersInv ==
  /\ CounterTypes
  /\ ~panicked
  /\ \A a \in Applications : Saved(a)
  /\ app_id # 0 => app_id \in Applications /\ kind[app_id] # NoKind
  /\ Expects
  /\ creation # NoCall => Called /\ expected = "nothing"

(* Increments stay in the range, and increments of zero below it change     *)
(* nothing.                                                                 *)
LEMMA IncreasedType ==
  ASSUME NEW old \in CounterValues, NEW value \in CounterValues
  PROVE  Increased(old, value) \in CounterValues /\ Increased(0, value) = value
<1>1. Modulus \in Nat \ {0} /\ old \in 0..(Modulus - 1) /\ value \in 0..(Modulus - 1)
  BY CountersAssumption DEF CounterValues
<1>2. (old + value) % Modulus \in 0..(Modulus - 1)
  BY <1>1
<1>3. (0 + value) % Modulus = value
  BY <1>1
<1>4. QED BY <1>2, <1>3 DEF Increased, CounterValues

(* What is loaded is a value, or zero.                                      *)
LEMMA LoadType ==
  ASSUME CountersInv, NEW a \in Applications, kind[a] # NoKind
  PROVE  Load(a) \in CounterValues /\ (~asked[a] => Load(a) = 0)
<1>1. 0 \in CounterValues
  BY CountersAssumption DEF CounterValues
<1>2. EmptyStorage \notin CounterValues
  BY DEF EmptyStorage, CounterValues
<1>3. QED BY <1>1, <1>2 DEF CountersInv, Saved, Load

(* An empty storage is one that nothing has asked to save.                  *)
LEMMA EmptyUntilAsked ==
  ASSUME CountersInv, NEW a \in Applications, kind[a] # NoKind
  PROVE  HasEmptyStorage(a) <=> ~asked[a]
<1>1. EmptyStorage \notin CounterValues /\ NoCounter \notin CounterValues
  BY DEF EmptyStorage, NoCounter, CounterValues
<1>2. QED BY <1>1 DEF CountersInv, Saved, HasEmptyStorage

(* No counter at first.                                                     *)
LEMMA CountersInitInv == CountersInit => CountersInv
BY DEF CountersInit, CountersInv, CounterTypes, Saved, Expects

(* Operations of the other counters.                                        *)
LEMMA CounterOperations ==
  ASSUME CountersInv,
         \/ CreateCounter
         \/ \E a \in Applications, value \in Amounts, do_save \in BOOLEAN :
              Increment(a, value, do_save)
  PROVE  CountersInv'
<1>1. CASE CreateCounter
  <2>1. PICK a \in Applications, k \in {"counter", "memory counter"} :
          /\ kind[a] = NoKind /\ kind' = [kind EXCEPT ![a] = k]
          /\ Free /\ UNCHANGED <<app_id, creation, instance, panicked, expected>>
          /\ \/ \E value \in Amounts :
                  /\ storage' = [storage EXCEPT ![a] = value]
                  /\ asked' = [asked EXCEPT ![a] = TRUE]
             \/ storage' = [storage EXCEPT ![a] = EmptyStorage] /\ asked' = asked
    BY <1>1 DEF CreateCounter, Create
  <2>2. k # NoKind /\ ~asked[a]
    BY <2>1 DEF NoKind, CountersInv, Saved
  <2>3. CounterTypes'
    BY <2>1, CountersAssumption DEF CountersInv, CounterTypes
  <2>4. \A b \in Applications : Saved(b)'
    BY <2>1, <2>2, CountersAssumption DEF CountersInv, CounterTypes, Saved
  <2>5. app_id' # 0 => app_id' \in Applications /\ kind'[app_id'] # NoKind
    BY <2>1, <2>2 DEF CountersInv, CounterTypes
  <2>6. QED BY <2>1, <2>3, <2>4, <2>5 DEF CountersInv, Expects, Free
<1>2. ASSUME NEW a \in Applications, NEW value \in Amounts, NEW do_save \in BOOLEAN,
             Increment(a, value, do_save)
      PROVE  CountersInv'
  <2>1. Increased(Load(a), value) \in CounterValues
    BY <1>2, LoadType, IncreasedType, CountersAssumption DEF Increment
  <2>2. Expects' /\ creation' = NoCall
    BY <1>2 DEF Increment, Free, Expects
  <2>3. QED BY <1>2, <2>1, <2>2 DEF Increment, CountersInv, CounterTypes, Saved
<1>3. QED BY <1>1, <1>2

(* CreateAndCall: every claim holds, so the transaction goes on.            *)
LEMMA CreateAndCallSteps ==
  ASSUME CountersInv,
         \/ \E value \in Amounts, do_save \in BOOLEAN : CreateAndCall(value, do_save)
         \/ AssertTrivial \/ QueryBefore \/ CallIncrement \/ QueryAfter \/ AssertSaved
         \/ StoreAll
  PROVE  CountersInv'
<1>1. ASSUME NEW value \in Amounts, NEW do_save \in BOOLEAN, CreateAndCall(value, do_save)
      PROVE  CountersInv'
  <2>1. PICK a \in Applications :
          /\ kind[a] = NoKind /\ kind' = [kind EXCEPT ![a] = "counter-no-state"]
          /\ storage' = [storage EXCEPT ![a] = EmptyStorage] /\ instance' = NoInstance
          /\ creation' = [step |-> 1, app |-> a, value |-> value, do_save |-> do_save]
          /\ Free /\ UNCHANGED <<app_id, panicked, expected, asked>>
    BY <1>1 DEF CreateAndCall, Create
  <2>2. ~asked[a] /\ NoKind # "counter-no-state" /\ value \in CounterValues
    BY <2>1, CountersAssumption DEF NoKind, CountersInv, Saved
  <2>3. CounterTypes'
    BY <2>1 DEF CountersInv, CounterTypes
  <2>4. \A b \in Applications : Saved(b)'
    BY <2>1, <2>2 DEF CountersInv, CounterTypes, Saved
  <2>5. app_id' # 0 => app_id' \in Applications /\ kind'[app_id'] # NoKind
    BY <2>1, <2>2 DEF CountersInv, CounterTypes
  <2>6. Called'
    <3>1. creation' \in [step : 1..6, app : Applications, value : CounterValues, do_save : BOOLEAN]
          /\ creation'.step = 1 /\ creation'.app = a
      BY <2>1, <2>2
    <3>2. kind'[a] = "counter-no-state" /\ ~asked'[a] /\ instance' = NoInstance
      BY <2>1, <2>2 DEF CountersInv, CounterTypes
    <3>3. QED BY <3>1, <3>2 DEF Called
  <2>7. QED BY <2>1, <2>3, <2>4, <2>5, <2>6 DEF CountersInv, Expects, Free
<1> DEFINE a == creation.app
<1>2. ASSUME creation # NoCall
      PROVE  /\ a \in Applications /\ kind[a] = "counter-no-state" /\ kind[a] # NoKind
             /\ HasEmptyStorage(a) <=> ~asked[a]
             /\ Load(a) \in CounterValues /\ (~asked[a] => Load(a) = 0)
             /\ \A value \in CounterValues : Increased(0, value) = value
  BY <1>2, LoadType, EmptyUntilAsked, IncreasedType DEF CountersInv, Called, NoKind
<1>3. ASSUME NEW n \in 1..6, creation.step = n PROVE creation # NoCall /\ Called /\ expected = "nothing"
  BY <1>3 DEF NoCall, CountersInv
<1>4. ASSUME creation # NoCall, NextCall, creation.step \in 1..5
      PROVE  /\ creation' \in [step : 1..6, app : Applications, value : CounterValues,
                               do_save : BOOLEAN]
             /\ creation'.app = creation.app /\ creation'.value = creation.value
             /\ creation'.do_save = creation.do_save /\ creation'.step = creation.step + 1
  BY <1>4 DEF NextCall, CountersInv, Called
<1>5. CASE AssertTrivial
  <2>1. creation.step = 1 /\ creation # NoCall /\ Called /\ expected = "nothing"
    BY <1>3, <1>5 DEF AssertTrivial
  <2>2. HasEmptyStorage(a) /\ HasEmptyStorage(AppIdNotExist)
    BY <1>2, <2>1 DEF Called, HasEmptyStorage, AppIdNotExist, Applications
  <2>3. NextCall /\ UNCHANGED <<kind, storage, asked, panicked, app_id, instance, expected>>
    BY <1>5, <2>2 DEF AssertTrivial, Claim
  <2>4. Called'
    BY <1>4, <2>1, <2>3 DEF Called
  <2>5. QED BY <2>1, <2>3, <2>4 DEF CountersInv, CounterTypes, Saved, Expects
<1>6. CASE QueryBefore
  <2>1. creation.step = 2 /\ creation # NoCall /\ Called /\ expected = "nothing"
    BY <1>3, <1>6 DEF QueryBefore
  <2>2. Instance(a) = 0 /\ Load(a) = 0
    BY <1>2, <2>1 DEF Called, Instance
  <2>3. NextCall /\ UNCHANGED <<kind, storage, asked, panicked, app_id, expected>> /\ instance' = 0
    BY <1>6, <2>2 DEF QueryBefore, Claim
  <2>4. Called'
    BY <1>4, <2>1, <2>3 DEF Called
  <2>5. QED BY <2>1, <2>3, <2>4 DEF CountersInv, CounterTypes, Saved, Expects
<1>7. CASE CallIncrement
  <2>1. creation.step = 3 /\ creation # NoCall /\ Called /\ expected = "nothing"
    BY <1>3, <1>7 DEF CallIncrement
  <2>2. instance = 0 /\ 0 # NoInstance
    BY <2>1 DEF Called, NoInstance
  <2>3. Increased(Instance(a), creation.value) = creation.value
    BY <1>2, <2>1, <2>2 DEF Called, Instance
  <2>4. /\ NextCall /\ UNCHANGED <<kind, panicked, app_id, expected>> /\ instance' = creation.value
        /\ storage' = IF creation.do_save THEN [storage EXCEPT ![a] = creation.value] ELSE storage
        /\ asked' = [asked EXCEPT ![a] = creation.do_save]
    BY <1>7, <2>3 DEF CallIncrement
  <2>5. a \in Applications /\ creation.value \in CounterValues /\ creation.do_save \in BOOLEAN
        /\ kind[a] # NoKind /\ ~asked[a]
    BY <1>2, <2>1 DEF Called
  <2>6. Called'
    <3>1. /\ creation'.app = a /\ creation'.value = creation.value
          /\ creation'.do_save = creation.do_save /\ creation'.step = 4
          /\ creation' \in [step : 1..6, app : Applications, value : CounterValues,
                             do_save : BOOLEAN]
      BY <1>4, <2>1, <2>4
    <3>2. kind'[a] = "counter-no-state" /\ asked'[a] = creation.do_save
          /\ (creation.do_save => storage'[a] = creation.value)
      BY <2>1, <2>4, <2>5 DEF Called, CountersInv, CounterTypes
    <3>3. QED BY <2>4, <3>1, <3>2 DEF Called
  <2>7. CounterTypes'
    BY <2>4, <2>5 DEF CountersInv, CounterTypes
  <2>8. \A b \in Applications : Saved(b)'
    BY <2>4, <2>5 DEF CountersInv, CounterTypes, Saved
  <2>9. QED BY <2>1, <2>4, <2>5, <2>6, <2>7, <2>8 DEF CountersInv, Expects
<1>8. CASE QueryAfter
  <2>1. creation.step = 4 /\ creation # NoCall /\ Called /\ expected = "nothing"
    BY <1>3, <1>8 DEF QueryAfter
  <2>2. Instance(a) = creation.value
    BY <2>1, CountersAssumption DEF Called, Instance, CounterValues, NoInstance
  <2>3. Load(a) = IF creation.do_save THEN creation.value ELSE 0
    <3>1. creation.value # EmptyStorage
      BY <2>1, CountersAssumption DEF Called, CounterValues, EmptyStorage
    <3>2. QED BY <1>2, <2>1, <3>1 DEF Called, Load
  <2>4. NextCall /\ UNCHANGED <<kind, storage, asked, panicked, app_id, instance, expected>>
    BY <1>8, <2>2, <2>3 DEF QueryAfter, Claim
  <2>5. Called'
    BY <1>4, <2>1, <2>4 DEF Called
  <2>6. QED BY <2>1, <2>4, <2>5 DEF CountersInv, CounterTypes, Saved, Expects
<1>9. CASE AssertSaved
  <2>1. creation.step = 5 /\ creation # NoCall /\ Called /\ expected = "nothing"
    BY <1>3, <1>9 DEF AssertSaved
  <2>2. HasEmptyStorage(a) = ~creation.do_save
    BY <1>2, <2>1 DEF Called, HasEmptyStorage
  <2>3. NextCall /\ UNCHANGED <<kind, storage, asked, panicked, app_id, instance, expected>>
    BY <1>9, <2>2 DEF AssertSaved, Claim
  <2>4. Called'
    BY <1>4, <2>1, <2>3 DEF Called
  <2>5. QED BY <2>1, <2>3, <2>4 DEF CountersInv, CounterTypes, Saved, Expects
<1>10. CASE StoreAll
  <2>1. /\ creation # NoCall /\ a \in Applications /\ kind[a] # NoKind
        /\ asked[a] = creation.do_save /\ creation.do_save \in BOOLEAN /\ a # 0
    <3>1. creation.step = 6
      BY <1>10 DEF StoreAll
    <3>2. creation # NoCall /\ Called
      BY <1>3, <3>1
    <3>3. QED BY <1>2, <3>1, <3>2 DEF Called, Applications
  <2>2. /\ app_id' = a /\ creation' = NoCall
        /\ expected' = IF creation.do_save THEN "not trivial" ELSE "trivial"
        /\ UNCHANGED <<kind, storage, panicked, asked>>
    BY <1>10 DEF StoreAll
  <2>3. Expects'
    BY <2>1, <2>2 DEF Expects
  <2>4. QED BY <2>1, <2>2, <2>3 DEF CountersInv, CounterTypes, Saved
<1>11. QED BY <1>1, <1>5, <1>6, <1>7, <1>8, <1>9, <1>10

(* Every step keeps the counters' invariant.                                *)
LEMMA CountersStep == CountersInv /\ [CountersNext]_countersVars => CountersInv'
<1> SUFFICES ASSUME CountersInv, [CountersNext]_countersVars PROVE CountersInv'
  OBVIOUS
<1>1. CASE TestTrivialState
  <2>1. /\ expected # "nothing" /\ expected' = "nothing" /\ creation = NoCall
        /\ UNCHANGED <<kind, storage, app_id, creation, instance, asked>>
        /\ panicked' = (panicked \/ HasEmptyStorage(app_id) # (expected = "trivial"))
    BY <1>1 DEF TestTrivialState
  <2>2. HasEmptyStorage(app_id) <=> expected = "trivial"
    BY <2>1, EmptyUntilAsked DEF CountersInv, Expects
  <2>3. ~panicked'
    BY <2>1, <2>2 DEF CountersInv, HasEmptyStorage
  <2>4. QED BY <2>1, <2>3 DEF CountersInv, CounterTypes, Saved, Expects
<1>2. CASE UNCHANGED countersVars
  BY <1>2 DEF countersVars, CountersInv, CounterTypes, Saved, Called, Expects
<1>3. QED BY <1>1, <1>2, CounterOperations, CreateAndCallSteps DEF CountersNext

(* A counter is saved exactly when something has asked for it, and no       *)
(* assertion of state-triviality fails, for any number of counters, whatever*)
(* they are incremented by.                                                 *)
THEOREM SavesAsAsked == CountersSpec => []SavesDecide
<1>1. CountersInv => SavesDecide
  BY EmptyUntilAsked DEF CountersInv, SavesDecide
<1>2. QED BY <1>1, CountersInitInv, CountersStep, PTL DEF CountersSpec

-----------------------------------------------------------------------------
(* Authorizations by signature.                                             *)

(* The nonces below the next one are spent, each on one signature.          *)
NoncesSpent(u) ==
  /\ \A n \in 0..(nonce[u] - 1) : \E a \in UsedBy(u) : a.nonce = n
  /\ \A a \in UsedBy(u) : a.nonce \in 0..(nonce[u] - 1)
  /\ Cardinality(UsedBy(u)) = nonce[u]

GrantedOnly ==
  isAuthorized \subseteq granted \cup {Pair(a) : a \in {b \in used : b.isAuthorized}}

SignaturesInv ==
  /\ nonce \in [Signers -> Nat]
  /\ IsFiniteSet(used) /\ used \subseteq signed /\ signed \subseteq Authorization
  /\ \A u \in Signers : NoncesSpent(u)
  /\ GrantedOnly

(* Nothing is signed at first.                                              *)
LEMMA AdminInitInv == AdminInit => SignaturesInv
<1> SUFFICES ASSUME AdminInit PROVE SignaturesInv
  OBVIOUS
<1>1. nonce = [u \in Signers |-> 0] /\ signed = {} /\ used = {} /\ isAuthorized = {}
  BY DEF AdminInit, Init
<1>2. \A u \in Signers : UsedBy(u) = {} /\ nonce[u] = 0
  BY <1>1 DEF UsedBy
<1>3. \A u \in Signers : NoncesSpent(u)
  BY <1>2, FS_EmptySet DEF NoncesSpent
<1>4. QED BY <1>1, <1>3, FS_EmptySet DEF SignaturesInv, GrantedOnly

(* A signature is used: it is the first with its nonce.                     *)
LEMMA SignatureStep ==
  ASSUME SignaturesInv, NEW a \in signed, SetAuthorizationWithSig(a)
  PROVE  SignaturesInv'
<1> DEFINE u == a.authorizer
<1>1. /\ a.nonce = nonce[u] /\ nonce' = [nonce EXCEPT ![u] = nonce[u] + 1]
      /\ isAuthorized' = IF a.isAuthorized THEN isAuthorized \cup {Pair(a)}
                        ELSE isAuthorized \ {Pair(a)}
      /\ used' = used \cup {a} /\ signed' = signed /\ granted' = granted
  BY DEF SetAuthorizationWithSig
<1>2. u \in Signers /\ nonce[u] \in Nat /\ nonce' \in [Signers -> Nat]
  BY <1>1 DEF SignaturesInv, Authorization
<1>3. IsFiniteSet(used') /\ used' \subseteq signed
  BY <1>1, FS_AddElement DEF SignaturesInv
<1>4. a \notin UsedBy(u)
  BY <1>1, <1>2 DEF SignaturesInv, NoncesSpent
<1>5. ASSUME NEW v \in Signers PROVE NoncesSpent(v)'
  <2>1. CASE v = u
    <3>1. UsedBy(v)' = UsedBy(u) \cup {a} /\ nonce'[v] = nonce[u] + 1
      BY <1>1, <1>2, <2>1 DEF UsedBy, SignaturesInv
    <3>2. IsFiniteSet(UsedBy(u))
      BY FS_Subset DEF SignaturesInv, UsedBy
    <3>3. Cardinality(UsedBy(u) \cup {a}) = Cardinality(UsedBy(u)) + 1
      BY <1>4, <3>2, FS_AddElement
    <3>4. NoncesSpent(u)
      BY <1>2 DEF SignaturesInv
    <3>5. \A n \in 0..(nonce'[v] - 1) : n \in 0..(nonce[u] - 1) \/ n = a.nonce
      BY <1>1, <1>2, <3>1
    <3>6. \A n \in 0..(nonce[u] - 1) : n \in 0..(nonce'[v] - 1)
      BY <1>2, <3>1
    <3>7. a.nonce \in 0..(nonce'[v] - 1)
      BY <1>1, <1>2, <3>1
    <3>8. QED BY <3>1, <3>3, <3>4, <3>5, <3>6, <3>7 DEF NoncesSpent
  <2>2. CASE v # u
    <3>1. UsedBy(v)' = UsedBy(v) /\ nonce'[v] = nonce[v]
      BY <1>1, <1>2, <2>2 DEF UsedBy, SignaturesInv
    <3>2. QED BY <3>1 DEF SignaturesInv, NoncesSpent
  <2>3. QED BY <2>1, <2>2
<1>6. GrantedOnly'
  BY <1>1 DEF SignaturesInv, GrantedOnly
<1>7. QED BY <1>1, <1>2, <1>3, <1>5, <1>6 DEF SignaturesInv

(* Every other step leaves the signatures that were used alone.             *)
LEMMA SignaturesStep == SignaturesInv /\ [AdminNext]_adminVars => SignaturesInv'
<1> SUFFICES ASSUME SignaturesInv, [AdminNext]_adminVars PROVE SignaturesInv'
  OBVIOUS
<1>1. ASSUME UNCHANGED <<nonce, used>>, signed' \subseteq Authorization, signed \subseteq signed',
             GrantedOnly'
      PROVE  SignaturesInv'
  <2>1. \A u \in Signers : UsedBy(u)' = UsedBy(u)
    BY <1>1 DEF UsedBy
  <2>2. \A u \in Signers : NoncesSpent(u)'
    BY <1>1, <2>1 DEF SignaturesInv, NoncesSpent
  <2>3. QED BY <1>1, <2>2 DEF SignaturesInv
<1>2. ASSUME NEW a \in Authorization, Sign(a) PROVE SignaturesInv'
  BY <1>1, <1>2 DEF Sign, vars, SignaturesInv, GrantedOnly
<1>3. ASSUME NEW sender \in Signers, NEW authorized \in Signers,
             SetAuthorizationDirectly(sender, authorized)
      PROVE  SignaturesInv'
  <2>1. /\ isAuthorized' \subseteq isAuthorized \cup {<<sender, authorized>>}
        /\ granted' = granted \cup {<<sender, authorized>>}
        /\ UNCHANGED <<nonce, used, signed>>
    BY <1>3 DEF SetAuthorizationDirectly, SetAuthorization
  <2>2. QED BY <1>1, <2>1 DEF SignaturesInv, GrantedOnly
<1>4. CASE UNCHANGED <<isAuthorized, nonce, signed, used, granted>>
  BY <1>1, <1>4 DEF SignaturesInv, GrantedOnly
<1>5. CASE TimestampGrows \/ Administer \/ UNCHANGED adminVars
  BY <1>4, <1>5 DEF TimestampGrows, Administer, SetOwner, EnableIrm, EnableLltv, CreateMarket,
                    adminVars, signatureVars, vars
<1>6. QED BY <1>2, <1>3, <1>5, SignatureStep DEF AdminNext, Authorize

(* No signature takes effect twice, nonces are spent in order, and nobody   *)
(* is authorized but by a call or a signature of the authorizer.            *)
THEOREM EverySignatureOnce == AdminSpec => []SignaturesUsedOnce
<1>1. SignaturesInv => SignaturesUsedOnce
  <2> SUFFICES ASSUME SignaturesInv PROVE SignaturesUsedOnce
    OBVIOUS
  <2>1. ASSUME NEW u \in Signers PROVE {a.nonce : a \in UsedBy(u)} = 0..(nonce[u] - 1)
    BY DEF SignaturesInv, NoncesSpent
  <2>2. QED BY <2>1 DEF SignaturesInv, NoncesSpent, GrantedOnly, SignaturesUsedOnce
<1>2. QED BY <1>1, AdminInitInv, SignaturesStep, PTL DEF AdminSpec

-----------------------------------------------------------------------------
(* The storage benchmark.                                                   *)

WriteOf(S, k) == {i \in S : pairs[i].key = k}

(* A store holds, of every key, the value of some pair of S.                *)
HoldsSome(S, store) ==
  /\ store \in [Keys -> Values \cup {Absent}]
  /\ \A k \in Keys :
       IF WriteOf(S, k) = {} THEN store[k] = Absent
       ELSE \E i \in WriteOf(S, k) : store[k] = pairs[i].value

(* A store holds, of every key, the value of the last pair of S.            *)
HoldsLast(S, store) ==
  /\ store \in [Keys -> Values \cup {Absent}]
  /\ \A k \in Keys :
       IF WriteOf(S, k) = {} THEN store[k] = Absent
       ELSE \E i \in WriteOf(S, k) : store[k] = pairs[i].value /\ \A j \in WriteOf(S, k) : j <= i

Done == Indices \ pending

(* The loop goes through the pairs in order.                                *)
InOrder == \A i \in Done, j \in pending : i < j

Writing ==
  /\ way = "multi" => stores["loop"] = EmptyStore
  /\ way = "loop" => InOrder /\ HoldsLast(Done, stores["loop"])
  /\ way # "futures" => stores["futures"] = EmptyStore
  /\ way = "futures" =>
       HoldsLast(Indices, stores["loop"]) /\ HoldsSome(Done, stores["futures"])
  /\ way # "multi" \/ pending = {} => stores["multi"] = AllWritten

Reading ==
  /\ stores["multi"] = AllWritten /\ read_store = AllWritten
  /\ HoldsLast(Indices, stores["loop"]) /\ HoldsSome(Indices, stores["futures"])
  /\ \A i \in Done : answers[i] = read_store[pairs[i].key]

StorageInv ==
  /\ pending \subseteq Indices /\ way \in Ways
  /\ DOMAIN stores = Ways /\ DOMAIN answers = Indices
  /\ kernel = "none" => stores = EmptyStores /\ way = "multi"
  /\ kernel \in {"write", "read"} => pairs \in [Indices -> [key : Keys, value : Values]]
  /\ kernel = "write" => Writing
  /\ kernel = "read" => Reading
  /\ kernel = "panic" => ~Unambiguous

PairsTyped == pairs \in [Indices -> [key : Keys, value : Values]]

(* A store without a pair holds nothing.                                    *)
LEMMA EmptyHolds ==
  /\ HoldsSome({}, EmptyStore) /\ HoldsLast({}, EmptyStore)
  /\ Indices = {} => AllWritten = EmptyStore
BY DEF HoldsSome, HoldsLast, WriteOf, EmptyStore, AllWritten

(* One more pair is written.                                                *)
LEMMA PutSome ==
  ASSUME PairsTyped, NEW S \in SUBSET Indices, NEW store, HoldsSome(S, store), NEW n \in Indices
  PROVE  HoldsSome(S \cup {n}, Put(store, n))
<1> DEFINE new == Put(store, n)
<1>1. pairs[n].key \in Keys /\ pairs[n].value \in Values
  BY DEF PairsTyped
<1>2. store \in [Keys -> Values \cup {Absent}]
  BY DEF HoldsSome
<1>3. /\ new \in [Keys -> Values \cup {Absent}]
      /\ \A k \in Keys : new[k] = IF k = pairs[n].key THEN pairs[n].value ELSE store[k]
  BY <1>1, <1>2 DEF Put
<1> HIDE DEF new
<1>4. ASSUME NEW k \in Keys
      PROVE  IF WriteOf(S \cup {n}, k) = {} THEN new[k] = Absent
             ELSE \E i \in WriteOf(S \cup {n}, k) : new[k] = pairs[i].value
  <2>1. CASE k = pairs[n].key
    <3>1. n \in WriteOf(S \cup {n}, k) /\ new[k] = pairs[n].value
      BY <1>3, <2>1 DEF WriteOf
    <3>2. QED BY <3>1
  <2>2. CASE k # pairs[n].key
    <3>1. WriteOf(S \cup {n}, k) = WriteOf(S, k) /\ new[k] = store[k]
      BY <1>3, <2>2 DEF WriteOf
    <3>2. QED BY <3>1 DEF HoldsSome
  <2>3. QED BY <2>1, <2>2
<1>5. QED BY <1>3, <1>4 DEF HoldsSome, new

(* One more pair is written, after all of S.                                *)
LEMMA PutLast ==
  ASSUME PairsTyped, NEW S \in SUBSET Indices, NEW store, HoldsLast(S, store), NEW n \in Indices,
         \A j \in S : j < n
  PROVE  HoldsLast(S \cup {n}, Put(store, n))
<1> DEFINE new == Put(store, n)
<1>1. pairs[n].key \in Keys /\ pairs[n].value \in Values
  BY DEF PairsTyped
<1>2. store \in [Keys -> Values \cup {Absent}]
  BY DEF HoldsLast
<1>3. /\ new \in [Keys -> Values \cup {Absent}]
      /\ \A k \in Keys : new[k] = IF k = pairs[n].key THEN pairs[n].value ELSE store[k]
  BY <1>1, <1>2 DEF Put
<1>4. \A j \in S \cup {n} : j <= n
  BY StorageAssumption DEF Indices
<1> HIDE DEF new
<1>5. ASSUME NEW k \in Keys
      PROVE  IF WriteOf(S \cup {n}, k) = {} THEN new[k] = Absent
             ELSE \E i \in WriteOf(S \cup {n}, k) :
                    new[k] = pairs[i].value /\ \A j \in WriteOf(S \cup {n}, k) : j <= i
  <2>1. CASE k = pairs[n].key
    <3>1. n \in WriteOf(S \cup {n}, k) /\ new[k] = pairs[n].value
          /\ \A j \in WriteOf(S \cup {n}, k) : j <= n
      BY <1>3, <1>4, <2>1 DEF WriteOf
    <3>2. QED BY <3>1
  <2>2. CASE k # pairs[n].key
    <3>1. WriteOf(S \cup {n}, k) = WriteOf(S, k) /\ new[k] = store[k]
      BY <1>3, <2>2 DEF WriteOf
    <3>2. QED BY <3>1 DEF HoldsLast
  <2>3. QED BY <2>1, <2>2
<1>6. QED BY <1>3, <1>5 DEF HoldsLast, new

(* The last write of a key, once some store shows that there is one.        *)
LEMMA LastWriteOf ==
  ASSUME NEW store, HoldsLast(Indices, store), NEW k \in Keys, WriteOf(Indices, k) # {}
  PROVE  /\ LastWrite(k) \in WriteOf(Indices, k)
         /\ store[k] = pairs[LastWrite(k)].value
<1>1. PICK i \in WriteOf(Indices, k) :
        store[k] = pairs[i].value /\ \A j \in WriteOf(Indices, k) : j <= i
  BY DEF HoldsLast
<1> DEFINE l == LastWrite(k)
<1>2. l \in Indices /\ pairs[l].key = k /\ \A j \in Indices : pairs[j].key = k => j <= l
  BY <1>1 DEF LastWrite, WriteOf
<1> HIDE DEF l
<1>3. i \in Indices /\ pairs[i].key = k /\ i <= l /\ l <= i
  BY <1>1, <1>2 DEF WriteOf
<1>4. i \in Int /\ l \in Int
  BY <1>2, <1>3, StorageAssumption DEF Indices
<1>5. i = l
  BY <1>3, <1>4
<1>6. QED BY <1>1, <1>2, <1>5 DEF WriteOf, l

(* The loop leaves what a batch does.                                       *)
LEMMA LoopIsBatch ==
  ASSUME NEW store, HoldsLast(Indices, store)
  PROVE  store = AllWritten
<1>1. ASSUME NEW k \in Keys PROVE store[k] = AllWritten[k]
  <2>1. CASE WriteOf(Indices, k) = {}
    BY <2>1 DEF AllWritten, HoldsLast, WriteOf
  <2>2. CASE WriteOf(Indices, k) # {}
    <3>1. store[k] = pairs[LastWrite(k)].value
      BY <2>2, LastWriteOf
    <3>2. \E i \in Indices : pairs[i].key = k
      BY <2>2 DEF WriteOf
    <3>3. QED BY <3>1, <3>2 DEF AllWritten
  <2>3. QED BY <2>1, <2>2
<1>2. store = [k \in Keys |-> store[k]]
  BY DEF HoldsLast
<1>3. AllWritten = [k \in Keys |-> AllWritten[k]]
  BY DEF AllWritten
<1>4. QED BY <1>1, <1>2, <1>3

(* When equal keys have equal values, every pair is found in a batch.       *)
LEMMA BatchHoldsAll ==
  ASSUME PairsTyped, Unambiguous, NEW store, HoldsLast(Indices, store), NEW i \in Indices
  PROVE  AllWritten[pairs[i].key] = pairs[i].value
<1> DEFINE k == pairs[i].key
<1>1. k \in Keys /\ i \in WriteOf(Indices, k)
  BY DEF PairsTyped, WriteOf
<1>2. store[k] = pairs[LastWrite(k)].value /\ LastWrite(k) \in WriteOf(Indices, k)
  BY <1>1, LastWriteOf
<1>3. pairs[LastWrite(k)].value = pairs[i].value
  BY <1>2 DEF Unambiguous, WriteOf
<1>4. QED BY <1>2, <1>3, LoopIsBatch

(* Then the futures leave it as well, in whatever order they ran.           *)
LEMMA FuturesAreBatch ==
  ASSUME PairsTyped, Unambiguous, NEW store, HoldsLast(Indices, store),
         NEW other, HoldsSome(Indices, other)
  PROVE  other = AllWritten
<1>1. ASSUME NEW k \in Keys PROVE other[k] = AllWritten[k]
  <2>1. CASE WriteOf(Indices, k) = {}
    BY <2>1 DEF AllWritten, HoldsSome, WriteOf
  <2>2. CASE WriteOf(Indices, k) # {}
    <3>1. PICK i \in WriteOf(Indices, k) : other[k] = pairs[i].value
      BY <2>2 DEF HoldsSome
    <3>2. i \in Indices /\ pairs[i].key = k
      BY DEF WriteOf
    <3>3. QED BY <3>1, <3>2, BatchHoldsAll
  <2>3. QED BY <2>1, <2>2
<1>2. other = [k \in Keys |-> other[k]] /\ AllWritten = [k \in Keys |-> AllWritten[k]]
  BY DEF HoldsSome, AllWritten
<1>3. QED BY <1>1, <1>2

(* Before anything is generated.                                            *)
LEMMA StorageInitInv == StorageInit => StorageInv
BY DEF StorageInit, StorageInv, Ways, EmptyStores

(* Writes, one way after the other.                                         *)
LEMMA WriteSteps ==
  ASSUME StorageInv, Generate \/ WriteMulti \/ (\E i \in pending : WriteOne(i)) \/ Written
  PROVE  StorageInv'
<1>1. CASE Generate
  <2>1. /\ kernel' = "write" /\ pending' = Indices /\ stores' = EmptyStores /\ way' = "multi"
        /\ PairsTyped' /\ answers' = answers
    BY <1>1 DEF Generate, StorageInv, PairsTyped
  <2>2. Indices' = {} => AllWritten' = EmptyStore
    <3>1. Indices' = Indices
      BY DEF Indices
    <3>2. QED BY DEF AllWritten, EmptyStore
  <2>3. \A w \in Ways : stores'[w] = EmptyStore
    BY <2>1 DEF EmptyStores
  <2>4. Writing'
    BY <2>1, <2>2, <2>3 DEF Writing, Ways
  <2>5. QED BY <2>1, <2>4 DEF StorageInv, Ways, EmptyStores, PairsTyped
<1>2. CASE WriteMulti
  <2>1. /\ kernel = "write" /\ kernel' = "write" /\ way = "multi" /\ way' = "multi"
        /\ stores' = [stores EXCEPT !["multi"] = AllWritten] /\ pending' = {}
        /\ pairs' = pairs /\ answers' = answers
    BY <1>2 DEF WriteMulti
  <2>2. AllWritten' = AllWritten
    BY <2>1 DEF AllWritten, LastWrite
  <2>3. stores'["loop"] = EmptyStore /\ stores'["futures"] = EmptyStore
        /\ stores'["multi"] = AllWritten
    BY <2>1 DEF StorageInv, Writing, Ways
  <2>4. Writing'
    BY <2>1, <2>2, <2>3 DEF Writing
  <2>5. QED BY <2>1, <2>4 DEF StorageInv, Ways
<1>3. ASSUME NEW n \in pending, WriteOne(n) PROVE StorageInv'
  <2>1. /\ kernel = "write" /\ kernel' = "write" /\ way # "multi" /\ way' = way /\ Turn(n)
        /\ stores' = [stores EXCEPT ![way] = Put(stores[way], n)] /\ pending' = pending \ {n}
        /\ pairs' = pairs /\ answers' = answers
    BY <1>3 DEF WriteOne
  <2>2. AllWritten' = AllWritten /\ PairsTyped /\ Writing
    BY <2>1 DEF AllWritten, LastWrite, StorageInv, PairsTyped
  <2>3. n \in Indices /\ Done' = Done \cup {n} /\ Done \subseteq Indices
    BY <2>1 DEF Done, StorageInv, Indices
  <2>4. CASE way = "loop"
    <3>1. /\ stores'["loop"] = Put(stores["loop"], n) /\ stores'["multi"] = AllWritten
          /\ stores'["futures"] = EmptyStore
      BY <2>1, <2>2, <2>4 DEF StorageInv, Ways, Writing
    <3>2. \A j \in Done : j < n
      BY <2>2, <2>4 DEF Writing, InOrder
    <3>3. HoldsLast(Done, stores["loop"])
      BY <2>2, <2>4 DEF Writing
    <3>4. HoldsLast(Done \cup {n}, Put(stores["loop"], n))
      BY <2>2, <2>3, <3>2, <3>3, PutLast
    <3>5. HoldsLast(Done, stores["loop"])'
      BY <2>1, <2>3, <3>1, <3>4 DEF HoldsLast, WriteOf
    <3>6. InOrder'
      <4>1. \A j \in pending : n <= j
        BY <2>1, <2>4 DEF Turn
      <4>2. \A j \in pending' : j \in Int /\ n \in Int /\ j # n /\ j \in pending
        BY <2>1, <2>3, StorageAssumption DEF StorageInv, Indices
      <4>3. \A j \in pending' : n < j
        BY <4>1, <4>2
      <4>4. QED BY <2>2, <2>3, <2>4, <4>2, <4>3 DEF InOrder, Writing
    <3>7. Writing'
      BY <2>1, <2>2, <2>4, <3>1, <3>5, <3>6 DEF Writing
    <3>8. QED BY <2>1, <3>7 DEF StorageInv
  <2>5. CASE way = "futures"
    <3>1. /\ stores'["loop"] = stores["loop"] /\ stores'["multi"] = AllWritten
          /\ stores'["futures"] = Put(stores["futures"], n)
      BY <2>1, <2>2, <2>5 DEF StorageInv, Ways, Writing
    <3>2. HoldsSome(Done \cup {n}, Put(stores["futures"], n))
      BY <2>2, <2>3, <2>5, PutSome DEF Writing
    <3>3. HoldsSome(Done, stores["futures"])'
      BY <2>1, <2>3, <3>1, <3>2 DEF HoldsSome, WriteOf
    <3>4. HoldsLast(Indices, stores["loop"])'
      BY <2>1, <2>2, <2>5, <3>1 DEF HoldsLast, WriteOf, Writing, Indices
    <3>5. Writing'
      BY <2>1, <2>2, <2>5, <3>1, <3>3, <3>4 DEF Writing
    <3>6. QED BY <2>1, <3>5 DEF StorageInv
  <2>6. QED BY <2>1, <2>4, <2>5 DEF StorageInv, Ways
<1>4. CASE Written
  <2>1. /\ kernel = "write" /\ pending = {} /\ way' = Following(way) /\ pending' = Indices
        /\ pairs' = pairs /\ answers' = answers /\ stores' = stores
        /\ IF way = "futures" THEN kernel' = "read" /\ read_store' = AllWritten
           ELSE kernel' = kernel
    BY <1>4 DEF Written
  <2>2. AllWritten' = AllWritten /\ PairsTyped /\ Writing /\ stores["multi"] = AllWritten
    BY <2>1 DEF AllWritten, LastWrite, StorageInv, PairsTyped, Writing
  <2>3. Done = Indices /\ Done' = {} /\ Indices' = Indices
    BY <2>1 DEF Done, Indices
  <2>4. CASE way = "multi"
    <3>1. way' = "loop" /\ kernel' = "write"
      BY <2>1, <2>4 DEF Following
    <3>2. HoldsLast({}, EmptyStore)' /\ stores'["loop"] = EmptyStore
          /\ stores'["futures"] = EmptyStore
      BY <2>1, <2>2, <2>4 DEF Writing, HoldsLast, WriteOf, EmptyStore
    <3>3. Writing'
      BY <2>1, <2>2, <2>3, <3>1, <3>2 DEF Writing, InOrder
    <3>4. QED BY <2>1, <2>2, <3>1, <3>3 DEF StorageInv, Ways, PairsTyped
  <2>5. CASE way = "loop"
    <3>1. way' = "futures" /\ kernel' = "write"
      BY <2>1, <2>5 DEF Following
    <3>2. HoldsSome({}, EmptyStore)' /\ stores'["futures"] = EmptyStore
      BY <2>1, <2>2, <2>5 DEF Writing, HoldsSome, WriteOf, EmptyStore
    <3>3. HoldsLast(Indices, stores["loop"])'
      BY <2>1, <2>2, <2>3, <2>5 DEF Writing, HoldsLast, WriteOf
    <3>4. Writing'
      BY <2>1, <2>2, <2>3, <3>1, <3>2, <3>3 DEF Writing
    <3>5. QED BY <2>1, <2>2, <3>1, <3>4 DEF StorageInv, Ways, PairsTyped
  <2>6. CASE way = "futures"
    <3>1. way' = "multi" /\ kernel' = "read" /\ read_store' = AllWritten
      BY <2>1, <2>6 DEF Following
    <3>2. HoldsLast(Indices, stores["loop"])' /\ HoldsSome(Indices, stores["futures"])'
      BY <2>1, <2>2, <2>3, <2>6 DEF Writing, HoldsLast, HoldsSome, WriteOf
    <3>3. Reading'
      BY <2>1, <2>2, <2>3, <3>1, <3>2 DEF Reading
    <3>4. QED BY <2>1, <2>2, <3>1, <3>3 DEF StorageInv, Ways, PairsTyped
  <2>7. QED BY <2>4, <2>5, <2>6 DEF StorageInv, Ways
<1>5. QED BY <1>1, <1>2, <1>3, <1>4

(* Reads, one way after the other, until the next database.                 *)
LEMMA ReadSteps ==
  ASSUME StorageInv, ReadMulti \/ (\E i \in pending : ReadOne(i)) \/ Checked
  PROVE  StorageInv'
<1>1. CASE ReadMulti
  <2>1. /\ kernel = "read" /\ kernel' = "read" /\ way' = way /\ pending' = {}
        /\ answers' = [i \in Indices |-> read_store[pairs[i].key]]
        /\ pairs' = pairs /\ stores' = stores /\ read_store' = read_store
    BY <1>1 DEF ReadMulti
  <2>2. AllWritten' = AllWritten /\ Indices' = Indices /\ Reading
    BY <2>1 DEF AllWritten, LastWrite, Indices, StorageInv
  <2>3. HoldsLast(Indices, stores["loop"])' /\ HoldsSome(Indices, stores["futures"])'
    BY <2>1, <2>2 DEF Reading, HoldsLast, HoldsSome, WriteOf
  <2>4. \A i \in Indices : answers'[i] = read_store'[pairs'[i].key]
    BY <2>1
  <2>5. Reading'
    BY <2>1, <2>2, <2>3, <2>4 DEF Reading, Done
  <2>6. QED BY <2>1, <2>2, <2>5 DEF StorageInv
<1>2. ASSUME NEW n \in pending, ReadOne(n) PROVE StorageInv'
  <2>1. /\ kernel = "read" /\ kernel' = "read" /\ way' = way /\ pending' = pending \ {n}
        /\ answers' = [answers EXCEPT ![n] = read_store[pairs[n].key]]
        /\ pairs' = pairs /\ stores' = stores /\ read_store' = read_store
    BY <1>2 DEF ReadOne
  <2>2. AllWritten' = AllWritten /\ Indices' = Indices /\ Reading
    BY <2>1 DEF AllWritten, LastWrite, Indices, StorageInv
  <2>3. HoldsLast(Indices, stores["loop"])' /\ HoldsSome(Indices, stores["futures"])'
    BY <2>1, <2>2 DEF Reading, HoldsLast, HoldsSome, WriteOf
  <2>4. n \in Indices /\ Done' = Done \cup {n} /\ DOMAIN answers = Indices /\ Done \subseteq Indices
    BY <2>1, <2>2 DEF Done, StorageInv
  <2>5. \A i \in Done' : answers'[i] = read_store'[pairs'[i].key]
    BY <2>1, <2>2, <2>4 DEF Reading
  <2>6. Reading'
    BY <2>1, <2>2, <2>3, <2>5 DEF Reading
  <2>7. QED BY <2>1, <2>2, <2>6 DEF StorageInv
<1>3. CASE Checked
  <2>1. kernel = "read" /\ pending = {} /\ pairs' = pairs /\ DOMAIN answers' = Indices
    BY <1>3 DEF Checked
  <2>2. AllWritten' = AllWritten /\ Indices' = Indices /\ Reading /\ PairsTyped /\ way \in Ways
    BY <2>1 DEF AllWritten, LastWrite, Indices, StorageInv, PairsTyped
  <2>3. CASE \E i \in Indices : answers[i] # pairs[i].value
    <3>1. kernel' = "panic" /\ way' = way /\ pending' = pending /\ stores' = stores
      BY <1>3, <2>3 DEF Checked
    <3>2. PICK i \in Indices : answers[i] # pairs[i].value
      BY <2>3
    <3>3. answers[i] = AllWritten[pairs[i].key] /\ HoldsLast(Indices, stores["loop"])
      BY <2>1, <2>2 DEF Reading, Done
    <3>4. ~Unambiguous
      BY <2>2, <3>2, <3>3, BatchHoldsAll
    <3>5. (~Unambiguous)'
      BY <2>1, <2>2, <3>4 DEF Unambiguous
    <3>6. QED BY <2>1, <2>2, <3>1, <3>5 DEF StorageInv
  <2>4. CASE ~(\E i \in Indices : answers[i] # pairs[i].value)
    <3>1. way' = Following(way) /\ pending' = Indices /\ Done' = {}
      BY <1>3, <2>2, <2>4 DEF Checked, Done
    <3>2. CASE way # "futures"
      <4>1. kernel' = kernel /\ stores' = stores /\ read_store' = read_store
        BY <1>3, <2>4, <3>2 DEF Checked
      <4>2. HoldsLast(Indices, stores["loop"])' /\ HoldsSome(Indices, stores["futures"])'
        BY <2>1, <2>2, <4>1 DEF Reading, HoldsLast, HoldsSome, WriteOf
      <4>3. Reading'
        BY <2>2, <3>1, <4>1, <4>2 DEF Reading
      <4>4. way' \in Ways
        BY <2>2, <3>1 DEF Following, Ways
      <4>5. QED BY <2>1, <2>2, <3>1, <4>1, <4>3, <4>4 DEF StorageInv, PairsTyped
    <3>3. CASE way = "futures"
      <4>1. /\ stores' = EmptyStores /\ kernel' \in {"done", "write"} /\ way' = "multi"
        BY <1>3, <2>4, <3>1, <3>3 DEF Checked, Following
      <4>2. Indices' = {} => AllWritten' = EmptyStore
        BY <2>2, EmptyHolds
      <4>3. DOMAIN stores' = Ways /\ \A w \in Ways : stores'[w] = EmptyStore
        BY <4>1 DEF EmptyStores
      <4>4. Writing'
        BY <2>2, <3>1, <4>1, <4>2, <4>3 DEF Writing, Ways
      <4>5. QED BY <2>1, <2>2, <3>1, <4>1, <4>3, <4>4 DEF StorageInv, Ways, PairsTyped
    <3>4. QED BY <3>2, <3>3
  <2>5. QED BY <2>3, <2>4
<1>4. QED BY <1>1, <1>2, <1>3

(* Every step, and a step of the other programs.                            *)
LEMMA StorageStep ==
  ASSUME StorageInv, [StorageNext]_storageVars
  PROVE  StorageInv'
<1>1. CASE RequestFails
  <2>1. kernel' = "failed" /\ pending' = pending /\ way' = way /\ stores' = stores
        /\ answers' = answers
    BY <1>1 DEF RequestFails
  <2>2. QED BY <2>1 DEF StorageInv, Indices, Ways
<1>2. CASE UNCHANGED storageVars
  <2>1. /\ pairs' = pairs /\ kernel' = kernel /\ way' = way /\ pending' = pending
        /\ stores' = stores /\ read_store' = read_store /\ answers' = answers
    BY <1>2 DEF storageVars
  <2>2. Indices' = Indices /\ Done' = Done /\ EmptyStore' = EmptyStore /\ AllWritten' = AllWritten
    BY <2>1 DEF Indices, Done, EmptyStore, AllWritten, LastWrite
  <2>3. InOrder' = InOrder /\ Unambiguous' = Unambiguous
    BY <2>1, <2>2 DEF InOrder, Unambiguous
  <2>4. /\ HoldsLast(Done, stores["loop"])' = HoldsLast(Done, stores["loop"])
        /\ HoldsLast(Indices, stores["loop"])' = HoldsLast(Indices, stores["loop"])
    BY <2>1, <2>2 DEF HoldsLast, WriteOf
  <2>5. /\ HoldsSome(Done, stores["futures"])' = HoldsSome(Done, stores["futures"])
        /\ HoldsSome(Indices, stores["futures"])' = HoldsSome(Indices, stores["futures"])
    BY <2>1, <2>2 DEF HoldsSome, WriteOf
  <2>6. (Writing => Writing') /\ (Reading => Reading')
    BY <2>1, <2>2, <2>3, <2>4, <2>5 DEF Writing, Reading
  <2>7. QED BY <2>1, <2>2, <2>3, <2>6 DEF StorageInv, EmptyStores, Ways
<1>3. QED BY <1>1, <1>2, WriteSteps, ReadSteps DEF StorageNext

(* The invariant says what is wanted.                                       *)
LEMMA StorageInvAgrees == StorageInv => WaysAgree
<1> SUFFICES ASSUME StorageInv PROVE WaysAgree
  OBVIOUS
<1>1. ASSUME kernel = "read"
      PROVE  /\ stores["loop"] = stores["multi"]
             /\ Unambiguous => stores["futures"] = stores["multi"]
  <2>1. Reading /\ PairsTyped
    BY <1>1 DEF StorageInv, PairsTyped
  <2>2. stores["loop"] = AllWritten
    BY <2>1, LoopIsBatch DEF Reading
  <2>3. Unambiguous => stores["futures"] = AllWritten
    BY <2>1, FuturesAreBatch DEF Reading
  <2>4. QED BY <2>1, <2>2, <2>3 DEF Reading
<1>2. QED BY <1>1 DEF StorageInv, WaysAgree

(* For every number of pairs and of databases, and in whatever order the    *)
(* futures run, the loop leaves the same store as the batch, and only two   *)
(* values for one key make the futures differ or an assertion fail.         *)
THEOREM EveryWayAgrees == StorageSpec => []WaysAgree
<1>1. StorageInv /\ [StorageNext]_storageVars => StorageInv'
  BY StorageStep
<1>2. QED BY StorageInitInv, <1>1, StorageInvAgrees, PTL DEF StorageSpec

=============================================================================
