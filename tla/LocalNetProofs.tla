--------------------------- MODULE LocalNetProofs ---------------------------
(***************************************************************************)
(* SpecifiedLocalNet: whatever operations do and however they fail, every  *)
(* process is held exactly once; and the ranges of its four bases of ports *)
(* never meet as long as the network has the size that instantiate         *)
(* accepts.                                                                *)
(***************************************************************************)
EXTENDS LocalNet, SumTheorems, SequenceTheorems, TLAPS

-----------------------------------------------------------------------------
(* The children of all validators in one sequence.                          *)

(* FlattenSeq is the value at the end of a function that is defined by      *)
(* recursion, g here.                                                       *)
FlattenEquation(g, s, n) ==
  g = [i \in 1..n |-> IF i = 1 THEN s[i] ELSE g[i - 1] \o s[i]]

(* A solution on one more sequence.                                         *)
LEMMA FlattenExtends ==
  ASSUME NEW s, NEW n \in Nat \ {0}, NEW g, FlattenEquation(g, s, n)
  PROVE  \E h : FlattenEquation(h, s, n + 1)
<1> DEFINE h == [i \in 1..(n + 1) |-> IF i = n + 1 THEN g[n] \o s[i] ELSE g[i]]
<1>1. \A i \in 1..n : g[i] = IF i = 1 THEN s[i] ELSE g[i - 1] \o s[i]
  BY Zenon DEF FlattenEquation
<1>2. ASSUME NEW i \in 1..(n + 1)
      PROVE  h[i] = IF i = 1 THEN s[i] ELSE h[i - 1] \o s[i]
  <2>1. CASE i = n + 1
    <3>1. i # 1 /\ i - 1 \in 1..(n + 1) /\ i - 1 # n + 1 /\ i - 1 = n
      BY <2>1
    <3>2. h[i - 1] = g[n]
      BY <3>1
    <3>3. h[i] = g[n] \o s[i]
      BY <2>1
    <3>4. QED BY <3>1, <3>2, <3>3
  <2>2. CASE i # n + 1
    <3>1. i \in 1..n
      BY <2>2
    <3>2. h[i] = g[i]
      BY <2>2
    <3>3. i # 1 => i - 1 \in 1..(n + 1) /\ i - 1 # n + 1
      BY <2>2
    <3>4. i # 1 => h[i - 1] = g[i - 1]
      BY <3>3
    <3>5. g[i] = IF i = 1 THEN s[i] ELSE g[i - 1] \o s[i]
      BY <1>1, <3>1
    <3>6. QED BY <3>2, <3>4, <3>5
  <2>3. QED BY <2>1, <2>2
<1>3. h = [i \in 1..(n + 1) |-> h[i]]
  OBVIOUS
<1> HIDE DEF h
<1>4. [i \in 1..(n + 1) |-> h[i]]
        = [i \in 1..(n + 1) |-> IF i = 1 THEN s[i] ELSE h[i - 1] \o s[i]]
  BY <1>2, Zenon
<1>5. FlattenEquation(h, s, n + 1)
  BY <1>3, <1>4, Zenon DEF FlattenEquation
<1>6. QED BY <1>5

(* There is a solution.                                                     *)
LEMMA FlattenSolvable ==
  ASSUME NEW s, NEW n \in Nat \ {0}
  PROVE  \E g : FlattenEquation(g, s, n)
<1> DEFINE Bad == {k \in Nat \ {0} : ~\E g : FlattenEquation(g, s, k)}
<1>1. SUFFICES ASSUME Bad # {} PROVE FALSE
  OBVIOUS
<1>2. PICK k \in Bad : \A j \in Bad : k <= j
  BY <1>1, LeastNatural
<1>3. CASE k = 1
  <2> DEFINE h == [i \in 1..1 |-> s[1]]
  <2>1. h = [i \in 1..1 |-> IF i = 1 THEN s[i] ELSE h[i - 1] \o s[i]]
    OBVIOUS
  <2>2. FlattenEquation(h, s, 1)
    BY <2>1, Zenon DEF FlattenEquation
  <2>3. QED BY <1>3, <2>2
<1>4. CASE k # 1
  <2>1. k - 1 \in Nat \ {0} /\ k - 1 \notin Bad /\ (k - 1) + 1 = k
    BY <1>2, <1>4
  <2>2. PICK m \in Nat \ {0} : m \notin Bad /\ m + 1 = k
    BY <2>1
  <2>3. PICK g : FlattenEquation(g, s, m)
    BY <2>2
  <2>4. \E h : FlattenEquation(h, s, m + 1)
    BY <2>2, <2>3, FlattenExtends
  <2>5. QED BY <2>2, <2>4
<1>5. QED BY <1>3, <1>4

(* What FlattenSeq makes of sequences: a sequence of what they hold.        *)
LEMMA FlattenSeqSolution ==
  ASSUME NEW P, NEW n \in Nat \ {0}, NEW s \in [1..n -> Seq(P)]
  PROVE  \E g : FlattenEquation(g, s, n) /\ FlattenSeq(s) = g[n]
<1>1. Len(s) = n
  OBVIOUS
<1> DEFINE g == CHOOSE h : FlattenEquation(h, s, n)
<1>2. FlattenSeq(s) = g[n]
  BY <1>1, Zenon DEF FlattenSeq, FlattenEquation
<1>3. FlattenEquation(g, s, n)
  BY FlattenSolvable, Zenon
<1>4. QED BY <1>2, <1>3

-----------------------------------------------------------------------------

(* The elements of two sequences, one after the other.                      *)
LEMMA ConcatElements ==
  ASSUME NEW P, NEW s \in Seq(P), NEW t \in Seq(P)
  PROVE  /\ s \o t \in Seq(P)
         /\ ToSet(s \o t) = ToSet(s) \cup ToSet(t)
         /\ IsInjective(s) /\ IsInjective(t) /\ ToSet(s) \cap ToSet(t) = {}
              => IsInjective(s \o t)
<1>1. /\ s \o t \in Seq(P) /\ Len(s) \in Nat /\ Len(t) \in Nat
      /\ DOMAIN (s \o t) = 1..(Len(s) + Len(t))
      /\ DOMAIN s = 1..Len(s) /\ DOMAIN t = 1..Len(t)
  OBVIOUS
<1>2. \A i \in 1..Len(s) : (s \o t)[i] = s[i]
  OBVIOUS
<1>3. \A i \in 1..(Len(s) + Len(t)) :
        i \notin 1..Len(s) => i - Len(s) \in 1..Len(t) /\ (s \o t)[i] = t[i - Len(s)]
  OBVIOUS
<1>4. \A i \in 1..Len(t) : Len(s) + i \in DOMAIN (s \o t) /\ (s \o t)[Len(s) + i] = t[i]
  OBVIOUS
<1> DEFINE u == s \o t
<1>5. \A x : x \in ToSet(u) <=> x \in ToSet(s) \/ x \in ToSet(t)
  <2> TAKE x
  <2>1. ASSUME x \in ToSet(u) PROVE x \in ToSet(s) \/ x \in ToSet(t)
    <3>1. PICK i \in DOMAIN u : u[i] = x
      BY <2>1 DEF ToSet
    <3>2. CASE i \in 1..Len(s)
      BY <1>1, <1>2, <3>1, <3>2 DEF ToSet
    <3>3. CASE i \notin 1..Len(s)
      BY <1>1, <1>3, <3>1, <3>3 DEF ToSet
    <3>4. QED BY <3>2, <3>3
  <2>2. ASSUME x \in ToSet(s) PROVE x \in ToSet(u)
    <3>1. PICK i \in DOMAIN s : s[i] = x
      BY <2>2 DEF ToSet
    <3>2. i \in DOMAIN u
      BY <1>1, <3>1
    <3>3. QED BY <1>1, <1>2, <3>1, <3>2 DEF ToSet
  <2>3. ASSUME x \in ToSet(t) PROVE x \in ToSet(u)
    <3>1. PICK i \in DOMAIN t : t[i] = x
      BY <2>3 DEF ToSet
    <3>2. Len(s) + i \in DOMAIN u /\ u[Len(s) + i] = x
      BY <1>1, <1>4, <3>1
    <3>3. QED BY <3>2 DEF ToSet
  <2>4. QED BY <2>1, <2>2, <2>3
<1>6. ASSUME IsInjective(s), IsInjective(t), ToSet(s) \cap ToSet(t) = {}
      PROVE  IsInjective(u)
  <2> SUFFICES ASSUME NEW i \in DOMAIN u, NEW j \in DOMAIN u, u[i] = u[j]
               PROVE  i = j
    BY DEF IsInjective
  <2>1. \A k \in DOMAIN s : s[k] \in ToSet(s)
    BY DEF ToSet
  <2>2. \A k \in DOMAIN t : t[k] \in ToSet(t)
    BY DEF ToSet
  <2>3. CASE i \in 1..Len(s) /\ j \in 1..Len(s)
    BY <1>1, <1>2, <1>6, <2>3 DEF IsInjective
  <2>4. CASE i \notin 1..Len(s) /\ j \notin 1..Len(s)
    <3>1. i - Len(s) = j - Len(s)
      BY <1>1, <1>3, <1>6, <2>4 DEF IsInjective
    <3>2. QED BY <1>1, <3>1
  <2>5. CASE i \in 1..Len(s) /\ j \notin 1..Len(s)
    <3>1. u[i] \in ToSet(s) /\ u[j] \in ToSet(t)
      BY <1>1, <1>2, <1>3, <2>1, <2>2, <2>5
    <3>2. QED BY <1>6, <3>1
  <2>6. CASE i \notin 1..Len(s) /\ j \in 1..Len(s)
    <3>1. u[j] \in ToSet(s) /\ u[i] \in ToSet(t)
      BY <1>1, <1>2, <1>3, <2>1, <2>2, <2>6
    <3>2. QED BY <1>6, <3>1
  <2>7. QED BY <2>3, <2>4, <2>5, <2>6
<1>7. QED BY <1>1, <1>5, <1>6

(* Sequences that repeat nothing and share nothing.                         *)
Separate(s, n) ==
  /\ \A k \in 1..n : IsInjective(s[k])
  /\ \A j, k \in 1..n : j # k => ToSet(s[j]) \cap ToSet(s[k]) = {}

(* What the first n of them hold.                                           *)
Elements(s, n) == UNION {ToSet(s[k]) : k \in 1..n}

(* One more sequence.                                                       *)
LEMMA ElementsStep ==
  ASSUME NEW s, NEW n \in Nat
  PROVE  /\ Elements(s, 1) = ToSet(s[1])
         /\ Elements(s, n + 1) = Elements(s, n) \cup ToSet(s[n + 1])
<1>1. 1..1 = {1} /\ 1..(n + 1) = 1..n \cup {n + 1}
  OBVIOUS
<1>2. QED BY <1>1, Zenon DEF Elements

(* FlattenSeq holds the elements of its sequences, each once if they are    *)
(* separate.                                                                *)
LEMMA FlattenElements ==
  ASSUME NEW P, NEW n \in Nat \ {0}, NEW s \in [1..n -> Seq(P)]
  PROVE  /\ FlattenSeq(s) \in Seq(P)
         /\ ToSet(FlattenSeq(s)) = Elements(s, n)
         /\ Separate(s, n) => IsInjective(FlattenSeq(s))
<1>1. PICK g : FlattenEquation(g, s, n) /\ FlattenSeq(s) = g[n]
  BY FlattenSeqSolution
<1>2. \A i \in 1..n : g[i] = IF i = 1 THEN s[i] ELSE g[i - 1] \o s[i]
  BY <1>1, Zenon DEF FlattenEquation
<1> DEFINE Good(i) == /\ g[i] \in Seq(P)
                      /\ ToSet(g[i]) = Elements(s, i)
                      /\ Separate(s, n) => IsInjective(g[i])
           Bad == {i \in 1..n : ~Good(i)}
<1>3. SUFFICES Bad = {}
  <2>1. ASSUME Bad = {} PROVE Good(n)
    <3>1. n \in 1..n
      OBVIOUS
    <3> HIDE DEF Good
    <3>2. QED BY <2>1, <3>1
  <2>2. QED BY <1>1, <2>1
<1>4. SUFFICES ASSUME Bad # {} PROVE FALSE
  OBVIOUS
<1>5. Bad \subseteq Nat
  OBVIOUS
<1>6. PICK m \in Bad : \A j \in Bad : m <= j
  BY <1>4, <1>5, LeastNatural
<1>7. m \in 1..n
  OBVIOUS
<1>8. CASE m = 1
  <2>1. g[1] = s[1] /\ 1 \in 1..n
    BY <1>2, <1>7, <1>8
  <2>2. Elements(s, 1) = ToSet(s[1])
    BY ElementsStep
  <2>3. Good(1)
    BY <2>1, <2>2 DEF Separate
  <2>4. QED BY <1>8, <2>3
<1>9. CASE m # 1
  <2>1. PICK l \in 1..n : l = m - 1 /\ l + 1 = m
    BY <1>7, <1>9
  <2>2. Good(l)
    <3>1. m \in Nat /\ l \in Nat /\ l = m - 1
      BY <1>7, <2>1
    <3>2. l \in Bad => m <= l
      BY <1>6
    <3> HIDE DEF Good
    <3>3. QED BY <3>1, <3>2, <2>1
  <2>3. g[m] = g[l] \o s[m] /\ s[m] \in Seq(P)
    BY <1>2, <1>7, <1>9, <2>1
  <2> DEFINE a == g[l]
             b == s[m]
  <2>4. a \in Seq(P) /\ b \in Seq(P)
    BY <2>2, <2>3
  <2>5. /\ a \o b \in Seq(P)
        /\ ToSet(a \o b) = ToSet(a) \cup ToSet(b)
        /\ IsInjective(a) /\ IsInjective(b) /\ ToSet(a) \cap ToSet(b) = {}
             => IsInjective(a \o b)
    <3> HIDE DEF a, b
    <3>1. QED BY <2>4, ConcatElements
  <2>6. 1..l \subseteq 1..n /\ m \notin 1..l
    BY <1>7, <2>1
  <2>7. Elements(s, m) = Elements(s, l) \cup ToSet(s[m])
    <3>1. l \in Nat
      BY <2>1
    <3>2. Elements(s, l + 1) = Elements(s, l) \cup ToSet(s[l + 1])
      BY <3>1, ElementsStep
    <3>3. QED BY <2>1, <3>2
  <2>8. ToSet(g[m]) = Elements(s, m)
    BY <2>2, <2>3, <2>5, <2>7
  <2>9. ASSUME Separate(s, n) PROVE IsInjective(g[m])
    <3>1. IsInjective(a)
      BY <2>2, <2>9
    <3>2. IsInjective(b)
      BY <1>7, <2>9 DEF Separate
    <3>3. ASSUME NEW x \in ToSet(a), x \in ToSet(b) PROVE FALSE
      <4>1. PICK k \in 1..l : x \in ToSet(s[k])
        BY <2>2, <3>3 DEF Elements
      <4>2. k \in 1..n /\ k # m
        BY <2>6, <4>1
      <4>3. ToSet(s[k]) \cap ToSet(s[m]) = {}
        BY <1>7, <2>9, <4>2 DEF Separate
      <4>4. QED BY <3>3, <4>1, <4>3
    <3>4. QED BY <2>3, <2>5, <3>1, <3>2, <3>3
  <2>10. Good(m)
    BY <2>3, <2>5, <2>8, <2>9
  <2>11. QED BY <2>10
<1>10. QED BY <1>8, <1>9

-----------------------------------------------------------------------------
(* The invariant of the network.                                            *)

StartTypes == {"Restart", "StartServer"}
KillTypes == {"Stop", "TerminateServer", "Terminate"}

StartOperations ==
  [type : StartTypes, validator : Validators, roles : Seq(Roles) \ {<<>>},
   built : Seq(Processes), child : Processes \cup {NoChild}]

KillOperations ==
  [type : KillTypes, queue : Seq(Processes) \ {<<>>}, owned : SUBSET Processes]

(* What the user of the network does with it between its operations.        *)
OutsideOperations ==
  [type : {"Idle"}, result : {"panic"}]
    \cup [type : {"Posts"}, phase : {"before", "post", "after"}, polls : 0..4]

Table == [Processes -> Record \cup {Unused}]

NetTypes ==
  /\ running \in [Validators -> Seq(Processes)]
  /\ storages \subseteq Validators
  /\ directory \in Directories
  /\ process \in Table
  /\ dropped \subseteq Processes
  /\ op \in Operations \cup OutsideOperations
  /\ faults \in 0..MaxFaults

HandlesOf(map) == UNION {ToSet(map[v]) : v \in Validators}

(* No process is listed twice.                                              *)
Apart(map) ==
  /\ \A v \in Validators : IsInjective(map[v])
  /\ \A v, w \in Validators : v # w => ToSet(map[v]) \cap ToSet(map[w]) = {}

UsedIn(table) == {p \in Processes : table[p] # Unused}

Held ==
  IF op.type \in StartTypes THEN (ToSet(op.built) \cup {op.child}) \ {NoChild}
  ELSE IF op.type \in KillTypes THEN op.owned ELSE {}

(* The process table is what live handles and dropped ones name.            *)
Tracks(handles, gone, table) ==
  handles \cap gone = {} /\ handles \cup gone = UsedIn(table)

(* What an operation still has to do.                                       *)
Prepared ==
  /\ op.type \in StartTypes => IsInjective(op.built) /\ op.child \notin ToSet(op.built)
  /\ op.type \in {"Stop", "TerminateServer"} => ToSet(op.queue) \subseteq op.owned
  /\ op.type = "Terminate" => ToSet(op.queue) \subseteq HandlesOf(running) /\ op.owned = {}

NetInv ==
  /\ NetTypes
  /\ Apart(running)
  /\ HandlesOf(running) \cap Held = {}
  /\ Tracks(HandlesOf(running) \cup Held, dropped, process)
  /\ Prepared

-----------------------------------------------------------------------------
(* Helpers.                                                                 *)

(* The type of an operation tells its fields.                               *)
LEMMA OperationKinds ==
  ASSUME NEW o \in Operations \cup OutsideOperations
  PROVE  /\ o.type \in StartTypes => o \in StartOperations
         /\ o.type \in KillTypes => o \in KillOperations
         /\ o.type \in StartTypes \cup KillTypes \cup {"Idle", "Posts"}
<1>1. CASE o \in [type : {"Idle"}, result : {"Ok", "Err"}]
  BY <1>1 DEF StartTypes, KillTypes
<1>2. CASE o \in StartOperations
  BY <1>2 DEF StartTypes, KillTypes, StartOperations
<1>3. CASE o \in KillOperations
  BY <1>3 DEF StartTypes, KillTypes, KillOperations
<1>4. CASE o \in OutsideOperations
  BY <1>4 DEF StartTypes, KillTypes, OutsideOperations
<1>5. QED BY <1>1, <1>2, <1>3, <1>4 DEF Operations, StartOperations, KillOperations,
                                        StartTypes, KillTypes

(* The operations of the network, by kind.                                  *)
LEMMA OperationTypes ==
  /\ StartOperations \subseteq Operations /\ KillOperations \subseteq Operations
  /\ Idle("Ok") \in Operations /\ Idle("Err") \in Operations
BY DEF Operations, StartOperations, KillOperations, StartTypes, KillTypes, Idle

(* What is in a sequence.                                                   *)
LEMMA ElementsOfSeq ==
  ASSUME NEW P, NEW s \in Seq(P)
  PROVE  /\ ToSet(s) \subseteq P
         /\ \A i \in DOMAIN s : s[i] \in ToSet(s)
         /\ ToSet(<<>>) = {} /\ IsInjective(<<>>)
         /\ s # <<>> => Head(s) \in ToSet(s)
<1>1. \A i \in DOMAIN s : s[i] \in P
  OBVIOUS
<1>2. s # <<>> => 1 \in DOMAIN s /\ Head(s) = s[1]
  OBVIOUS
<1>3. DOMAIN <<>> = {}
  OBVIOUS
<1>4. ToSet(s) \subseteq P /\ \A i \in DOMAIN s : s[i] \in ToSet(s)
  BY <1>1 DEF ToSet
<1>5. ToSet(<<>>) = {}
  BY <1>3, Zenon DEF ToSet
<1>6. IsInjective(<<>>)
  BY <1>3, Zenon DEF IsInjective
<1>7. QED BY <1>2, <1>4, <1>5, <1>6

(* What is left of a sequence that is longer than one.                      *)
LEMMA TailElements ==
  ASSUME NEW P, NEW s \in Seq(P), Len(s) # 1, s # <<>>
  PROVE  Tail(s) \in Seq(P) \ {<<>>} /\ ToSet(Tail(s)) \subseteq ToSet(s)
<1>1. Tail(s) \in Seq(P) /\ Tail(s) # <<>>
  <2>1. Len(s) \in Nat /\ Len(s) # 0
    BY EmptySeq
  <2>2. Tail(s) \in Seq(P) /\ Len(Tail(s)) = Len(s) - 1
    BY <2>1
  <2>3. Len(Tail(s)) # 0
    BY <2>1, <2>2
  <2>4. Len(<<>>) = 0
    BY EmptySeq
  <2>5. Tail(s) # <<>>
    BY <2>3, <2>4, Zenon
  <2>6. QED BY <2>2, <2>5
<1>2. \A i \in DOMAIN Tail(s) : i + 1 \in DOMAIN s /\ Tail(s)[i] = s[i + 1]
  OBVIOUS
<1>3. QED BY <1>1, <1>2 DEF ToSet

(* One more element.                                                        *)
LEMMA AppendElements ==
  ASSUME NEW P, NEW s \in Seq(P), NEW x \in P
  PROVE  /\ Append(s, x) \in Seq(P)
         /\ ToSet(Append(s, x)) = ToSet(s) \cup {x}
         /\ IsInjective(s) /\ x \notin ToSet(s) => IsInjective(Append(s, x))
<1>1. /\ Append(s, x) = s \o <<x>> /\ <<x>> \in Seq(P)
      /\ DOMAIN <<x>> = {1} /\ <<x>>[1] = x
  OBVIOUS
<1>2. ToSet(<<x>>) = {x}
  BY <1>1 DEF ToSet
<1>3. IsInjective(<<x>>)
  BY <1>1, Zenon DEF IsInjective
<1>4. PICK t \in Seq(P) : t = <<x>>
  BY <1>1
<1>5. /\ s \o t \in Seq(P)
      /\ ToSet(s \o t) = ToSet(s) \cup ToSet(t)
      /\ IsInjective(s) /\ IsInjective(t) /\ ToSet(s) \cap ToSet(t) = {}
           => IsInjective(s \o t)
  BY ConcatElements
<1>6. Append(s, x) = s \o t /\ ToSet(t) = {x} /\ IsInjective(t)
  BY <1>1, <1>2, <1>3, <1>4
<1>7. QED BY <1>5, <1>6

(* Taking one element out of a sequence that repeats nothing.               *)
LEMMA RemovedElement ==
  ASSUME NEW P, NEW s \in Seq(P), IsInjective(s), NEW k \in DOMAIN s
  PROVE  /\ RemoveAt(s, k) \in Seq(P)
         /\ ToSet(RemoveAt(s, k)) = ToSet(s) \ {s[k]}
         /\ IsInjective(RemoveAt(s, k))
<1> DEFINE a == SubSeq(s, 1, k - 1)
           b == SubSeq(s, k + 1, Len(s))
<1>1. /\ a \in Seq(P) /\ b \in Seq(P) /\ Len(s) \in Nat /\ k \in 1..Len(s)
      /\ DOMAIN a = 1..(k - 1) /\ DOMAIN b = 1..(Len(s) - k)
  OBVIOUS
<1>2. \A i \in 1..(k - 1) : a[i] = s[i] /\ i \in DOMAIN s /\ i # k
  OBVIOUS
<1>3. \A i \in 1..(Len(s) - k) : b[i] = s[k + i] /\ k + i \in DOMAIN s /\ k + i # k
  OBVIOUS
<1>4. RemoveAt(s, k) = a \o b
  BY DEF RemoveAt
<1> HIDE DEF a, b
<1>5. IsInjective(a)
  BY <1>1, <1>2 DEF IsInjective
<1>6. IsInjective(b)
  <2> SUFFICES ASSUME NEW i \in 1..(Len(s) - k), NEW j \in 1..(Len(s) - k), b[i] = b[j]
               PROVE  i = j
    BY <1>1 DEF IsInjective
  <2>1. k + i = k + j
    BY <1>3 DEF IsInjective
  <2>2. QED BY <1>1, <2>1
<1>7. ToSet(a) \cap ToSet(b) = {}
  <2> SUFFICES ASSUME NEW i \in 1..(k - 1), NEW j \in 1..(Len(s) - k), a[i] = b[j]
               PROVE  FALSE
    BY <1>1 DEF ToSet
  <2>1. i = k + j
    BY <1>2, <1>3 DEF IsInjective
  <2>2. QED BY <1>1, <2>1
<1>8. ToSet(a) \cup ToSet(b) = ToSet(s) \ {s[k]}
  <2>1. ASSUME NEW x \in ToSet(a) \cup ToSet(b) PROVE x \in ToSet(s) \ {s[k]}
    <3>1. PICK i \in DOMAIN s : i # k /\ x = s[i]
      BY <1>1, <1>2, <1>3 DEF ToSet
    <3>2. QED BY <3>1 DEF ToSet, IsInjective
  <2>2. ASSUME NEW x \in ToSet(s) \ {s[k]} PROVE x \in ToSet(a) \cup ToSet(b)
    <3>1. PICK i \in DOMAIN s : x = s[i] /\ i # k
      BY DEF ToSet
    <3>2. i \in 1..Len(s)
      BY <3>1
    <3>3. CASE i < k
      <4>1. i \in DOMAIN a /\ a[i] = x
        BY <1>1, <1>2, <3>1, <3>2, <3>3
      <4>2. QED BY <4>1 DEF ToSet
    <3>4. CASE ~(i < k)
      <4>1. i - k \in 1..(Len(s) - k) /\ k + (i - k) = i
        BY <1>1, <3>1, <3>2, <3>4
      <4>2. i - k \in DOMAIN b /\ b[i - k] = x
        BY <1>1, <1>3, <3>1, <4>1
      <4>3. QED BY <4>2 DEF ToSet
    <3>5. QED BY <3>3, <3>4
  <2>3. QED BY <2>1, <2>2
<1>9. QED BY <1>1, <1>4, <1>5, <1>6, <1>7, <1>8, ConcatElements

(* Giving a validator other children, which no other validator has.         *)
LEMMA ChildrenReplaced ==
  ASSUME NEW map \in [Validators -> Seq(Processes)], Apart(map),
         NEW v \in Validators, NEW s \in Seq(Processes), IsInjective(s),
         ToSet(s) \cap (HandlesOf(map) \ ToSet(map[v])) = {}
  PROVE  /\ [map EXCEPT ![v] = s] \in [Validators -> Seq(Processes)]
         /\ Apart([map EXCEPT ![v] = s])
         /\ HandlesOf([map EXCEPT ![v] = s]) = (HandlesOf(map) \ ToSet(map[v])) \cup ToSet(s)
<1> DEFINE new == [map EXCEPT ![v] = s]
<1>1. new \in [Validators -> Seq(Processes)]
  OBVIOUS
<1>2. \A w \in Validators : new[w] = IF w = v THEN s ELSE map[w]
  OBVIOUS
<1> HIDE DEF new
<1>3. ASSUME NEW w \in Validators, w # v
      PROVE  ToSet(map[w]) \subseteq HandlesOf(map) \ ToSet(map[v])
  <2>1. ToSet(map[w]) \subseteq HandlesOf(map)
    BY DEF HandlesOf
  <2>2. ToSet(map[w]) \cap ToSet(map[v]) = {}
    BY <1>3 DEF Apart
  <2>3. QED BY <2>1, <2>2
<1>4. ASSUME NEW w \in Validators, NEW x \in Validators, w # x
      PROVE  ToSet(new[w]) \cap ToSet(new[x]) = {}
  <2>1. CASE w = v
    BY <1>2, <1>3, <1>4, <2>1
  <2>2. CASE x = v
    BY <1>2, <1>3, <1>4, <2>2
  <2>3. CASE w # v /\ x # v
    <3>1. ToSet(map[w]) \cap ToSet(map[x]) = {}
      BY <1>4 DEF Apart
    <3>2. QED BY <1>2, <2>3, <3>1
  <2>4. QED BY <2>1, <2>2, <2>3
<1>5. \A w \in Validators : IsInjective(new[w])
  BY <1>2 DEF Apart
<1>6. Apart(new)
  BY <1>4, <1>5 DEF Apart
<1>7. HandlesOf(new) = (HandlesOf(map) \ ToSet(map[v])) \cup ToSet(s)
  <2>1. ASSUME NEW p \in HandlesOf(new)
        PROVE  p \in (HandlesOf(map) \ ToSet(map[v])) \cup ToSet(s)
    <3>1. PICK w \in Validators : p \in ToSet(new[w])
      BY DEF HandlesOf
    <3>2. CASE w = v
      BY <1>2, <3>1, <3>2
    <3>3. CASE w # v
      BY <1>2, <1>3, <3>1, <3>3
    <3>4. QED BY <3>2, <3>3
  <2>2. ASSUME NEW p \in HandlesOf(map), p \notin ToSet(map[v]) PROVE p \in HandlesOf(new)
    <3>1. PICK w \in Validators : p \in ToSet(map[w])
      BY DEF HandlesOf
    <3>2. w # v /\ p \in ToSet(new[w])
      BY <1>2, <2>2, <3>1
    <3>3. QED BY <3>2 DEF HandlesOf
  <2>3. ASSUME NEW p \in ToSet(s) PROVE p \in HandlesOf(new)
    <3>1. p \in ToSet(new[v])
      BY <1>2
    <3>2. QED BY <3>1 DEF HandlesOf
  <2>4. QED BY <2>1, <2>2, <2>3
<1>8. QED BY <1>1, <1>6, <1>7 DEF new

(* The children that all validators have, in one sequence.                  *)
LEMMA ChildrenElements ==
  ASSUME running \in [Validators -> Seq(Processes)]
  PROVE  /\ Children \in Seq(Processes)
         /\ ToSet(Children) = HandlesOf(running)
         /\ Apart(running) => IsInjective(Children)
<1> DEFINE s == [i \in 1..NumValidators |-> running[i - 1]]
           n == NumValidators
<1>1. n \in Nat \ {0}
  BY LocalNetAssumption
<1>2. \A i \in 1..n : i - 1 \in Validators /\ s[i] = running[i - 1]
  BY <1>1 DEF Validators
<1>3. \A v \in Validators : v + 1 \in 1..n /\ s[v + 1] = running[v]
  BY <1>1 DEF Validators
<1>4. s \in [1..n -> Seq(Processes)]
  BY <1>2
<1>5. Children = FlattenSeq(s)
  BY DEF Children
<1> HIDE DEF s, n
<1>6. /\ FlattenSeq(s) \in Seq(Processes)
      /\ ToSet(FlattenSeq(s)) = Elements(s, n)
      /\ Separate(s, n) => IsInjective(FlattenSeq(s))
  BY <1>1, <1>4, FlattenElements
<1>7. Elements(s, n) = HandlesOf(running)
  <2>1. ASSUME NEW p \in Elements(s, n) PROVE p \in HandlesOf(running)
    <3>1. PICK i \in 1..n : p \in ToSet(s[i])
      BY DEF Elements
    <3>2. QED BY <1>2, <3>1 DEF HandlesOf
  <2>2. ASSUME NEW p \in HandlesOf(running) PROVE p \in Elements(s, n)
    <3>1. PICK v \in Validators : p \in ToSet(running[v])
      BY DEF HandlesOf
    <3>2. v + 1 \in 1..n /\ p \in ToSet(s[v + 1])
      BY <1>3, <3>1
    <3>3. QED BY <3>2, Zenon DEF Elements
  <2>3. QED BY <2>1, <2>2
<1>8. Apart(running) => Separate(s, n)
  <2> SUFFICES ASSUME Apart(running) PROVE Separate(s, n)
    OBVIOUS
  <2>1. \A k \in 1..n : IsInjective(s[k])
    BY <1>2 DEF Apart
  <2>2. ASSUME NEW j \in 1..n, NEW k \in 1..n, j # k
        PROVE  ToSet(s[j]) \cap ToSet(s[k]) = {}
    <3>1. j - 1 \in Validators /\ k - 1 \in Validators /\ j - 1 # k - 1
      BY <1>2, <2>2
    <3>2. ToSet(running[j - 1]) \cap ToSet(running[k - 1]) = {}
      BY <3>1 DEF Apart
    <3>3. QED BY <1>2, <3>2
  <2>3. QED BY <2>1, <2>2 DEF Separate
<1>9. QED BY <1>5, <1>6, <1>7, <1>8

(* Dropping some of the handles: the rest and the dying still account for   *)
(* the table.                                                               *)
LEMMA DroppingTracks ==
  ASSUME NEW table \in Table, dropped \subseteq Processes,
         NEW kept, NEW gone, kept \cap gone = {},
         Tracks(kept \cup gone, dropped, table), DropHandles(gone, table)
  PROVE  /\ process' \in Table /\ dropped' \subseteq Processes
         /\ Tracks(kept, dropped', process')
<1>1. \A p \in Processes :
        process'[p] = IF p \in gone /\ ~Alive(table[p]) THEN Unused ELSE table[p]
  BY DEF DropHandles
<1>2. dropped' = dropped \cup {p \in gone : Alive(table[p])}
  BY DEF DropHandles
<1>3. process' \in Table
  BY DEF DropHandles, Table
<1>4. gone \subseteq Processes
  BY DEF Tracks, UsedIn
<1>5. ~Alive(Unused)
  BY DEF Alive, Unused
<1>6. \A p \in Processes : process'[p] # Unused <=>
        table[p] # Unused /\ (p \in gone => Alive(table[p]))
  BY <1>1, <1>5
<1>7. UsedIn(process') = UsedIn(table) \ {p \in gone : ~Alive(table[p])}
  BY <1>4, <1>6 DEF UsedIn
<1>8. UsedIn(table) = kept \cup gone \cup dropped /\ (kept \cup gone) \cap dropped = {}
  BY DEF Tracks
<1>9. Tracks(kept, dropped', process')
  BY <1>2, <1>7, <1>8 DEF Tracks
<1>10. QED BY <1>2, <1>3, <1>4, <1>9

(* A new status of a used process leaves it used.                           *)
LEMMA StatusUsed ==
  ASSUME NEW table \in Table, NEW p \in Processes, table[p] # Unused,
         NEW status \in {"starting", "serving", "refused", "exited", "waited"}
  PROVE  /\ [table EXCEPT ![p].status = status] \in Table
         /\ UsedIn([table EXCEPT ![p].status = status]) = UsedIn(table)
<1> DEFINE new == [table EXCEPT ![p].status = status]
<1>1. table[p] \in Record
  BY DEF Table
<1>2. [table[p] EXCEPT !.status = status] \in Record
  BY <1>1 DEF Record
<1>3. \A q \in Processes : new[q] = IF q = p THEN [table[p] EXCEPT !.status = status] ELSE table[q]
  BY DEF Table
<1>4. new \in Table
  BY <1>2 DEF Table
<1>5. Unused \notin Record
  BY DEF Unused, Record
<1> HIDE DEF new
<1>6. \A q \in Processes : new[q] # Unused <=> table[q] # Unused
  BY <1>2, <1>3, <1>5
<1>7. UsedIn(new) = UsedIn(table)
  BY <1>6 DEF UsedIn
<1>8. QED BY <1>4, <1>7 DEF new

(* A validator without children.                                            *)
LEMMA ChildrenForgotten ==
  ASSUME NEW map \in [Validators -> Seq(Processes)], Apart(map), NEW v \in Validators
  PROVE  /\ [map EXCEPT ![v] = <<>>] \in [Validators -> Seq(Processes)]
         /\ Apart([map EXCEPT ![v] = <<>>])
         /\ HandlesOf([map EXCEPT ![v] = <<>>]) = HandlesOf(map) \ ToSet(map[v])
<1>1. PICK s \in Seq(Processes) : s = <<>>
  BY EmptySeq
<1>2. ToSet(s) = {} /\ IsInjective(s)
  BY <1>1, ElementsOfSeq
<1> DEFINE rest == HandlesOf(map) \ ToSet(map[v])
<1>3. /\ [map EXCEPT ![v] = s] \in [Validators -> Seq(Processes)]
      /\ Apart([map EXCEPT ![v] = s])
      /\ HandlesOf([map EXCEPT ![v] = s]) = (HandlesOf(map) \ ToSet(map[v])) \cup ToSet(s)
  <2>1. ToSet(s) \cap rest = {}
    BY <1>2
  <2>2. QED BY <1>2, <2>1, ChildrenReplaced
<1>4. HandlesOf(map) \ ToSet(map[v]) = (HandlesOf(map) \ ToSet(map[v])) \cup ToSet(s)
  BY <1>2
<1>5. QED BY <1>1, <1>3, <1>4, Zenon

-----------------------------------------------------------------------------
(* One lemma per kind of step.  Every step leaves the operation alone or    *)
(* goes on to another one of the network.                                   *)

NetKept == NetInv' /\ (op' = op \/ op' \in Operations)

(* The roles of a validator, proxies first.                                 *)
LEMMA RolesOfType ==
  ASSUME NEW v \in Validators
  PROVE  RolesOf(v) \in Seq(Roles) \ {<<>>}
<1> DEFINE n == NumProxies + NumShards
<1>1. n \in Nat /\ n # 0 /\ NumProxies \in Nat /\ NumShards \in Nat
  BY LocalNetAssumption
<1>2. \A k \in 1..n : RolesOf(v)[k] \in Roles
  <2> TAKE k \in 1..n
  <2>1. CASE k <= NumProxies
    <3>1. k - 1 \in 0..(NumProxies - 1)
      BY <1>1, <2>1
    <3>2. RolesOf(v)[k] = [validator |-> v, kind |-> "proxy", id |-> k - 1]
      BY <2>1 DEF RolesOf
    <3>3. QED BY <3>1, <3>2 DEF Roles
  <2>2. CASE ~(k <= NumProxies)
    <3>1. k - NumProxies - 1 \in 0..(NumShards - 1)
      BY <1>1, <2>2
    <3>2. RolesOf(v)[k] = [validator |-> v, kind |-> "server", id |-> k - NumProxies - 1]
      BY <2>2 DEF RolesOf
    <3>3. QED BY <3>1, <3>2 DEF Roles
  <2>3. QED BY <2>1, <2>2
<1>3. RolesOf(v) = [k \in 1..n |-> RolesOf(v)[k]]
  BY DEF RolesOf
<1>4. RolesOf(v) \in [1..n -> Roles]
  <2> DEFINE f == RolesOf(v)
  <2>1. f = [k \in 1..n |-> f[k]] /\ \A k \in 1..n : f[k] \in Roles
    BY <1>2, <1>3
  <2> HIDE DEF f
  <2>2. f \in [1..n -> Roles]
    BY <2>1
  <2>3. QED BY <2>2 DEF f
<1>5. RolesOf(v) \in Seq(Roles) /\ Len(RolesOf(v)) = n
  BY <1>1, <1>4
<1>6. RolesOf(v) # <<>>
  BY <1>1, <1>5, EmptySeq
<1>7. QED BY <1>5, <1>6

(* Between operations nothing is held outside of the map.                   *)
LEMMA IdleHolds ==
  ASSUME NetInv, op.type = "Idle"
  PROVE  /\ NetTypes /\ Apart(running)
         /\ Tracks(HandlesOf(running), dropped, process)
<1>1. Held = {}
  BY DEF Held, StartTypes, KillTypes
<1>2. QED BY <1>1 DEF NetInv

(* The invariant once an operation has ended, or before it has started a    *)
(* child.                                                                   *)
LEMMA NothingHeld ==
  ASSUME NetTypes', Apart(running)', Tracks(HandlesOf(running), dropped, process)',
         \/ op' \in {Idle("Ok"), Idle("Err")}
         \/ \E v \in Validators, type \in StartTypes, roles \in Seq(Roles) \ {<<>>} :
              op' = Starting(type, v, roles)
         \/ op'.type = "Posts"
  PROVE  NetInv'
<1>1. CASE op' \in {Idle("Ok"), Idle("Err")} \/ op'.type = "Posts"
  <2>1. op'.type \notin StartTypes /\ op'.type \notin KillTypes
    BY <1>1 DEF Idle, StartTypes, KillTypes
  <2>2. Held' = {} /\ Prepared'
    BY <2>1 DEF Held, Prepared, StartTypes, KillTypes
  <2>3. QED BY <2>2 DEF NetInv
<1>2. ASSUME NEW v \in Validators, NEW type \in StartTypes, NEW roles,
             op' = Starting(type, v, roles)
      PROVE  NetInv'
  <2>1. op'.type = type /\ op'.built = <<>> /\ op'.child = NoChild
    BY <1>2 DEF Starting
  <2>2. ToSet(<<>>) = {} /\ IsInjective(<<>>)
    BY ElementsOfSeq, EmptySeq
  <2>3. Held' = {} /\ Prepared'
    BY <2>1, <2>2 DEF Held, Prepared, StartTypes
  <2>4. QED BY <2>3 DEF NetInv
<1>3. QED BY <1>1, <1>2

(* Operations that start children, or only change what is started later.    *)
LEMMA StartStep ==
  ASSUME NetInv, NEW v \in Validators,
         \/ StartValidator(v) \/ RestartValidator(v)
         \/ \E shard \in 0..(NumShards - 1) : StartServer(v, shard)
         \/ \E d \in Directories : SetDirectory(d)
  PROVE  NetKept
<1>1. /\ running' = running /\ process' = process /\ dropped' = dropped /\ faults' = faults
      /\ op.type = "Idle"
  BY DEF StartValidator, RestartValidator, StartServer, SetDirectory
<1>2. NetTypes /\ Apart(running) /\ Tracks(HandlesOf(running), dropped, process)
  BY <1>1, IdleHolds
<1>3. \/ op' \in {Idle("Ok"), Idle("Err")}
      \/ \E w \in Validators, type \in StartTypes, roles \in Seq(Roles) \ {<<>>} :
           op' = Starting(type, w, roles)
  <2>1. CASE StartValidator(v) \/ RestartValidator(v)
    BY <2>1, RolesOfType DEF StartValidator, RestartValidator, StartTypes
  <2>2. ASSUME NEW shard \in 0..(NumShards - 1), StartServer(v, shard)
        PROVE  \E type \in StartTypes, roles \in Seq(Roles) \ {<<>>} :
                 op' = Starting(type, v, roles)
    <3> DEFINE role == [validator |-> v, kind |-> "server", id |-> shard]
    <3>1. role \in Roles
      BY DEF Roles
    <3> HIDE DEF role
    <3>2. <<role>> \in Seq(Roles) \ {<<>>}
      BY <3>1
    <3>3. op' = Starting("StartServer", v, <<role>>)
      BY <2>2 DEF StartServer, role
    <3>4. QED BY <3>2, <3>3 DEF StartTypes
  <2>3. CASE \E d \in Directories : SetDirectory(d)
    BY <2>3 DEF SetDirectory
  <2>4. QED BY <2>1, <2>2, <2>3
<1>4. op' \in Operations
  <2>1. ASSUME NEW w \in Validators, NEW type \in StartTypes, NEW roles \in Seq(Roles) \ {<<>>}
        PROVE  Starting(type, w, roles) \in StartOperations
    BY EmptySeq DEF Starting, StartOperations
  <2>2. QED BY <1>3, <2>1, OperationTypes
<1>5. storages' \subseteq Validators /\ directory' \in Directories
  BY <1>2 DEF NetTypes, StartValidator, RestartValidator, StartServer, SetDirectory
<1>6. NetTypes'
  BY <1>1, <1>2, <1>4, <1>5 DEF NetTypes
<1>7. Apart(running)' /\ Tracks(HandlesOf(running), dropped, process)'
  BY <1>1, <1>2
<1>8. NetInv'
  BY <1>3, <1>6, <1>7, NothingHeld
<1>9. QED BY <1>4, <1>8 DEF NetKept

(* A killed list and what is owned until then.                              *)
LEMMA KillPrepared ==
  ASSUME NetTypes', Apart(running)',
         NEW type \in KillTypes, NEW queue \in Seq(Processes) \ {<<>>},
         NEW owned \in SUBSET Processes, op' = Killing(type, queue, owned),
         HandlesOf(running)' \cap owned = {},
         Tracks(HandlesOf(running)' \cup owned, dropped', process'),
         \/ type # "Terminate" /\ ToSet(queue) \subseteq owned
         \/ type = "Terminate" /\ ToSet(queue) \subseteq HandlesOf(running)' /\ owned = {}
  PROVE  NetInv'
<1>1. op'.type = type /\ op'.queue = queue /\ op'.owned = owned
  BY DEF Killing
<1>2. Held' = owned /\ Prepared'
  BY <1>1 DEF Held, Prepared, StartTypes, KillTypes
<1>3. QED BY <1>2 DEF NetInv

(* A validator leaves the map before its children are killed.               *)
LEMMA StopStep ==
  ASSUME NetInv, NEW v \in Validators, StopValidator(v)
  PROVE  NetKept
<1>1. /\ op.type = "Idle" /\ process' = process /\ dropped' = dropped /\ faults' = faults
      /\ storages' = storages /\ directory' = directory
      /\ running' = [running EXCEPT ![v] = <<>>]
  BY DEF StopValidator, NotRunning
<1>2. NetTypes /\ Apart(running) /\ Tracks(HandlesOf(running), dropped, process)
  BY <1>1, IdleHolds
<1>3. running[v] \in Seq(Processes) /\ <<>> \in Seq(Processes)
      /\ ToSet(<<>>) = {} /\ IsInjective(<<>>)
  BY <1>2, ElementsOfSeq DEF NetTypes
<1>4. /\ running' \in [Validators -> Seq(Processes)] /\ Apart(running)'
      /\ HandlesOf(running)' = HandlesOf(running) \ ToSet(running[v])
  BY <1>1, <1>2, ChildrenForgotten DEF NetTypes
<1>5. ToSet(running[v]) \subseteq HandlesOf(running) /\ ToSet(running[v]) \subseteq Processes
  BY <1>3, ElementsOfSeq DEF HandlesOf
<1>6. CASE running[v] = NotRunning
  <2>1. op' = Idle("Ok") /\ op' \in Operations
    BY <1>6, OperationTypes DEF StopValidator
  <2>2. NetTypes'
    BY <1>1, <1>2, <1>4, <2>1 DEF NetTypes
  <2>3. HandlesOf(running)' = HandlesOf(running)
    BY <1>3, <1>4, <1>6 DEF NotRunning
  <2>4. Tracks(HandlesOf(running), dropped, process)'
    BY <1>1, <1>2, <2>3
  <2>5. NetInv'
    BY <1>4, <2>1, <2>2, <2>4, NothingHeld
  <2>6. QED BY <2>1, <2>5 DEF NetKept
<1>7. CASE running[v] # NotRunning
  <2> DEFINE queue == running[v]
             owned == ToSet(running[v])
  <2>1. op' = Killing("Stop", queue, owned)
    BY <1>7 DEF StopValidator
  <2>2. queue \in Seq(Processes) \ {<<>>} /\ owned \in SUBSET Processes
    BY <1>3, <1>5, <1>7 DEF NotRunning
  <2>3. op' \in Operations
    <3>1. op' \in KillOperations
      BY <2>1, <2>2 DEF Killing, KillOperations, KillTypes
    <3>2. QED BY <3>1, OperationTypes
  <2>4. NetTypes'
    BY <1>1, <1>2, <1>4, <2>3 DEF NetTypes
  <2>5. HandlesOf(running)' \cap owned = {} /\ HandlesOf(running)' \cup owned = HandlesOf(running)
    BY <1>4, <1>5
  <2>6. Tracks(HandlesOf(running)' \cup owned, dropped', process')
    BY <1>1, <1>2, <2>5
  <2>7. NetInv'
    <3> HIDE DEF queue, owned
    <3>1. "Stop" \in KillTypes /\ "Stop" # "Terminate" /\ ToSet(queue) \subseteq owned
      BY DEF KillTypes, queue, owned
    <3>2. QED BY <1>4, <2>1, <2>2, <2>4, <2>5, <2>6, <3>1, KillPrepared
  <2>8. QED BY <2>3, <2>7 DEF NetKept
<1>8. QED BY <1>6, <1>7

(* One child leaves the map before it is killed.                            *)
LEMMA TerminateServerStep ==
  ASSUME NetInv, NEW v \in Validators, NEW index, TerminateServer(v, index)
  PROVE  NetKept
<1>1. /\ op.type = "Idle" /\ process' = process /\ dropped' = dropped /\ faults' = faults
      /\ storages' = storages /\ directory' = directory
  BY DEF TerminateServer
<1>2. NetTypes /\ Apart(running) /\ Tracks(HandlesOf(running), dropped, process)
  BY <1>1, IdleHolds
<1>3. CASE op' = Idle("Err") /\ running' = running
  <2>1. op' \in Operations
    BY <1>3, OperationTypes
  <2>2. NetTypes'
    BY <1>1, <1>2, <1>3, <2>1 DEF NetTypes
  <2>3. Apart(running)' /\ Tracks(HandlesOf(running), dropped, process)'
    BY <1>1, <1>2, <1>3
  <2>4. NetInv'
    BY <1>3, <2>2, <2>3, NothingHeld
  <2>5. QED BY <2>1, <2>4 DEF NetKept
<1>4. ASSUME NEW k \in DOMAIN running[v],
             op' = Killing("TerminateServer", <<running[v][k]>>, {running[v][k]}),
             running' = [running EXCEPT ![v] = RemoveAt(running[v], k)]
      PROVE  NetKept
  <2> DEFINE p == running[v][k]
             rest == RemoveAt(running[v], k)
  <2>1. running[v] \in Seq(Processes) /\ IsInjective(running[v]) /\ p \in ToSet(running[v])
        /\ ToSet(running[v]) \subseteq HandlesOf(running) /\ ToSet(running[v]) \subseteq Processes
    <3>1. running[v] \in Seq(Processes) /\ IsInjective(running[v])
      BY <1>2 DEF NetTypes, Apart
    <3>2. QED BY <3>1, ElementsOfSeq DEF HandlesOf
  <2>2. rest \in Seq(Processes) /\ IsInjective(rest) /\ ToSet(rest) = ToSet(running[v]) \ {p}
    BY <2>1, RemovedElement
  <2> HIDE DEF p, rest
  <2>3. running' = [running EXCEPT ![v] = rest]
        /\ op' = Killing("TerminateServer", <<p>>, {p})
    BY <1>4 DEF p, rest
  <2>4. ToSet(rest) \cap (HandlesOf(running) \ ToSet(running[v])) = {}
    BY <2>2
  <2>5. /\ running' \in [Validators -> Seq(Processes)] /\ Apart(running)'
        /\ HandlesOf(running)' = (HandlesOf(running) \ ToSet(running[v])) \cup ToSet(rest)
    <3>1. /\ [running EXCEPT ![v] = rest] \in [Validators -> Seq(Processes)]
          /\ Apart([running EXCEPT ![v] = rest])
          /\ HandlesOf([running EXCEPT ![v] = rest])
               = (HandlesOf(running) \ ToSet(running[v])) \cup ToSet(rest)
      BY <1>2, <2>2, <2>4, ChildrenReplaced DEF NetTypes
    <3>2. QED BY <2>3, <3>1
  <2>6. p \in Processes /\ HandlesOf(running)' = HandlesOf(running) \ {p}
        /\ HandlesOf(running)' \cap {p} = {} /\ HandlesOf(running)' \cup {p} = HandlesOf(running)
    BY <2>1, <2>2, <2>5
  <2>7. <<p>> \in Seq(Processes) \ {<<>>} /\ ToSet(<<p>>) = {p}
    <3>1. <<p>> \in Seq(Processes) /\ DOMAIN <<p>> = {1} /\ <<p>>[1] = p /\ Len(<<p>>) = 1
      BY <2>6
    <3>2. QED BY <3>1 DEF ToSet
  <2>8. op' \in Operations
    <3>1. op' \in KillOperations
      BY <2>3, <2>6, <2>7 DEF Killing, KillOperations, KillTypes
    <3>2. QED BY <3>1, OperationTypes
  <2>9. NetTypes'
    BY <1>1, <1>2, <2>5, <2>8 DEF NetTypes
  <2>10. Tracks(HandlesOf(running)' \cup {p}, dropped', process')
    BY <1>1, <1>2, <2>6
  <2>11. NetInv'
    <3>1. "TerminateServer" \in KillTypes /\ "TerminateServer" # "Terminate"
          /\ {p} \in SUBSET Processes /\ ToSet(<<p>>) \subseteq {p}
      BY <2>6, <2>7 DEF KillTypes
    <3>2. QED BY <2>3, <2>5, <2>6, <2>7, <2>9, <2>10, <3>1, KillPrepared
  <2>12. QED BY <2>8, <2>11 DEF NetKept
<1>5. QED BY <1>3, <1>4 DEF TerminateServer

(* The handles of a validator are dropped.                                  *)
LEMMA RemoveStep ==
  ASSUME NetInv, NEW v \in Validators, RemoveValidator(v)
  PROVE  NetKept
<1>1. /\ op.type = "Idle" /\ faults' = faults
      /\ storages' = storages /\ directory' = directory
      /\ running' = [running EXCEPT ![v] = <<>>]
      /\ DropHandles(ToSet(running[v]), process)
      /\ op' \in {Idle("Ok"), Idle("Err")}
  BY DEF RemoveValidator, NotRunning
<1>2. NetTypes /\ Apart(running) /\ Tracks(HandlesOf(running), dropped, process)
  BY <1>1, IdleHolds
<1>3. running[v] \in Seq(Processes) /\ <<>> \in Seq(Processes)
      /\ ToSet(<<>>) = {} /\ IsInjective(<<>>)
  BY <1>2, ElementsOfSeq DEF NetTypes
<1>4. /\ running' \in [Validators -> Seq(Processes)] /\ Apart(running)'
      /\ HandlesOf(running)' = HandlesOf(running) \ ToSet(running[v])
  BY <1>1, <1>2, ChildrenForgotten DEF NetTypes
<1>5. ToSet(running[v]) \subseteq HandlesOf(running)
  BY DEF HandlesOf
<1> DEFINE kept == HandlesOf(running)'
           gone == ToSet(running[v])
<1>6. kept \cap gone = {} /\ kept \cup gone = HandlesOf(running)
  BY <1>4, <1>5
<1>7. process' \in Table /\ dropped' \subseteq Processes /\ Tracks(kept, dropped', process')
  <2>1. process \in Table /\ dropped \subseteq Processes /\ DropHandles(gone, process)
        /\ Tracks(kept \cup gone, dropped, process)
    BY <1>1, <1>2, <1>6 DEF NetTypes
  <2> HIDE DEF kept, gone
  <2>2. QED BY <1>6, <2>1, DroppingTracks
<1>8. op' \in Operations
  BY <1>1, OperationTypes
<1>9. NetTypes'
  BY <1>1, <1>2, <1>4, <1>7, <1>8 DEF NetTypes
<1>10. NetInv'
  BY <1>1, <1>4, <1>7, <1>9, NothingHeld
<1>11. QED BY <1>8, <1>10 DEF NetKept

(* All children are to be killed, and stay in the map.                      *)
LEMMA TerminateStep ==
  ASSUME NetInv, Terminate
  PROVE  NetKept
<1>1. /\ op.type = "Idle" /\ process' = process /\ dropped' = dropped /\ faults' = faults
      /\ storages' = storages /\ directory' = directory /\ running' = running
  BY DEF Terminate
<1>2. NetTypes /\ Apart(running) /\ Tracks(HandlesOf(running), dropped, process)
  BY <1>1, IdleHolds
<1>3. Children \in Seq(Processes) /\ ToSet(Children) = HandlesOf(running)
  BY <1>2, ChildrenElements DEF NetTypes
<1>4. /\ Apart(running)' /\ HandlesOf(running)' = HandlesOf(running)
      /\ Tracks(HandlesOf(running), dropped, process)'
  BY <1>1, <1>2
<1>5. CASE Children = <<>>
  <2>1. op' = Idle("Ok") /\ op' \in Operations
    BY <1>5, OperationTypes DEF Terminate
  <2>2. NetTypes'
    BY <1>1, <1>2, <2>1 DEF NetTypes
  <2>3. NetInv'
    BY <1>4, <2>1, <2>2, NothingHeld
  <2>4. QED BY <2>1, <2>3 DEF NetKept
<1>6. CASE Children # <<>>
  <2>1. op' = Killing("Terminate", Children, {})
    BY <1>6 DEF Terminate
  <2>2. PICK queue \in Seq(Processes) \ {<<>>} : queue = Children
    BY <1>3, <1>6
  <2>3. PICK owned \in SUBSET Processes : owned = {}
    OBVIOUS
  <2>4. op' = Killing("Terminate", queue, owned)
    BY <2>1, <2>2, <2>3
  <2>5. op' \in Operations
    <3>1. op' \in KillOperations
      BY <2>4 DEF Killing, KillOperations, KillTypes
    <3>2. QED BY <3>1, OperationTypes
  <2>6. NetTypes'
    BY <1>1, <1>2, <2>5 DEF NetTypes
  <2>7. HandlesOf(running)' \cap owned = {} /\ HandlesOf(running)' \cup owned = HandlesOf(running)
    BY <1>4, <2>3
  <2>8. Tracks(HandlesOf(running)' \cup owned, dropped', process')
    BY <1>1, <1>2, <2>7
  <2>9. ToSet(queue) \subseteq HandlesOf(running)' /\ "Terminate" \in KillTypes
    BY <1>3, <1>4, <2>2 DEF KillTypes
  <2>10. NetInv'
    BY <1>4, <2>3, <2>4, <2>6, <2>7, <2>8, <2>9, KillPrepared
  <2>11. QED BY <2>5, <2>10 DEF NetKept
<1>7. QED BY <1>5, <1>6

(* Waiting for a child gives it another status.                             *)
LEMMA EnsureStep ==
  ASSUME NetInv, EnsureIsRunning
  PROVE  NetKept
<1> DEFINE failed == {i \in DOMAIN Children : ~Alive(process[Children[i]])}
<1>1. /\ op.type = "Idle" /\ dropped' = dropped /\ faults' = faults
      /\ storages' = storages /\ directory' = directory /\ running' = running
      /\ op' \in {Idle("Ok"), Idle("Err")}
      /\ \/ process' = process
         \/ failed # {} /\ process' = [process EXCEPT ![Children[Min(failed)]].status = "waited"]
  BY DEF EnsureIsRunning
<1>2. NetTypes /\ Apart(running) /\ Tracks(HandlesOf(running), dropped, process)
  BY <1>1, IdleHolds
<1>3. Children \in Seq(Processes) /\ ToSet(Children) = HandlesOf(running)
  BY <1>2, ChildrenElements DEF NetTypes
<1>4. process' \in Table /\ UsedIn(process') = UsedIn(process)
  <2>1. CASE process' = process
    BY <1>2, <2>1 DEF NetTypes
  <2>2. CASE failed # {} /\ process' = [process EXCEPT ![Children[Min(failed)]].status = "waited"]
    <3>1. failed \subseteq Nat
      BY <1>3
    <3>2. \E m \in failed : \A k \in failed : m <= k
      BY <2>2, <3>1, LeastNatural
    <3>3. Min(failed) \in failed
      BY <3>2, Zenon DEF Min
    <3>4. PICK p : p = Children[Min(failed)]
      OBVIOUS
    <3>5. p \in HandlesOf(running)
      BY <1>3, <3>3, <3>4 DEF ToSet
    <3>6. p \in Processes /\ process[p] # Unused
      BY <1>2, <3>5 DEF Tracks, UsedIn
    <3>7. process' = [process EXCEPT ![p].status = "waited"] /\ process \in Table
      BY <1>2, <2>2, <3>4 DEF NetTypes
    <3>8. /\ [process EXCEPT ![p].status = "waited"] \in Table
          /\ UsedIn([process EXCEPT ![p].status = "waited"]) = UsedIn(process)
      BY <3>6, <3>7, StatusUsed
    <3>9. QED BY <3>7, <3>8
  <2>3. QED BY <1>1, <2>1, <2>2
<1>5. op' \in Operations
  BY <1>1, OperationTypes
<1>6. NetTypes'
  BY <1>1, <1>2, <1>4, <1>5 DEF NetTypes
<1>7. Apart(running)' /\ Tracks(HandlesOf(running), dropped, process)'
  BY <1>1, <1>2, <1>4 DEF Tracks
<1>8. NetInv'
  BY <1>1, <1>6, <1>7, NothingHeld
<1>9. QED BY <1>5, <1>8 DEF NetKept

-----------------------------------------------------------------------------
(* Starting.                                                                *)

(* What an operation that starts children holds.                            *)
LEMMA Started ==
  ASSUME NetInv, op.type \in StartTypes
  PROVE  /\ op \in StartOperations
         /\ Held = (ToSet(op.built) \cup {op.child}) \ {NoChild}
         /\ ToSet(op.built) \subseteq Processes /\ NoChild \notin ToSet(op.built)
         /\ IsInjective(op.built) /\ op.child \notin ToSet(op.built)
<1>1. op \in StartOperations
  BY OperationKinds DEF NetInv, NetTypes
<1>2. op.built \in Seq(Processes)
  BY <1>1 DEF StartOperations
<1>3. ToSet(op.built) \subseteq Processes
  BY <1>2, ElementsOfSeq
<1>4. QED BY <1>1, <1>3, LocalNetAssumption DEF NetInv, Held, Prepared

(* A new process, held by the operation.                                    *)
LEMMA SpawnStep ==
  ASSUME NetInv, NEW p \in Processes, Spawn(p)
  PROVE  NetKept
<1>1. /\ op.type \in StartTypes /\ op.child = NoChild /\ process[p] = Unused
      /\ op' = [op EXCEPT !.child = p]
      /\ process' = [process EXCEPT ![p] =
           [role |-> Head(op.roles), directory |-> directory, status |-> "starting"]]
      /\ dropped' = dropped /\ faults' = faults
      /\ storages' = storages /\ directory' = directory /\ running' = running
  BY DEF Spawn, StartTypes
<1>2. NetTypes
  BY DEF NetInv
<1>3. /\ op \in StartOperations /\ IsInjective(op.built) /\ ToSet(op.built) \subseteq Processes
      /\ NoChild \notin ToSet(op.built)
      /\ Held = (ToSet(op.built) \cup {op.child}) \ {NoChild}
  BY <1>1, Started
<1>4. op.roles \in Seq(Roles) /\ op.roles # <<>>
  BY <1>3 DEF StartOperations
<1>5. Head(op.roles) \in Roles
  BY <1>4
<1> DEFINE record == [role |-> Head(op.roles), directory |-> directory, status |-> "starting"]
<1>6. record \in Record /\ record # Unused
  BY <1>2, <1>5 DEF NetTypes, Record, Unused
<1>7. process' = [process EXCEPT ![p] = record]
  BY <1>1
<1> HIDE DEF record
<1>8. process' \in Table /\ UsedIn(process') = UsedIn(process) \cup {p}
  BY <1>2, <1>6, <1>7 DEF NetTypes, Table, UsedIn
<1>9. p \notin UsedIn(process)
  BY <1>1 DEF UsedIn
<1>10. /\ op' \in StartOperations /\ op'.type \in StartTypes /\ op'.built = op.built
       /\ op'.child = p
  BY <1>1, <1>3 DEF StartOperations
<1>11. op' \in Operations
  BY <1>10, OperationTypes
<1>12. NetTypes'
  BY <1>1, <1>2, <1>8, <1>11 DEF NetTypes
<1>13. Held = ToSet(op.built)
  BY <1>1, <1>3
<1>14. Held' = Held \cup {p}
  BY <1>3, <1>10, <1>13, LocalNetAssumption DEF Held
<1>15. Tracks(HandlesOf(running) \cup Held, dropped, process) /\ HandlesOf(running) \cap Held = {}
  BY DEF NetInv
<1>16. p \notin HandlesOf(running) \cup Held \cup dropped
  BY <1>9, <1>15 DEF Tracks
<1>17. Tracks(HandlesOf(running) \cup Held, dropped, process)'
  BY <1>1, <1>8, <1>14, <1>15, <1>16 DEF Tracks
<1>18. HandlesOf(running)' = HandlesOf(running) /\ Apart(running)'
  BY <1>1 DEF NetInv
<1>19. Prepared'
  BY <1>3, <1>10, <1>13, <1>16 DEF Prepared, StartTypes
<1>20. NetInv'
  BY <1>12, <1>14, <1>15, <1>16, <1>17, <1>18, <1>19 DEF NetInv
<1>21. QED BY <1>11, <1>20 DEF NetKept

(* An operation that ends by dropping what it holds.                        *)
LEMMA GivesUp ==
  ASSUME NetInv, NEW gone, gone = Held, DropHandles(gone, process),
         op' \in {Idle("Ok"), Idle("Err")},
         UNCHANGED <<running, storages, directory, faults>>
  PROVE  NetKept
<1> DEFINE kept == HandlesOf(running)
<1>1. /\ NetTypes /\ Apart(running) /\ kept \cap gone = {}
      /\ Tracks(kept \cup gone, dropped, process)
  BY DEF NetInv
<1>2. /\ process' \in Table /\ dropped' \subseteq Processes
      /\ Tracks(kept, dropped', process')
  <2>1. process \in Table /\ dropped \subseteq Processes
    BY <1>1 DEF NetTypes
  <2> HIDE DEF kept
  <2>2. QED BY <1>1, <2>1, DroppingTracks
<1>3. op' \in Operations
  BY OperationTypes
<1>4. NetTypes'
  BY <1>1, <1>2, <1>3 DEF NetTypes
<1>5. Apart(running)' /\ Tracks(HandlesOf(running), dropped, process)'
  BY <1>1, <1>2
<1>6. NetInv'
  BY <1>4, <1>5, NothingHeld
<1>7. QED BY <1>3, <1>6 DEF NetKept

(* The children that have started are dropped.                              *)
LEMMA CannotSpawnStep ==
  ASSUME NetInv, CannotSpawn
  PROVE  NetKept
<1>1. op.type \in StartTypes /\ op.child = NoChild
  BY DEF CannotSpawn, StartTypes
<1>2. ToSet(op.built) = Held
  BY <1>1, Started
<1>3. QED BY <1>2, GivesUp DEF CannotSpawn

(* So is one that does not answer.                                          *)
LEMMA HasNotStartedStep ==
  ASSUME NetInv, HasNotStarted
  PROVE  NetKept
<1>1. op.type \in StartTypes /\ op.child # NoChild
  BY DEF HasNotStarted, StartTypes
<1>2. ToSet(op.built) \cup {op.child} = Held
  BY <1>1, Started
<1>3. QED BY <1>2, GivesUp DEF HasNotStarted

(* The last child of an operation has started.                              *)
LEMMA FinishStep ==
  ASSUME NetInv, op.type \in StartTypes, op.child # NoChild,
         NEW built \in Seq(Processes), IsInjective(built), ToSet(built) = Held,
         Finish(built), UNCHANGED <<storages, directory, faults>>
  PROVE  NetKept
<1>1. op \in StartOperations
  BY Started
<1>2. PICK v \in Validators : v = op.validator
  BY <1>1 DEF StartOperations
<1>3. /\ NetTypes /\ Apart(running) /\ HandlesOf(running) \cap ToSet(built) = {}
      /\ Tracks(HandlesOf(running) \cup ToSet(built), dropped, process)
  BY DEF NetInv
<1>4. /\ running \in [Validators -> Seq(Processes)] /\ running[v] \in Seq(Processes)
      /\ process \in Table /\ dropped \subseteq Processes
      /\ ToSet(running[v]) \subseteq HandlesOf(running)
  BY <1>3 DEF NetTypes, HandlesOf
<1>5. CASE /\ running' = [running EXCEPT ![v] = built]
           /\ DropHandles(ToSet(running[v]), process)
           /\ op' = Idle("Ok")
  <2>0. ToSet(built) \cap (HandlesOf(running) \ ToSet(running[v])) = {}
    BY <1>3
  <2>1. /\ running' \in [Validators -> Seq(Processes)] /\ Apart(running)'
        /\ HandlesOf(running)' = (HandlesOf(running) \ ToSet(running[v])) \cup ToSet(built)
    <3>1. /\ [running EXCEPT ![v] = built] \in [Validators -> Seq(Processes)]
          /\ Apart([running EXCEPT ![v] = built])
          /\ HandlesOf([running EXCEPT ![v] = built])
               = (HandlesOf(running) \ ToSet(running[v])) \cup ToSet(built)
      BY <1>3, <1>4, <2>0, ChildrenReplaced
    <3>2. QED BY <1>5, <3>1
  <2> DEFINE kept == HandlesOf(running)'
             gone == ToSet(running[v])
  <2>2. kept \cap gone = {} /\ kept \cup gone = HandlesOf(running) \cup ToSet(built)
    BY <1>3, <1>4, <2>1
  <2>3. /\ process' \in Table /\ dropped' \subseteq Processes
        /\ Tracks(kept, dropped', process')
    <3>1. Tracks(kept \cup gone, dropped, process) /\ DropHandles(gone, process)
      BY <1>3, <1>5, <2>2
    <3> HIDE DEF kept, gone
    <3>2. QED BY <1>4, <2>2, <3>1, DroppingTracks
  <2>4. op' \in Operations
    BY <1>5, OperationTypes
  <2>5. NetTypes'
    BY <1>3, <2>1, <2>3, <2>4 DEF NetTypes
  <2>6. NetInv'
    BY <1>5, <2>1, <2>3, <2>5, NothingHeld
  <2>7. QED BY <2>4, <2>6 DEF NetKept
<1>6. CASE /\ running' = [running EXCEPT ![v] = running[v] \o built]
           /\ op' = Idle("Ok")
           /\ UNCHANGED <<process, dropped>>
  <2> DEFINE s == running[v] \o built
  <2>1. s \in Seq(Processes) /\ IsInjective(s) /\ ToSet(s) = ToSet(running[v]) \cup ToSet(built)
    <3>1. IsInjective(running[v]) /\ ToSet(running[v]) \cap ToSet(built) = {}
      BY <1>3, <1>4 DEF Apart
    <3>2. PICK r \in Seq(Processes) : r = running[v]
      BY <1>4
    <3>3. r \o built \in Seq(Processes) /\ ToSet(r \o built) = ToSet(r) \cup ToSet(built)
          /\ IsInjective(r \o built)
      BY <3>1, <3>2, ConcatElements
    <3>4. QED BY <3>2, <3>3
  <2> HIDE DEF s
  <2>2. ToSet(s) \cap (HandlesOf(running) \ ToSet(running[v])) = {}
    BY <1>3, <2>1
  <2>3. /\ running' \in [Validators -> Seq(Processes)] /\ Apart(running)'
        /\ HandlesOf(running)' = HandlesOf(running) \cup ToSet(built)
    <3>1. /\ [running EXCEPT ![v] = s] \in [Validators -> Seq(Processes)]
          /\ Apart([running EXCEPT ![v] = s])
          /\ HandlesOf([running EXCEPT ![v] = s])
               = (HandlesOf(running) \ ToSet(running[v])) \cup ToSet(s)
      <4>1. running \in [Validators -> Seq(Processes)] /\ Apart(running) /\ s \in Seq(Processes)
            /\ IsInjective(s) /\ ToSet(s) \cap (HandlesOf(running) \ ToSet(running[v])) = {}
        BY <1>3, <1>4, <2>1, <2>2
      <4>2. QED BY <4>1, ChildrenReplaced
    <3>2. running' = [running EXCEPT ![v] = s]
      BY <1>6 DEF s
    <3>3. (HandlesOf(running) \ ToSet(running[v])) \cup ToSet(s)
            = HandlesOf(running) \cup ToSet(built)
      BY <1>4, <2>1
    <3>4. QED BY <3>1, <3>2, <3>3
  <2>4. op' \in Operations
    BY <1>6, OperationTypes
  <2>5. NetTypes'
    BY <1>3, <1>6, <2>3, <2>4 DEF NetTypes
  <2>6. Tracks(HandlesOf(running), dropped, process)'
    BY <1>3, <1>6, <2>3
  <2>7. NetInv'
    BY <1>6, <2>3, <2>5, <2>6, NothingHeld
  <2>8. QED BY <2>4, <2>7 DEF NetKept
<1>7. CASE /\ DropHandles(ToSet(built), process)
           /\ op' = Idle("Err")
           /\ UNCHANGED running
  BY <1>7, GivesUp
<1>8. QED BY <1>2, <1>5, <1>6, <1>7 DEF Finish

(* A child has started: it is kept, and the operation goes on or ends.      *)
LEMMA HasStartedStep ==
  ASSUME NetInv, HasStarted
  PROVE  NetKept
<1> DEFINE built == Append(op.built, op.child)
<1>1. /\ op.type \in StartTypes /\ op.child # NoChild
      /\ UNCHANGED <<storages, directory, faults>>
      /\ \/ Len(op.roles) = 1 /\ Finish(built)
         \/ /\ Len(op.roles) # 1
            /\ op' = [op EXCEPT !.roles = Tail(op.roles), !.built = built, !.child = NoChild]
            /\ UNCHANGED <<running, process, dropped>>
  BY DEF HasStarted, StartTypes
<1>2. /\ op \in StartOperations /\ IsInjective(op.built) /\ op.child \notin ToSet(op.built)
      /\ NoChild \notin ToSet(op.built)
      /\ Held = (ToSet(op.built) \cup {op.child}) \ {NoChild}
  BY <1>1, Started
<1>3. op.built \in Seq(Processes) /\ op.child \in Processes
  BY <1>1, <1>2 DEF StartOperations
<1>4. built \in Seq(Processes) /\ IsInjective(built) /\ ToSet(built) = Held
  BY <1>1, <1>2, <1>3, AppendElements
<1> HIDE DEF built
<1>5. CASE Len(op.roles) = 1 /\ Finish(built)
  BY <1>1, <1>4, <1>5, FinishStep
<1>6. CASE /\ Len(op.roles) # 1
           /\ op' = [op EXCEPT !.roles = Tail(op.roles), !.built = built, !.child = NoChild]
           /\ UNCHANGED <<running, process, dropped>>
  <2>1. op.roles \in Seq(Roles) /\ op.roles # <<>>
    BY <1>2 DEF StartOperations
  <2>2. Tail(op.roles) \in Seq(Roles) \ {<<>>}
    BY <1>6, <2>1, TailElements
  <2>3. /\ op' \in StartOperations /\ op'.type \in StartTypes
        /\ op'.built = built /\ op'.child = NoChild
    BY <1>2, <1>4, <1>6, <2>2 DEF StartOperations
  <2>4. op' \in Operations
    BY <2>3, OperationTypes
  <2>5. NetTypes'
    BY <1>1, <1>6, <2>4 DEF NetInv, NetTypes
  <2>6. NoChild \notin ToSet(built)
    BY <1>2, <1>4
  <2>7. Held' = Held
    BY <1>4, <2>3, <2>6 DEF Held
  <2>8. Prepared'
    BY <1>4, <2>3, <2>6 DEF Prepared, StartTypes
  <2>9. NetInv'
    BY <1>6, <2>5, <2>7, <2>8 DEF NetInv
  <2>10. QED BY <2>4, <2>9 DEF NetKept
<1>7. QED BY <1>1, <1>5, <1>6

(* kill: the child is waited for, and its handle kept until the end.        *)
LEMMA KillStep ==
  ASSUME NetInv, Kill
  PROVE  NetKept
<1>1. op.type \in KillTypes
  BY DEF Kill, KillTypes
<1>2. op \in KillOperations
  BY <1>1, OperationKinds DEF NetInv, NetTypes
<1>3. /\ op.queue \in Seq(Processes) /\ op.queue # <<>> /\ op.owned \subseteq Processes
      /\ Held = op.owned
  BY <1>1, <1>2 DEF KillOperations, Held, StartTypes, KillTypes
<1>4. /\ NetTypes /\ Apart(running) /\ HandlesOf(running) \cap op.owned = {}
      /\ Tracks(HandlesOf(running) \cup op.owned, dropped, process)
      /\ ToSet(op.queue) \subseteq HandlesOf(running) \cup op.owned
  BY <1>1, <1>3 DEF NetInv, Prepared, KillTypes
<1> DEFINE p == Head(op.queue)
           killed == [process EXCEPT ![p].status = "waited"]
<1>5. p \in ToSet(op.queue)
  BY <1>3, ElementsOfSeq
<1>6. p \in Processes /\ process[p] # Unused
  BY <1>4, <1>5 DEF Tracks, UsedIn
<1>7. /\ \/ DropHandles(op.owned, process) /\ op' = Idle("Err")
         \/ DropHandles(op.owned, killed) /\ op' = Idle("Ok")
         \/ /\ Len(op.queue) # 1
            /\ process' = killed /\ op' = [op EXCEPT !.queue = Tail(op.queue)] /\ UNCHANGED dropped
      /\ UNCHANGED <<running, storages, directory, faults>>
  BY DEF Kill
<1>8. process \in Table /\ dropped \subseteq Processes
  BY <1>4 DEF NetTypes
<1> HIDE DEF p
<1>9. killed \in Table /\ UsedIn(killed) = UsedIn(process)
  BY <1>6, <1>8, StatusUsed
<1> HIDE DEF killed
<1>10. Tracks(HandlesOf(running) \cup op.owned, dropped, killed)
  BY <1>4, <1>9 DEF Tracks
<1>11. ASSUME NEW table \in Table, Tracks(HandlesOf(running) \cup op.owned, dropped, table),
              DropHandles(op.owned, table), op' \in {Idle("Ok"), Idle("Err")}
       PROVE  NetKept
  <2> DEFINE kept == HandlesOf(running)
             gone == op.owned
  <2>1. /\ process' \in Table /\ dropped' \subseteq Processes
        /\ Tracks(kept, dropped', process')
    <3>1. Tracks(kept \cup gone, dropped, table) /\ kept \cap gone = {} /\ DropHandles(gone, table)
      BY <1>4, <1>11
    <3> HIDE DEF kept, gone
    <3>2. QED BY <1>8, <3>1, DroppingTracks
  <2>2. op' \in Operations
    BY <1>11, OperationTypes
  <2>3. NetTypes'
    BY <1>4, <1>7, <2>1, <2>2 DEF NetTypes
  <2>4. Apart(running)' /\ Tracks(HandlesOf(running), dropped, process)'
    BY <1>4, <1>7, <2>1
  <2>5. NetInv'
    BY <1>11, <2>3, <2>4, NothingHeld
  <2>6. QED BY <2>2, <2>5 DEF NetKept
<1>12. CASE /\ Len(op.queue) # 1
            /\ process' = killed /\ op' = [op EXCEPT !.queue = Tail(op.queue)] /\ UNCHANGED dropped
  <2>1. /\ Tail(op.queue) \in Seq(Processes) \ {<<>>}
        /\ ToSet(Tail(op.queue)) \subseteq ToSet(op.queue)
    BY <1>3, <1>12, TailElements
  <2>2. /\ op' \in KillOperations /\ op'.type = op.type /\ op'.owned = op.owned
        /\ op'.queue = Tail(op.queue)
    BY <1>2, <1>12, <2>1 DEF KillOperations
  <2>3. op' \in Operations
    BY <2>2, OperationTypes
  <2>4. NetTypes'
    BY <1>4, <1>7, <1>9, <1>12, <2>3 DEF NetTypes
  <2>5. Held' = Held
    BY <1>1, <2>2 DEF Held, StartTypes, KillTypes
  <2>6. Prepared'
    BY <1>1, <1>7, <2>1, <2>2 DEF NetInv, Prepared, StartTypes, KillTypes
  <2>7. HandlesOf(running)' = HandlesOf(running) /\ Apart(running)'
    BY <1>4, <1>7
  <2>8. Tracks(HandlesOf(running) \cup Held, dropped, process)'
    BY <1>3, <1>10, <1>12, <2>5, <2>7
  <2>9. NetInv'
    BY <1>3, <1>4, <2>4, <2>5, <2>6, <2>7, <2>8 DEF NetInv
  <2>10. QED BY <2>3, <2>9 DEF NetKept
<1>13. QED BY <1>4, <1>7, <1>8, <1>10, <1>11, <1>9, <1>12

-----------------------------------------------------------------------------
(* The system.                                                              *)

(* Where the operation and the handles stay as they are.                    *)
LEMMA HandlesStay ==
  ASSUME NetInv, UNCHANGED <<running, storages, directory, op>>, faults' \in 0..MaxFaults,
         process' \in Table, dropped' \subseteq Processes,
         Tracks(HandlesOf(running) \cup Held, dropped', process')
  PROVE  NetKept
<1>1. NetTypes'
  BY DEF NetInv, NetTypes
<1>2. Held' = Held /\ HandlesOf(running)' = HandlesOf(running) /\ Apart(running)' /\ Prepared'
  BY DEF NetInv, Held, Prepared
<1>3. NetInv'
  BY <1>1, <1>2 DEF NetInv
<1>4. QED BY <1>3 DEF NetKept

(* Processes that start, fail or are gone.                                  *)
LEMMA SystemStep ==
  ASSUME NetInv, System
  PROVE  NetKept
<1>1. PICK p \in Processes : Bind(p) \/ Fail(p) \/ Reap(p)
  BY DEF System
<1>2. /\ process \in Table /\ dropped \subseteq Processes /\ faults \in 0..MaxFaults
      /\ Tracks(HandlesOf(running) \cup Held, dropped, process)
  BY DEF NetInv, NetTypes
<1>3. ASSUME process[p] # Unused
      PROVE  /\ [process EXCEPT ![p].status = "refused"] \in Table
             /\ [process EXCEPT ![p].status = "serving"] \in Table
             /\ [process EXCEPT ![p].status = "exited"] \in Table
             /\ UsedIn([process EXCEPT ![p].status = "refused"]) = UsedIn(process)
             /\ UsedIn([process EXCEPT ![p].status = "serving"]) = UsedIn(process)
             /\ UsedIn([process EXCEPT ![p].status = "exited"]) = UsedIn(process)
  BY <1>2, <1>3, StatusUsed
<1>4. CASE Bind(p)
  <2>1. process[p] # Unused /\ dropped' = dropped /\ faults' = faults
        /\ UNCHANGED <<running, storages, directory, op>>
    BY <1>4 DEF Bind, Unused
  <2>2. process' \in {[process EXCEPT ![p].status = "refused"],
                      [process EXCEPT ![p].status = "serving"]}
    BY <1>4 DEF Bind
  <2>3. process' \in Table /\ UsedIn(process') = UsedIn(process)
    BY <1>3, <2>1, <2>2
  <2>4. QED BY <1>2, <2>1, <2>3, HandlesStay DEF Tracks
<1>5. CASE Fail(p)
  <2>1. process[p] # Unused /\ dropped' = dropped
        /\ UNCHANGED <<running, storages, directory, op>>
        /\ process' = [process EXCEPT ![p].status = "exited"]
    BY <1>5 DEF Fail, Alive, Unused
  <2>2. faults' \in 0..MaxFaults
    BY <1>2, <1>5, LocalNetAssumption DEF Fail
  <2>3. process' \in Table /\ UsedIn(process') = UsedIn(process)
    BY <1>3, <2>1
  <2>4. QED BY <1>2, <2>1, <2>2, <2>3, HandlesStay DEF Tracks
<1>6. CASE Reap(p)
  <2>1. /\ p \in dropped /\ dropped' = dropped \ {p}
        /\ process' = [process EXCEPT ![p] = Unused]
        /\ UNCHANGED <<running, storages, directory, op, faults>>
    BY <1>6 DEF Reap
  <2>2. process' \in Table
    BY <1>2, <2>1 DEF Table
  <2>3. \A q \in Processes : process'[q] = IF q = p THEN Unused ELSE process[q]
    BY <1>2, <2>1 DEF Table
  <2>4. UsedIn(process') = UsedIn(process) \ {p}
    BY <2>3 DEF UsedIn
  <2>5. Tracks(HandlesOf(running) \cup Held, dropped', process')
    BY <1>2, <2>1, <2>4 DEF Tracks
  <2>6. QED BY <1>2, <2>1, <2>2, <2>5, HandlesStay
<1>7. QED BY <1>1, <1>4, <1>5, <1>6

-----------------------------------------------------------------------------

(* At first nothing runs.                                                   *)
LEMMA NetInit == Init => NetInv /\ op \in Operations
<1> SUFFICES ASSUME Init PROVE NetInv /\ op \in Operations
  OBVIOUS
<1>1. /\ op = Idle("Ok") /\ op \in Operations
  BY OperationTypes DEF Init
<1>2. <<>> \in Seq(Processes) /\ ToSet(<<>>) = {} /\ IsInjective(<<>>)
  BY EmptySeq, ElementsOfSeq
<1>3. running = [v \in Validators |-> <<>>]
  BY DEF Init, NotRunning
<1>4. \A v \in Validators : running[v] = <<>>
  BY <1>3
<1>5. NetTypes
  <2>1. running \in [Validators -> Seq(Processes)]
    BY <1>2, <1>3
  <2>2. process \in Table
    BY DEF Init, Table
  <2>3. faults \in 0..MaxFaults /\ directory \in Directories
    BY LocalNetAssumption DEF Init
  <2>4. QED BY <1>1, <2>1, <2>2, <2>3 DEF Init, NetTypes
<1>6. Apart(running)
  BY <1>2, <1>4, Zenon DEF Apart
<1>7. HandlesOf(running) = {}
  BY <1>2, <1>4 DEF HandlesOf
<1>8. Held = {} /\ Prepared
  BY <1>1 DEF Held, Prepared, Idle, StartTypes, KillTypes
<1>9. UsedIn(process) = {} /\ dropped = {}
  BY DEF Init, UsedIn
<1>10. Tracks(HandlesOf(running) \cup Held, dropped, process)
  BY <1>7, <1>8, <1>9 DEF Tracks
<1>11. QED BY <1>1, <1>5, <1>6, <1>7, <1>8, <1>10 DEF NetInv

(* Every step of the network keeps the invariant.                           *)
LEMMA NetNext == NetInv /\ [Next]_vars => NetKept
<1> SUFFICES ASSUME NetInv, [Next]_vars PROVE NetKept
  OBVIOUS
<1>1. CASE Operation
  <2>1. ASSUME NEW d \in Directories, SetDirectory(d) PROVE NetKept
    <3>1. PICK v \in Validators : TRUE
      BY LocalNetAssumption DEF Validators
    <3>2. QED BY <2>1, <3>1, StartStep
  <2>2. ASSUME NEW v \in Validators,
               \/ StartValidator(v) \/ RestartValidator(v) \/ StopValidator(v) \/ RemoveValidator(v)
               \/ \E shard \in 0..(NumShards - 1) :
                    StartServer(v, shard) \/ TerminateServer(v, shard)
        PROVE  NetKept
    BY <2>2, StartStep, StopStep, RemoveStep, TerminateServerStep
  <2>3. QED BY <1>1, <2>1, <2>2, TerminateStep, EnsureStep DEF Operation
<1>2. CASE Progress
  BY <1>2, SpawnStep, CannotSpawnStep, HasStartedStep, HasNotStartedStep, KillStep DEF Progress
<1>3. CASE System
  BY <1>3, SystemStep
<1>4. CASE UNCHANGED vars
  <2>1. UNCHANGED <<running, storages, directory, op>> /\ process' = process /\ dropped' = dropped
        /\ faults' = faults
    BY <1>4 DEF vars
  <2>2. QED BY <2>1, HandlesStay DEF NetInv, NetTypes
<1>5. QED BY <1>1, <1>2, <1>3, <1>4 DEF Next

(* The invariant of a network that nothing else uses.                       *)
LocalInv == NetInv /\ op \in Operations

(* Every step of such a network keeps it.                                   *)
LEMMA LocalInvStep == LocalInv /\ [Next]_vars => LocalInv'
BY NetNext DEF LocalInv, NetKept

(* The types, for networks of any size, any directories, processes and      *)
(* failures.                                                                *)
THEOREM TypeCorrect == Spec => []TypeOK
<1>1. Init => LocalInv
  BY NetInit DEF LocalInv
<1>2. LocalInv => TypeOK
  BY DEF LocalInv, NetInv, NetTypes, TypeOK, Table
<1>3. QED BY <1>1, <1>2, LocalInvStep, PTL DEF Spec

(* No operation, failing halfway, replacing a validator or stopping it,     *)
(* loses the handle of a process or holds it twice: every process is held   *)
(* by the map, by the operation under way, or is dying.                     *)
THEOREM EveryHandleTracked == Spec => []HandlesTracked
<1>1. Init => LocalInv
  BY NetInit DEF LocalInv
<1>2. LocalInv => HandlesTracked
  <2> SUFFICES ASSUME NetInv, op \in Operations PROVE HandlesTracked
    BY DEF LocalInv
  <2>1. /\ IsInjective(Children) /\ ToSet(Children) = HandlesOf(running)
    BY ChildrenElements DEF NetInv, NetTypes
  <2>2. HeldByOperation = Held
    <3>1. op.type \in StartTypes \cup KillTypes \cup {"Idle"}
      BY DEF Operations, StartTypes, KillTypes
    <3>2. CASE op.type = "Idle"
      BY <3>2 DEF HeldByOperation, Held, StartTypes, KillTypes
    <3>3. CASE op.type \in StartTypes
      BY <3>3 DEF HeldByOperation, Held, StartTypes, KillTypes
    <3>4. CASE op.type \in KillTypes
      BY <3>4 DEF HeldByOperation, Held, StartTypes, KillTypes
    <3>5. QED BY <3>1, <3>2, <3>3, <3>4
  <2>3. /\ HandlesOf(running) \cap Held = {}
        /\ (HandlesOf(running) \cup Held) \cap dropped = {}
        /\ HandlesOf(running) \cup Held \cup dropped = UsedIn(process)
    BY DEF NetInv, Tracks
  <2>4. QED BY <2>1, <2>2, <2>3 DEF HandlesTracked, UsedIn
<1>3. QED BY <1>1, <1>2, LocalInvStep, PTL DEF Spec

-----------------------------------------------------------------------------
(* Ports.                                                                   *)

(* Numbering by validator and position gives each pair its own number.      *)
LEMMA NumberingInjective ==
  ASSUME NEW n \in Nat, NEW v \in Nat, NEW w \in Nat,
         NEW i \in 0..(n - 1), NEW j \in 0..(n - 1),
         v * n + i = w * n + j
  PROVE  v = w /\ i = j
<1>1. ASSUME NEW a \in Nat, NEW b \in Nat, NEW k \in 0..(n - 1), NEW l \in 0..(n - 1),
             a < b
      PROVE  a * n + k < b * n + l
  <2>1. PICK d \in Nat : b = a + 1 + d
    <3>1. b - a - 1 \in Nat /\ b = a + 1 + (b - a - 1)
      BY <1>1
    <3>2. QED BY <3>1
  <2>2. b * n = a * n + n + d * n
    BY <2>1
  <2>3. a * n \in Nat /\ d * n \in Nat
    BY <2>1
  <2>4. QED BY <2>2, <2>3
<1>2. ~(v < w) /\ ~(w < v)
  BY <1>1
<1>3. v = w
  BY <1>2
<1>4. v * n \in Nat
  OBVIOUS
<1>5. QED BY <1>3, <1>4

(* Linear arithmetic, kept apart from products.                             *)
LEMMA RangeBound ==
  ASSUME NEW a \in Nat, NEW b \in Nat, NEW n \in Nat, NEW i \in 0..(n - 1),
         a + n + b <= 1000
  PROVE  a + i + 1 \in 1..1000
OBVIOUS

(* A number of some validator and position lies in the range of its size.   *)
LEMMA NumberingBounded ==
  ASSUME NEW n \in Nat, NEW v \in Validators, NEW i \in 0..(n - 1),
         NumValidators * n <= 1000
  PROVE  v * n + i + 1 \in 1..1000
<1>1. PICK d \in Nat : NumValidators = v + 1 + d
  <2>1. NumValidators - v - 1 \in Nat /\ NumValidators = v + 1 + (NumValidators - v - 1)
    BY LocalNetAssumption DEF Validators
  <2>2. QED BY <2>1
<1>2. v \in Nat
  BY DEF Validators
<1>3. NumValidators * n = v * n + n + d * n
  BY <1>1, <1>2
<1>4. v * n \in Nat /\ d * n \in Nat
  BY <1>1, <1>2
<1>5. v * n + n + d * n <= 1000
  BY <1>3
<1>6. PICK a, b \in Nat : a = v * n /\ b = d * n
  BY <1>4
<1>7. a + n + b <= 1000
  BY <1>5, <1>6
<1>8. a + i + 1 \in 1..1000
  BY <1>7, RangeBound
<1>9. QED BY <1>6, <1>8

(* The fields of a role.                                                    *)
LEMMA RoleFields ==
  ASSUME NEW r \in Roles
  PROVE  /\ r.validator \in Validators /\ r.validator \in Nat
         /\ Size(r.kind) \in Nat /\ r.id \in 0..(Size(r.kind) - 1)
         /\ r = [validator |-> r.validator, kind |-> r.kind, id |-> r.id]
<1>1. CASE r \in [validator : Validators, kind : {"proxy"}, id : 0..(NumProxies - 1)]
  BY <1>1, LocalNetAssumption DEF Size, Validators
<1>2. CASE r \in [validator : Validators, kind : {"server"}, id : 0..(NumShards - 1)]
  BY <1>2, LocalNetAssumption DEF Size, Validators
<1>3. QED BY <1>1, <1>2 DEF Roles

(* Offsets lie between two bases.                                           *)
LEMMA OffsetBounded ==
  ASSUME NumValidators * NumProxies <= 1000, NEW r \in Roles
  PROVE  Offset(r) \in 1..1000
<1>1. NumValidators * Size(r.kind) <= 1000
  BY LocalNetAssumption DEF Size
<1>2. QED BY <1>1, RoleFields, NumberingBounded DEF Offset

(* Linear arithmetic again.                                                 *)
LEMMA OffsetsEqual ==
  ASSUME NEW m \in Nat, NEW n \in Nat, NEW i \in Nat, NEW j \in Nat, m + i + 1 = n + j + 1
  PROVE  m + i = n + j
OBVIOUS

(* Within the bound, roles that share a port are one role.                  *)
LEMMA RolesApart ==
  ASSUME NumValidators * NumProxies <= 1000,
         NEW r \in Roles, NEW q \in Roles, Ports(r) \cap Ports(q) # {}
  PROVE  r = q
<1>2. /\ Offset(r) \in 1..1000 /\ Offset(q) \in 1..1000
      /\ r.kind \in {"proxy", "server"} /\ q.kind \in {"proxy", "server"}
  BY OffsetBounded DEF Roles
<1>3. r.kind = q.kind /\ Offset(r) = Offset(q)
  <2>1. PICK b, c : /\ b \in IF r.kind = "proxy" THEN {13000, 10000, 12000} ELSE {9000, 11000}
                    /\ c \in IF q.kind = "proxy" THEN {13000, 10000, 12000} ELSE {9000, 11000}
                    /\ b + Offset(r) = c + Offset(q)
    BY DEF Ports
  <2>2. /\ b \in {9000, 10000, 11000, 12000, 13000}
        /\ c \in {9000, 10000, 11000, 12000, 13000}
    BY <2>1
  <2>3. b = c /\ Offset(r) = Offset(q)
    <3>1. PICK x, y : x = Offset(r) /\ y = Offset(q)
      OBVIOUS
    <3>2. x \in 1..1000 /\ y \in 1..1000 /\ b + x = c + y
      BY <2>1, <1>2, <3>1
    <3>3. b = c /\ x = y
      BY <2>2, <3>2
    <3>4. QED BY <3>1, <3>3
  <2>4. QED BY <2>1, <2>3, <1>2
<1>4. r.validator = q.validator /\ r.id = q.id
  <2>1. PICK n : n = Size(r.kind)
    OBVIOUS
  <2>2. /\ n \in Nat /\ r.validator \in Nat /\ q.validator \in Nat
        /\ r.id \in 0..(n - 1) /\ q.id \in 0..(n - 1)
    BY <1>3, <2>1, RoleFields
  <2>3. r.validator * n + r.id + 1 = q.validator * n + q.id + 1
    BY <1>3, <2>1 DEF Offset
  <2>4. /\ r.validator * n \in Nat /\ q.validator * n \in Nat
        /\ r.id \in Nat /\ q.id \in Nat
    BY <2>2
  <2>5. r.validator * n + r.id = q.validator * n + q.id
    BY <2>3, <2>4, OffsetsEqual
  <2>6. QED BY <2>2, <2>5, NumberingInjective
<1>5. QED BY <1>3, <1>4, RoleFields

-----------------------------------------------------------------------------

(* Beyond it, some process has any given number.                            *)
LEMMA NumberingReaches ==
  ASSUME NEW n \in Nat \ {0}, NumValidators * n > 1000
  PROVE  \E v \in Validators, i \in 0..(n - 1) : v * n + i = 1000
<1> DEFINE v == 1000 \div n
           i == 1000 % n
<1>1. v \in Nat /\ i \in 0..(n - 1) /\ 1000 = n * v + i
  OBVIOUS
<1> HIDE DEF v, i
<1>2. NumValidators \in Nat
  BY LocalNetAssumption
<1>3. v < NumValidators
  <2>1. SUFFICES ASSUME ~(v < NumValidators) PROVE FALSE
    OBVIOUS
  <2>2. PICK d \in Nat : v = NumValidators + d
    <3>1. v - NumValidators \in Nat /\ v = NumValidators + (v - NumValidators)
      BY <1>1, <1>2, <2>1
    <3>2. QED BY <3>1
  <2>3. n * v = NumValidators * n + d * n /\ d * n \in Nat /\ NumValidators * n \in Nat
    BY <1>2, <2>2
  <2>4. QED BY <1>1, <2>3
<1>4. v \in Validators /\ v * n + i = 1000
  BY <1>1, <1>2, <1>3 DEF Validators
<1>5. QED BY <1>1, <1>4

(* No two processes of the network need the same port exactly when there    *)
(* are at most 1000 proxies.  instantiate checks this bound for the shards, *)
(* not for the proxies: the metrics port of proxy 1001 is the public port   *)
(* of the first proxy.                                                      *)
THEOREM PortsDistinct ==
  NumValidators * NumProxies <= 1000
    <=> \A r, q \in Roles : Ports(r) \cap Ports(q) # {} => r = q
<1>1. ASSUME NumValidators * NumProxies <= 1000,
             NEW r \in Roles, NEW q \in Roles, Ports(r) \cap Ports(q) # {}
      PROVE  r = q
  BY <1>1, RolesApart
<1>2. ASSUME ~(NumValidators * NumProxies <= 1000)
      PROVE  \E r, q \in Roles : Ports(r) \cap Ports(q) # {} /\ r # q
  <2>1. NumProxies \in Nat \ {0} /\ NumValidators \in Nat \ {0}
    BY LocalNetAssumption
  <2>2. NumValidators * NumProxies > 1000
    BY <1>2, <2>1
  <2>3. PICK v \in Validators, i \in 0..(NumProxies - 1) : v * NumProxies + i = 1000
    BY <2>1, <2>2, NumberingReaches
  <2> DEFINE r == [validator |-> 0, kind |-> "proxy", id |-> 0]
             q == [validator |-> v, kind |-> "proxy", id |-> i]
  <2>4. r \in Roles /\ q \in Roles
    BY <2>1 DEF Roles, Validators
  <2>5. Offset(r) = 1 /\ Offset(q) = 1001
    <3>1. Offset(r) = 0 * NumProxies + 0 + 1 /\ Offset(q) = v * NumProxies + i + 1
      BY DEF Offset, Size
    <3>2. 0 * NumProxies = 0
      BY <2>1
    <3>3. QED BY <2>3, <3>1, <3>2
  <2>6. 13001 \in Ports(r) /\ 13001 \in Ports(q)
    BY <2>5 DEF Ports
  <2>7. r # q
    BY <2>5
  <2>8. QED BY <2>4, <2>6, <2>7
<1>3. QED BY <1>1, <1>2

=============================================================================
