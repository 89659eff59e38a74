-------------------------- MODULE InspectionProofs --------------------------
(***************************************************************************)
(* Theorems of Inspection, for any tree of DLLs, any bounds on the walk, and  *)
(* any executables, runners and answers.                                     *)
(*                                                                         *)
(* The walk is breadth first, and the proof is that of a breadth-first        *)
(* search cut at a depth: the chain at hand is a shortest one (QueueInv), so   *)
(* a module that is met too deep cannot be reached by a shorter chain; what is  *)
(* reached by chains up to the length at hand has been scheduled (WalkInv).   *)
(***************************************************************************)
EXTENDS Inspection, FiniteSetTheorems, SequenceTheorems, WellFoundedInduction, TLAPS

Selecting == {"exe", "ask_exe", "prompt", "scan"}

\* who is prompted can be asked, and what is selected is the game
ExeInv ==
  pc \in Selecting =>
    /\ kind \in [Exes -> Kinds] /\ explicit \in Exes \cup {None}
    /\ pc \in {"ask_exe", "prompt"} \/ prompted => asks
    /\ TheGameIsSelected

\* a runner is returned only after it was accepted
RunnerInv ==
  /\ pc \in {"folder", "list"} => asks
  /\ pc \in {"confirm", "done"} => runner \in valid
  /\ ConfirmedRunnerIsUsed

\* the modules at the end of chains of at most n modules
Reach(n) == {Last(c) : c \in {x \in Chains : Len(x) <= n}}

\* module m is scheduled and no longer waits
Done(m) == m \in scheduled /\ form[m] = "x64" /\ \A i \in DOMAIN pending : Last(pending[i]) # m

\* the import is reported, or follows to a scheduled file, or has none
Looked(m, name) ==
  IF name = "version" THEN \E e \in evidence : Last(Front(e)) = m
  ELSE \/ Resolve(m, name) = {} \/ name \in unresolved
       \/ \E d \in scheduled : Resolve(m, name) = {d}

\* the file that the import leads to is scheduled
Followed(m, name) ==
  name = "version" \/ \A d \in Dlls : form[d] = "x64" /\ Resolve(m, name) = {d} => d \in scheduled

TreeInv ==
  /\ form \in [Modules -> Forms] /\ form["exe"] = "x64"
  /\ imports \in [{m \in Modules : form[m] = "x64"} -> SUBSET Names]

\* chains that are shown or wait are ones that the loader would take
ChainsInv ==
  /\ \A i \in DOMAIN pending : pending[i] \in Chains /\ Last(pending[i]) \in scheduled
  /\ \A e \in evidence :
       Front(e) \in Chains /\ Last(e) = "version" /\ "version" \in imports[Last(Front(e))]

\* what is scheduled is there, reached or reported
ScheduledInv ==
  /\ "exe" \in scheduled /\ scheduled \subseteq Modules
  /\ \A m \in scheduled :
       /\ form[m] # "absent" /\ (form[m] = "x64" => m \in Inspected)
       /\ form[m] = "bad" => DllName[m] \in unresolved

\* breadth first: chains wait in the order of their length, each is a shortest
\* one, and no two end in one module
QueueInv ==
  /\ pending \in Seq(Seq(Modules)) /\ pending # <<>>
  /\ \A i, j \in DOMAIN pending :
       /\ i < j => Len(pending[i]) <= Len(pending[j]) /\ Last(pending[i]) # Last(pending[j])
       /\ Len(pending[j]) <= Len(pending[1]) + 1
  /\ \A i \in DOMAIN pending : Last(pending[i]) \notin Reach(Len(pending[i]) - 1)

\* nothing that was looked at is forgotten, and what can be reached by shorter
\* chains than the one at hand was scheduled
WalkInv ==
  LET m == Last(Chain)
  IN /\ left \subseteq imports[m]
     /\ \A name \in imports[m] \ left :
          Looked(m, name) /\ (Len(Chain) < MaxDepth => Followed(m, name))
     /\ Reach(Len(Chain)) \subseteq scheduled

DoneInv ==
  \A m \in Modules : Done(m) =>
    \A name \in imports[m] :
      Looked(m, name) /\ (m \in Reach(MaxDepth - 1) => Followed(m, name))

Walking == TreeInv /\ ChainsInv /\ ScheduledInv /\ QueueInv /\ WalkInv /\ DoneInv

ScanInv ==
  /\ pc \in Selecting \cup {"walk"} => evidence = {}
  /\ At("imports") => Walking
  /\ At("scanned") => TreeInv /\ ChainsInv /\ ScheduledInv /\ pending = <<>> /\ DoneInv
                      /\ Inspected \subseteq scheduled

IInv == ExeInv /\ RunnerInv /\ ScanInv
-----------------------------------------------------------------------------
(* Finite sets and numbers. *)

\* A finite set with an element and no two has exactly one.
LEMMA OneElement ==
  ASSUME NEW S, IsFiniteSet(S), S # {}, ~(Cardinality(S) > 1)
  PROVE  \E x : S = {x}
<1>1. Cardinality(S) \in Nat /\ Cardinality(S) # 0
  BY FS_CardinalityType, FS_EmptySet
<1>2. Cardinality(S) = 1
  BY <1>1
<1>. QED  BY <1>2, FS_Singleton

\* A set of numbers that has an element has a least one.
LEMMA LeastNumber ==
  ASSUME NEW T \in SUBSET Nat, T # {}
  PROVE  \E x \in T : \A y \in T : x <= y
<1>1. PICK x \in T : \A y \in T : ~ (<<y, x>> \in OpToRel(<, Nat))
  BY NatLessThanWellFounded, WFMin
<1>2. ASSUME NEW y \in T PROVE x <= y
  <2>1. ~(y < x)
    BY <1>1 DEF OpToRel
  <2>. QED  BY <2>1
<1>. QED  BY <1>2

\* What Append adds at the end, Front takes away and Last returns.
LEMMA FrontOfAppend ==
  ASSUME NEW S, NEW c \in Seq(S), NEW x \in S
  PROVE  Front(Append(c, x)) = c /\ Last(Append(c, x)) = x
<1> DEFINE e == Append(c, x)
<1>1. /\ e \in Seq(S) /\ Len(e) = Len(c) + 1 /\ e[Len(c) + 1] = x
      /\ \A k \in 1..Len(c) : e[k] = c[k]
  OBVIOUS
<1>2. Front(e) = c
  <2>1. Front(e) \in Seq(S) /\ Len(Front(e)) = Len(c)
    BY <1>1 DEF Front
  <2>2. \A k \in 1..Len(c) : Front(e)[k] = c[k]
    BY <1>1 DEF Front
  <2>. QED  BY <2>1, <2>2, SeqEqual
<1>. QED  BY <1>1, <1>2 DEF Last

-----------------------------------------------------------------------------
(* Chains of imports. *)

\* Resolution finds files that are there, by their name.
LEMMA ResolveType ==
  ASSUME NEW m, NEW name
  PROVE  Resolve(m, name) \subseteq {d \in Dlls : form[d] # "absent" /\ DllName[d] = name}
BY DEF Resolve, In

LEMMA ChainType ==
  ASSUME NEW c \in Chains
  PROVE  /\ c \in Seq(Modules) /\ Len(c) \in 1..MaxDepth /\ DOMAIN c = 1..Len(c)
         /\ c[1] = "exe" /\ Last(c) \in Modules
         /\ \A k \in 2..Len(c) : Imports(c[k - 1], c[k])
<1>1. PICK n \in 1..MaxDepth : c \in [1..n -> Modules]
  BY DEF Chains
<1>2. n \in Nat /\ c \in Seq(Modules) /\ Len(c) = n
  BY <1>1, BoundAssumption
<1>. QED  BY <1>1, <1>2 DEF Chains, Last

LEMMA ChainIntro ==
  ASSUME NEW c \in Seq(Modules), Len(c) \in 1..MaxDepth, c[1] = "exe",
         \A k \in 2..Len(c) : Imports(c[k - 1], c[k])
  PROVE  c \in Chains
<1>1. c \in [1..Len(c) -> Modules]
  BY LenProperties
<1>2. c \in UNION {[1..n -> Modules] : n \in 1..MaxDepth}
  BY <1>1
<1>. QED  BY <1>2 DEF Chains

\* A chain that is not too long goes on to what its last module imports.
LEMMA ChainExtends ==
  ASSUME NEW c \in Chains, Len(c) < MaxDepth, NEW d \in Modules, Imports(Last(c), d)
  PROVE  /\ Append(c, d) \in Chains /\ Len(Append(c, d)) = Len(c) + 1
         /\ Last(Append(c, d)) = d /\ Front(Append(c, d)) = c
<1>1. /\ c \in Seq(Modules) /\ Len(c) \in 1..MaxDepth /\ c[1] = "exe"
      /\ \A k \in 2..Len(c) : Imports(c[k - 1], c[k])
  BY ChainType
<1> DEFINE e == Append(c, d)
<1>2. /\ e \in Seq(Modules) /\ Len(e) = Len(c) + 1 /\ e[Len(c) + 1] = d
      /\ \A k \in 1..Len(c) : e[k] = c[k]
  BY <1>1
<1>3. Len(e) \in 1..MaxDepth /\ e[1] = "exe"
  BY <1>1, <1>2, BoundAssumption
<1>4. ASSUME NEW k \in 2..Len(e) PROVE Imports(e[k - 1], e[k])
  <2>1. CASE k \in 2..Len(c)
    BY <1>1, <1>2, <2>1
  <2>2. CASE k = Len(c) + 1
    BY <1>1, <1>2, <2>2 DEF Last
  <2>. QED  BY <1>1, <1>2, <2>1, <2>2
<1>5. e \in Chains
  <2>. HIDE DEF e
  <2>. QED  BY <1>2, <1>3, <1>4, ChainIntro
<1>6. Front(e) = c /\ Last(e) = d
  BY <1>1, FrontOfAppend
<1>. QED  BY <1>2, <1>5, <1>6

\* The first modules of a chain are a chain.
LEMMA ChainPrefix ==
  ASSUME NEW c \in Chains, NEW k \in 1..Len(c)
  PROVE  /\ SubSeq(c, 1, k) \in Chains /\ Len(SubSeq(c, 1, k)) = k
         /\ Last(SubSeq(c, 1, k)) = c[k]
<1>1. /\ c \in Seq(Modules) /\ Len(c) \in 1..MaxDepth /\ c[1] = "exe"
      /\ \A i \in 2..Len(c) : Imports(c[i - 1], c[i])
  BY ChainType
<1> DEFINE e == SubSeq(c, 1, k)
<1>2. e \in Seq(Modules) /\ Len(e) = k /\ \A i \in 1..k : e[i] = c[i]
  BY <1>1
<1>3. Len(e) \in 1..MaxDepth /\ e[1] = "exe"
  BY <1>1, <1>2, BoundAssumption
<1>4. \A i \in 2..Len(e) : Imports(e[i - 1], e[i])
  BY <1>1, <1>2
<1>. HIDE DEF e
<1>5. e \in Chains /\ Last(e) = c[k]
  BY <1>2, <1>3, <1>4, ChainIntro DEF Last
<1>. QED  BY <1>2, <1>5 DEF e

LEMMA ReachSet ==
  /\ \A n, m : m \in Reach(n) <=> \E c \in Chains : Len(c) <= n /\ Last(c) = m
  /\ Inspected = Reach(MaxDepth)
<1>1. \A n, m : m \in Reach(n) <=> \E c \in Chains : Len(c) <= n /\ Last(c) = m
  BY DEF Reach
<1>2. \A c \in Chains : Len(c) <= MaxDepth
  BY ChainType, BoundAssumption
<1>. QED  BY <1>1, <1>2 DEF Reach, Inspected

\* Every module that is reached but the executable is imported by one that is
\* reached earlier.
LEMMA ReachStep ==
  ASSUME NEW n \in Nat, NEW m \in Reach(n + 1), m \notin Reach(n)
  PROVE  \/ n = 0 /\ m = "exe"
         \/ n + 1 <= MaxDepth /\ \E p \in Reach(n) : Imports(p, m)
<1>1. PICK c \in Chains : Len(c) <= n + 1 /\ Last(c) = m
  BY ReachSet
<1>2. Len(c) \in 1..MaxDepth /\ c[1] = "exe" /\ Len(c) > n
  BY <1>1, ChainType, ReachSet, BoundAssumption
<1>3. Len(c) = n + 1
  BY <1>1, <1>2, BoundAssumption
<1>4. CASE n = 0
  <2>1. Len(c) = 1 /\ Last(c) = "exe"
    BY <1>2, <1>3, <1>4 DEF Last
  <2>. QED  BY <1>1, <1>4, <2>1
<1>5. CASE n # 0
  <2>1. n \in 1..Len(c) /\ n + 1 \in 2..Len(c) /\ n + 1 <= MaxDepth
    BY <1>2, <1>3, <1>5, BoundAssumption
  <2>2. c[n] \in Reach(n)
    <3>1. SubSeq(c, 1, n) \in Chains /\ Len(SubSeq(c, 1, n)) = n /\ Last(SubSeq(c, 1, n)) = c[n]
      BY <2>1, ChainPrefix
    <3>2. \E x \in Chains : Len(x) <= n /\ Last(x) = c[n]
      <4>. SubSeq(c, 1, n) \in Chains
        BY <3>1
      <4>. WITNESS SubSeq(c, 1, n) \in Chains
      <4>. QED  BY <3>1
    <3>. QED  BY <3>2, ReachSet
  <2>3. Imports(c[n], c[n + 1])
    BY <2>1, ChainType
  <2>. QED  BY <1>1, <1>3, <2>1, <2>2, <2>3 DEF Last
<1>. QED  BY <1>4, <1>5

\* The walk does not change the tree.
LEMMA TreeKept ==
  ASSUME UNCHANGED <<form, imports>>
  PROVE  /\ \A m, name : Resolve(m, name)' = Resolve(m, name)
         /\ \A m, d : Imports(m, d)' <=> Imports(m, d)
         /\ Chains' = Chains /\ Inspected' = Inspected
         /\ \A n : Reach(n)' = Reach(n)
<1>1. \A m, name : Resolve(m, name)' = Resolve(m, name)
  BY DEF Resolve, In
<1>2. \A m, d : Imports(m, d)' <=> Imports(m, d)
  BY <1>1 DEF Imports
<1>3. Chains' = Chains
  BY <1>2 DEF Chains
<1>. QED  BY <1>1, <1>2, <1>3 DEF Inspected, Reach

\* What a chain ends in is a module that can be read.
LEMMA ChainEnd ==
  ASSUME TreeInv, NEW c \in Chains
  PROVE  Last(c) \in Modules /\ form[Last(c)] = "x64"
<1>1. CASE Len(c) = 1
  BY <1>1, ChainType DEF Last, TreeInv
<1>2. CASE Len(c) # 1
  <2>1. Len(c) \in 2..Len(c)
    BY <1>2, ChainType, BoundAssumption
  <2>2. Imports(c[Len(c) - 1], c[Len(c)])
    BY <2>1, ChainType
  <2>. QED  BY <2>2, ChainType DEF Imports, Last
<1>. QED  BY <1>1, <1>2

\* A longer bound reaches no less.
LEMMA ReachGrows ==
  ASSUME NEW i \in Int, NEW j \in Int, i <= j
  PROVE  Reach(i) \subseteq Reach(j)
<1>1. \A c \in Chains : Len(c) <= i => Len(c) <= j
  <2>1. \A c \in Chains : Len(c) \in Int
    BY ChainType, BoundAssumption
  <2>. QED  BY <2>1
<1>. QED  BY <1>1 DEF Reach

\* What is looked at stays so: the walk only adds to what it has found.
LEMMA LookedKept ==
  ASSUME UNCHANGED <<form, imports>>, scheduled \subseteq scheduled',
         evidence \subseteq evidence', unresolved \subseteq unresolved',
         NEW m, NEW name
  PROVE  (Looked(m, name) => Looked(m, name)') /\ (Followed(m, name) => Followed(m, name)')
BY TreeKept DEF Looked, Followed

-----------------------------------------------------------------------------
(* The steps of the walk. *)

\* The chain at hand.
LEMMA ChainAtHand ==
  ASSUME Walking
  PROVE  /\ Chain = pending[1] /\ 1 \in DOMAIN pending /\ Chain \in Chains
         /\ Len(Chain) \in 1..MaxDepth /\ Last(Chain) \in Modules /\ form[Last(Chain)] = "x64"
         /\ imports[Last(Chain)] \in SUBSET Names /\ left \subseteq imports[Last(Chain)]
<1>1. Chain = pending[1] /\ 1 \in DOMAIN pending
  BY DEF Walking, QueueInv, Chain
<1>2. Chain \in Chains
  BY <1>1 DEF Walking, ChainsInv
<1>3. form[Last(Chain)] = "x64" /\ Last(Chain) \in Modules /\ Len(Chain) \in 1..MaxDepth
  BY <1>2, ChainEnd, ChainType DEF Walking
<1>. QED  BY <1>1, <1>2, <1>3 DEF Walking, WalkInv, TreeInv

\* An import that schedules nothing is looked at and that is all.
LEMMA StayStep ==
  ASSUME Walking, UNCHANGED <<form, imports, pending, scheduled>>,
         evidence \subseteq evidence', unresolved \subseteq unresolved',
         NEW m, m = Last(Chain), NEW name, left' = left \ {name},
         Looked(m, name)', Len(Chain) < MaxDepth => Followed(m, name)',
         \A e \in evidence' \ evidence :
           Front(e) \in Chains /\ Last(e) = "version" /\ "version" \in imports[Last(Front(e))]
  PROVE  Walking'
<1>1. TreeInv' /\ QueueInv'
  BY TreeKept DEF Walking, TreeInv, QueueInv
<1>2. ChainsInv'
  BY TreeKept DEF Walking, ChainsInv
<1>3. ScheduledInv'
  BY TreeKept DEF Walking, ScheduledInv
<1>4. \A q, x : (Looked(q, x) => Looked(q, x)') /\ (Followed(q, x) => Followed(q, x)')
  BY LookedKept
<1>5. Chain' = Chain /\ m = Last(Chain')
  BY DEF Chain
<1>6. WalkInv'
  <2>1. \A x \in imports[m] \ left' :
          Looked(m, x)' /\ (Len(Chain) < MaxDepth => Followed(m, x)')
    BY <1>4 DEF Walking, WalkInv
  <2>2. left' \subseteq imports[m] /\ Reach(Len(Chain))' \subseteq scheduled'
    BY <1>5, TreeKept DEF Walking, WalkInv
  <2>. QED  BY <2>1, <2>2, <1>5 DEF WalkInv
<1>7. DoneInv'
  <2>1. \A q : Done(q)' => Done(q)
    BY DEF Done
  <2>2. \A n : Reach(n)' = Reach(n)
    BY TreeKept
  <2>. QED  BY <1>4, <2>1, <2>2 DEF Walking, DoneInv
<1>. QED  BY <1>1, <1>2, <1>3, <1>6, <1>7 DEF Walking

\* The import that leads to one file, d, not met before and not too deep, schedules it.
LEMMA ScheduleStep ==
  ASSUME Walking, UNCHANGED <<form, imports, evidence>>,
         NEW name \in left, name # "version", left' = left \ {name},
         NEW d, Resolve(Last(Chain), name) = {d}, d \notin scheduled, ~TooDeep(Chain),
         Schedule(d)
  PROVE  Walking'
<1>0. PICK m : m = Last(Chain)
  OBVIOUS
<1>1. /\ Chain = pending[1] /\ 1 \in DOMAIN pending /\ Chain \in Chains
      /\ Len(Chain) \in 1..MaxDepth /\ m \in Modules /\ form[m] = "x64"
      /\ name \in imports[m] /\ Len(Chain) < MaxDepth /\ Resolve(m, name) = {d}
  BY <1>0, ChainAtHand, BoundAssumption DEF TooDeep
<1>2. d \in Dlls /\ d \in Modules /\ form[d] # "absent" /\ DllName[d] = name
  BY <1>1, ResolveType DEF Modules
<1>3. form[d] = "x64" =>
        /\ Append(Chain, d) \in Chains /\ Len(Append(Chain, d)) = Len(Chain) + 1
        /\ Last(Append(Chain, d)) = d
  <2>1. form[d] = "x64" => Imports(Last(Chain), d)
    BY <1>0, <1>1 DEF Imports
  <2>. QED  BY <1>1, <1>2, <2>1, ChainExtends
<1>4. /\ scheduled' = scheduled \cup {d} /\ unresolved' = unresolved \cup Unread(d)
      /\ form[d] # "x64" => pending' = pending
      /\ form[d] = "x64" => pending' = Append(pending, Append(Chain, d))
  BY DEF Schedule
<1>5. \A q, x : (Looked(q, x) => Looked(q, x)') /\ (Followed(q, x) => Followed(q, x)')
  BY <1>4, LookedKept
<1>6. TreeInv'
  BY DEF Walking, TreeInv
<1>7. pending \in Seq(Seq(Modules)) /\ pending # <<>> /\ Len(pending) \in Nat
      /\ DOMAIN pending = 1..Len(pending)
  BY DEF Walking, QueueInv
<1>8. /\ \A i \in DOMAIN pending : i \in DOMAIN pending' /\ pending'[i] = pending[i]
      /\ form[d] = "x64" =>
           /\ Len(pending) + 1 \in DOMAIN pending'
           /\ pending'[Len(pending) + 1] = Append(Chain, d)
      /\ \A i \in DOMAIN pending' :
           i \in DOMAIN pending \/ (form[d] = "x64" /\ i = Len(pending) + 1)
      /\ pending' \in Seq(Seq(Modules)) /\ pending' # <<>>
  <2>1. CASE form[d] # "x64"
    <3>1. pending' = pending
      BY <2>1, <1>4
    <3>. QED  BY <3>1, <2>1, <1>7
  <2>2. CASE form[d] = "x64"
    <3>1. Append(Chain, d) \in Seq(Modules) /\ pending' = Append(pending, Append(Chain, d))
      BY <2>2, <1>3, <1>4, ChainType
    <3>. HIDE DEF Chain
    <3>2. /\ pending' \in Seq(Seq(Modules)) /\ Len(pending') = Len(pending) + 1
          /\ \A i \in 1..Len(pending) : pending'[i] = pending[i]
          /\ pending'[Len(pending) + 1] = Append(Chain, d)
      BY <3>1, <1>7, AppendProperties
    <3>3. DOMAIN pending' = 1..(Len(pending) + 1) /\ pending' # <<>>
      BY <3>2, <1>7
    <3>. QED  BY <3>2, <3>3, <2>2, <1>7
  <2>. QED  BY <2>1, <2>2
<1>9. Chain' = Chain /\ m = Last(Chain')
  BY <1>0, <1>1, <1>8 DEF Chain
<1>10. ChainsInv'
  <2>1. \A i \in DOMAIN pending' : pending'[i] \in Chains /\ Last(pending'[i]) \in scheduled'
    BY <1>3, <1>4, <1>8 DEF Walking, ChainsInv
  <2>. QED  BY <2>1, TreeKept DEF Walking, ChainsInv
<1>11. ScheduledInv'
  <2>1. form[d] = "x64" => d \in Inspected
    <3>1. ASSUME form[d] = "x64" PROVE \E c \in Chains : d = Last(c)
      <4>. Append(Chain, d) \in Chains
        BY <3>1, <1>3
      <4>. WITNESS Append(Chain, d) \in Chains
      <4>. QED  BY <3>1, <1>3
    <3>. QED  BY <3>1 DEF Inspected
  <2>2. form[d] = "bad" => DllName[d] \in unresolved'
    BY <1>4 DEF Unread
  <2>3. \A q \in scheduled' :
          /\ form[q] # "absent" /\ (form[q] = "x64" => q \in Inspected)
          /\ form[q] = "bad" => DllName[q] \in unresolved'
    BY <1>2, <1>4, <2>1, <2>2 DEF Walking, ScheduledInv
  <2>. QED  BY <2>3, <1>2, <1>4, TreeKept DEF Walking, ScheduledInv
<1>12. QueueInv'
  <2>1. form[d] = "x64" => d \notin Reach(Len(Append(Chain, d)) - 1)
    BY <1>1, <1>3 DEF Walking, WalkInv
  <2>2. \A i \in DOMAIN pending : Last(pending[i]) # d
    BY DEF Walking, ChainsInv
  <2>3. \A i \in DOMAIN pending : Len(pending[i]) <= Len(Chain) + 1
    BY <1>1 DEF Walking, QueueInv
  <2>4. ASSUME NEW i \in DOMAIN pending', NEW j \in DOMAIN pending'
        PROVE  /\ i < j => /\ Len(pending'[i]) <= Len(pending'[j])
                           /\ Last(pending'[i]) # Last(pending'[j])
               /\ Len(pending'[j]) <= Len(pending'[1]) + 1
    <3>1. CASE i \in DOMAIN pending /\ j \in DOMAIN pending
      BY <3>1, <1>1, <1>8 DEF Walking, QueueInv
    <3>2. CASE i \in DOMAIN pending /\ form[d] = "x64" /\ j = Len(pending) + 1
      <4>1. pending'[i] = pending[i] /\ pending'[j] = Append(Chain, d) /\ pending'[1] = Chain
        BY <3>2, <1>1, <1>8
      <4>2. Len(pending'[i]) <= Len(pending'[j]) /\ Last(pending'[i]) # Last(pending'[j])
        BY <3>2, <4>1, <1>3, <2>2, <2>3
      <4>3. Len(pending'[j]) <= Len(pending'[1]) + 1
        BY <3>2, <4>1, <1>1, <1>3
      <4>. QED  BY <4>2, <4>3
    <3>3. CASE form[d] = "x64" /\ i = Len(pending) + 1 /\ j \in DOMAIN pending
      <4>1. ~(i < j)
        BY <3>3, <1>7
      <4>. QED  BY <4>1, <3>3, <1>1, <1>8, <2>3
    <3>4. CASE form[d] = "x64" /\ i = Len(pending) + 1 /\ j = Len(pending) + 1
      <4>1. ~(i < j)
        BY <3>4, <1>7
      <4>2. Len(pending'[j]) <= Len(pending'[1]) + 1
        BY <3>4, <1>1, <1>3, <1>8
      <4>. QED  BY <4>1, <4>2
    <3>. QED  BY <3>1, <3>2, <3>3, <3>4, <1>8
  <2>5. \A i \in DOMAIN pending' : Last(pending'[i]) \notin Reach(Len(pending'[i]) - 1)
    BY <1>3, <1>8, <2>1 DEF Walking, QueueInv
  <2>6. \A n : Reach(n)' = Reach(n)
    BY TreeKept
  <2>. QED  BY <1>8, <2>4, <2>5, <2>6 DEF QueueInv
<1>13. WalkInv'
  <2>1. Looked(m, name)' /\ Followed(m, name)'
    <3>1. Resolve(m, name)' = {d}
      BY <1>1, TreeKept
    <3>. QED  BY <3>1, <1>4 DEF Looked, Followed
  <2>2. \A x \in imports[m] \ left' :
          Looked(m, x)' /\ (Len(Chain) < MaxDepth => Followed(m, x)')
    BY <1>0, <1>5, <2>1 DEF Walking, WalkInv
  <2>3. left' \subseteq imports[m] /\ Reach(Len(Chain))' \subseteq scheduled'
    BY <1>0, <1>4, <1>9, TreeKept DEF Walking, WalkInv
  <2>. QED  BY <2>2, <2>3, <1>9 DEF WalkInv
<1>14. DoneInv'
  <2>1. ASSUME NEW q \in Modules, Done(q)' PROVE Done(q)
    <3>1. q # d
      BY <2>1, <1>3, <1>8 DEF Done
    <3>2. q \in scheduled /\ form[q] = "x64"
      BY <2>1, <3>1, <1>4 DEF Done
    <3>3. \A i \in DOMAIN pending : Last(pending[i]) # q
      BY <2>1, <1>8 DEF Done
    <3>. QED  BY <3>2, <3>3 DEF Done
  <2>2. \A n : Reach(n)' = Reach(n)
    BY TreeKept
  <2>. QED  BY <1>5, <2>1, <2>2 DEF Walking, DoneInv
<1>. QED  BY <1>6, <1>10, <1>11, <1>12, <1>13, <1>14 DEF Walking

\* Every import keeps the invariant of the walk, or ends it.
LEMMA FollowStep ==
  ASSUME Walking, NEW name \in Names, Follow(name)
  PROVE  (Walking' /\ At("imports")') \/ At("error")'
<1>0. PICK m : m = Last(Chain)
  OBVIOUS
<1> DEFINE found == Resolve(Last(Chain), name)
<1>1. /\ At("imports") /\ name \in left /\ left' = left \ {name} /\ UNCHANGED <<form, imports>>
      /\ Chain \in Chains /\ Len(Chain) \in 1..MaxDepth /\ name \in imports[m]
      /\ Chain \in Seq(Modules)
  BY <1>0, ChainAtHand, ChainType DEF Follow
<1>2. Resolve(m, name)' = found /\ found \subseteq Dlls
  BY <1>0, <1>1, TreeKept, ResolveType
<1>3. CASE name = "version"
  <2>1. /\ evidence' = evidence \cup {Append(Chain, name)}
        /\ UNCHANGED <<pc, pending, scheduled, unresolved>>
    BY <1>3 DEF Follow
  <2>2. Front(Append(Chain, name)) = Chain /\ Last(Append(Chain, name)) = "version"
    <3>1. Chain \in Seq(Modules \cup {name}) /\ name \in Modules \cup {name}
      BY <1>1, <1>3
    <3>. QED  BY <3>1, <1>3, FrontOfAppend
  <2>3. Looked(m, name)' /\ Followed(m, name)'
    <3>1. \E e \in evidence' : Last(Front(e)) = m
      <4>. Append(Chain, name) \in evidence'
        BY <2>1
      <4>. WITNESS Append(Chain, name) \in evidence'
      <4>. QED  BY <1>0, <2>2
    <3>. QED  BY <3>1, <1>3 DEF Looked, Followed
  <2>4. \A e \in evidence' \ evidence :
          Front(e) \in Chains /\ Last(e) = "version" /\ "version" \in imports[Last(Front(e))]
    BY <1>0, <1>1, <1>3, <2>1, <2>2
  <2>5. evidence \subseteq evidence' /\ unresolved \subseteq unresolved'
    BY <2>1
  <2>. QED  BY <1>0, <1>1, <2>1, <2>3, <2>4, <2>5, StayStep DEF At
<1>4. CASE name # "version" /\ (found = {} \/ \E d \in scheduled : found = {d})
  <2>1. UNCHANGED <<pc, pending, scheduled, evidence, unresolved>>
    <3>1. ~(Cardinality(found) > 1 \/ (~(found \subseteq scheduled) /\ TooDeep(Chain)))
      <4>1. CASE found = {}
        <5>1. Cardinality({}) = 0
          BY FS_EmptySet
        <5>. HIDE DEF found
        <5>. QED  BY <4>1, <5>1
      <4>2. CASE \E d \in scheduled : found = {d}
        <5>1. PICK d \in scheduled : found = {d}
          BY <4>2
        <5>2. Cardinality({d}) = 1
          BY FS_Singleton
        <5>. HIDE DEF found
        <5>. QED  BY <5>1, <5>2
      <4>. QED  BY <1>4, <4>1, <4>2
    <3>. QED  BY <3>1, <1>4 DEF Follow
  <2>2. Looked(m, name)' /\ Followed(m, name)'
    BY <1>2, <1>4, <2>1 DEF Looked, Followed
  <2>. QED  BY <1>0, <1>1, <2>1, <2>2, StayStep DEF At
<1>5. CASE /\ name # "version" /\ ~(found = {} \/ \E d \in scheduled : found = {d})
           /\ (Cardinality(found) > 1 \/ (~(found \subseteq scheduled) /\ TooDeep(Chain)))
  <2>1. /\ unresolved' = unresolved \cup {name}
        /\ UNCHANGED <<pc, pending, scheduled, evidence>>
    BY <1>5 DEF Follow
  <2>2. Looked(m, name)'
    BY <1>5, <2>1 DEF Looked
  <2>3. ASSUME Len(Chain) < MaxDepth PROVE Followed(m, name)'
    <3>1. Cardinality(found) > 1
      BY <1>1, <1>5, <2>3, BoundAssumption DEF TooDeep
    <3>2. \A d : found # {d}
      BY <3>1, FS_Singleton
    <3>. QED  BY <3>2, <1>2 DEF Followed
  <2>. QED  BY <1>0, <1>1, <2>1, <2>2, <2>3, StayStep DEF At
<1>6. CASE /\ name # "version" /\ ~(found = {} \/ \E d \in scheduled : found = {d})
           /\ ~(Cardinality(found) > 1 \/ (~(found \subseteq scheduled) /\ TooDeep(Chain)))
  <2>1. PICK d : found = {d}
    <3>1. IsFiniteSet(found)
      BY <1>2, FS_Subset, TreeAssumption
    <3>. QED  BY <3>1, <1>6, OneElement
  <2>2. d \notin scheduled /\ ~TooDeep(Chain)
    BY <1>6, <2>1
  <2>3. /\ UNCHANGED evidence
        /\ IF Full THEN Go("error") /\ UNCHANGED <<pending, scheduled, unresolved>>
           ELSE UNCHANGED pc /\ \E x \in found : Schedule(x)
    BY <1>6 DEF Follow
  <2>4. CASE Full
    BY <2>3, <2>4 DEF At, Go
  <2>5. CASE ~Full
    <3>1. UNCHANGED pc /\ Schedule(d)
      BY <2>1, <2>3, <2>5
    <3>. QED  BY <1>0, <1>1, <1>6, <2>1, <2>2, <2>3, <3>1, ScheduleStep DEF At
  <2>. QED  BY <2>4, <2>5
<1>. QED  BY <1>3, <1>4, <1>5, <1>6

\* The module at hand is done: everything it imports was looked at.
LEMMA ModuleDone ==
  ASSUME Walking, NextModule
  PROVE  /\ TreeInv' /\ ChainsInv' /\ ScheduledInv' /\ DoneInv'
         /\ pending \in Seq(Seq(Modules)) /\ Len(pending) \in Nat \ {0}
         /\ DOMAIN pending = 1..Len(pending)
         /\ pending' \in Seq(Seq(Modules)) /\ Len(pending') = Len(pending) - 1
         /\ DOMAIN pending' = 1..(Len(pending) - 1)
         /\ \A i \in DOMAIN pending' : i + 1 \in DOMAIN pending /\ pending'[i] = pending[i + 1]
<1>1. /\ UNCHANGED <<form, imports, scheduled, evidence, unresolved>>
      /\ left = {} /\ pending' = Tail(pending)
  BY DEF NextModule
<1>2. /\ pending \in Seq(Seq(Modules)) /\ Len(pending) \in Nat \ {0}
      /\ DOMAIN pending = 1..Len(pending)
  BY DEF Walking, QueueInv
<1>3. /\ pending' \in Seq(Seq(Modules)) /\ Len(pending') = Len(pending) - 1
      /\ DOMAIN pending' = 1..(Len(pending) - 1)
      /\ \A i \in DOMAIN pending' : i + 1 \in DOMAIN pending /\ pending'[i] = pending[i + 1]
  BY <1>1, <1>2
<1>4. TreeInv' /\ ScheduledInv'
  BY <1>1, TreeKept DEF Walking, TreeInv, ScheduledInv
<1>5. ChainsInv'
  BY <1>1, <1>3, TreeKept DEF Walking, ChainsInv
<1>6. DoneInv'
  <2>0. PICK m : m = Last(Chain)
    OBVIOUS
  <2>1. /\ Chain = pending[1] /\ 1 \in DOMAIN pending /\ Len(Chain) \in 1..MaxDepth
    BY ChainAtHand
  <2>2. \A x \in imports[m] : Looked(m, x) /\ (Len(Chain) < MaxDepth => Followed(m, x))
    BY <2>0, <1>1 DEF Walking, WalkInv
  <2>3. ASSUME m \in Reach(MaxDepth - 1) PROVE Len(Chain) < MaxDepth
    <3>1. m \notin Reach(Len(Chain) - 1)
      BY <2>0, <2>1 DEF Walking, QueueInv
    <3>2. CASE Len(Chain) = MaxDepth
      BY <3>1, <3>2, <2>3
    <3>. QED  BY <3>2, <2>1, BoundAssumption
  <2>4. ASSUME NEW q \in Modules, Done(q)' PROVE Done(q) \/ q = m
    <3>1. q \in scheduled /\ form[q] = "x64" /\ \A i \in DOMAIN pending' : Last(pending'[i]) # q
      BY <2>4, <1>1 DEF Done
    <3>2. ASSUME NEW i \in DOMAIN pending, Last(pending[i]) = q PROVE q = m
      <4>1. CASE i = 1
        BY <4>1, <3>2, <2>0, <2>1
      <4>2. CASE i # 1
        <5>1. i - 1 \in DOMAIN pending' /\ (i - 1) + 1 = i
          BY <4>2, <1>2, <1>3
        <5>2. pending'[i - 1] = pending[i]
          BY <5>1, <1>3
        <5>. QED  BY <5>1, <5>2, <3>1, <3>2
      <4>. QED  BY <4>1, <4>2
    <3>. QED  BY <3>1, <3>2 DEF Done
  <2>5. \A q, x : (Looked(q, x) => Looked(q, x)') /\ (Followed(q, x) => Followed(q, x)')
    BY <1>1, LookedKept
  <2>6. \A n : Reach(n)' = Reach(n)
    BY <1>1, TreeKept
  <2>7. ASSUME NEW q \in Modules, Done(q)', NEW x \in imports[q]
        PROVE  Looked(q, x)' /\ (q \in Reach(MaxDepth - 1) => Followed(q, x)')
    <3>1. CASE Done(q)
      BY <3>1, <2>5, <2>7 DEF Walking, DoneInv
    <3>2. CASE q = m
      BY <3>2, <2>2, <2>3, <2>5, <2>7
    <3>. QED  BY <3>1, <3>2, <2>4, <2>7
  <2>. QED  BY <1>1, <2>6, <2>7 DEF DoneInv
<1>. QED  BY <1>2, <1>3, <1>4, <1>5, <1>6

\* After the last module, all that a chain of bounded length reaches was scheduled.
LEMMA AllReached ==
  ASSUME Walking, NextModule, Len(pending) = 1
  PROVE  Inspected \subseteq scheduled
<1>. SUFFICES ASSUME NEW c \in Chains PROVE Last(c) \in scheduled
  BY DEF Inspected
<1>0. /\ TreeInv /\ ScheduledInv /\ DoneInv' /\ DOMAIN pending' = {}
      /\ UNCHANGED <<form, imports, scheduled>>
  BY ModuleDone DEF Walking, NextModule
<1>1. /\ c \in Seq(Modules) /\ Len(c) \in 1..MaxDepth /\ c[1] = "exe"
      /\ \A k \in 2..Len(c) : Imports(c[k - 1], c[k])
  BY ChainType
<1> DEFINE missed == {k \in 1..Len(c) : c[k] \notin scheduled}
<1>2. SUFFICES ASSUME missed # {} PROVE FALSE
  <2>1. Len(c) \in 1..Len(c)
    BY <1>1, BoundAssumption
  <2>. QED  BY <1>2, <2>1 DEF Last
<1>3. missed \in SUBSET Nat
  BY <1>1, BoundAssumption
<1>4. PICK k \in missed : \A i \in missed : k <= i
  <2>. HIDE DEF missed
  <2>. QED  BY <1>2, <1>3, LeastNumber
<1>5. k \in 2..Len(c) /\ k - 1 \in 1..Len(c) /\ c[k] \notin scheduled
  BY <1>0, <1>1, <1>4, BoundAssumption DEF ScheduledInv
<1>6. c[k - 1] \in scheduled
  <2>1. k - 1 \notin missed
    <3>. HIDE DEF missed
    <3>. QED  BY <1>4, <1>5
  <2>. QED  BY <1>5, <2>1
<1>7. PICK name \in imports[c[k - 1]] \ {"version"} : Resolve(c[k - 1], name) = {c[k]}
  BY <1>1, <1>5 DEF Imports
<1>8. form[c[k]] = "x64" /\ c[k] \in Dlls
  BY <1>1, <1>5, <1>7, ResolveType DEF Imports
<1>9. SubSeq(c, 1, k - 1) \in Chains /\ Len(SubSeq(c, 1, k - 1)) = k - 1
      /\ Last(SubSeq(c, 1, k - 1)) = c[k - 1]
  BY <1>5, ChainPrefix
<1>10. c[k - 1] \in Modules /\ form[c[k - 1]] = "x64"
  <2>. HIDE DEF missed
  <2>. QED  BY <1>0, <1>9, ChainEnd
<1>11. c[k - 1] \in Reach(MaxDepth - 1)
  <2>1. k - 1 <= MaxDepth - 1
    BY <1>1, <1>5, BoundAssumption
  <2>2. \E x \in Chains : Len(x) <= MaxDepth - 1 /\ Last(x) = c[k - 1]
    <3>. SubSeq(c, 1, k - 1) \in Chains
      BY <1>9
    <3>. WITNESS SubSeq(c, 1, k - 1) \in Chains
    <3>. QED  BY <1>9, <2>1
  <2>. QED  BY <2>2, ReachSet
<1>12. PICK p : p = c[k - 1]
  OBVIOUS
<1>13. Followed(p, name)
  <2>1. Done(p)'
    BY <1>0, <1>6, <1>10, <1>12 DEF Done
  <2>2. Reach(MaxDepth - 1)' = Reach(MaxDepth - 1)
    BY <1>0, TreeKept
  <2>3. Followed(p, name)'
    BY <1>0, <1>7, <1>10, <1>11, <1>12, <2>1, <2>2 DEF DoneInv
  <2>. QED  BY <1>0, <2>3, TreeKept DEF Followed
<1>. QED  BY <1>5, <1>7, <1>8, <1>12, <1>13 DEF Followed

\* The next chain is as long as the one at hand, or one module longer: then
\* every module that shorter chains reach is done, and what it imports scheduled.
LEMMA NextChain ==
  ASSUME Walking, NextModule, Len(pending) # 1
  PROVE  /\ Len(pending[2]) \in {Len(pending[1]), Len(pending[1]) + 1}
         /\ Reach(Len(pending[2])) \subseteq scheduled
<1>1. /\ TreeInv' /\ DoneInv'
      /\ pending \in Seq(Seq(Modules)) /\ Len(pending) \in Nat \ {0}
      /\ DOMAIN pending = 1..Len(pending)
      /\ DOMAIN pending' = 1..(Len(pending) - 1)
      /\ \A i \in DOMAIN pending' : i + 1 \in DOMAIN pending /\ pending'[i] = pending[i + 1]
  BY ModuleDone
<1>2. UNCHANGED <<form, imports, scheduled>>
  BY DEF NextModule
<1>3. 1 \in DOMAIN pending /\ 2 \in DOMAIN pending
  BY <1>1
<1>4. /\ Len(pending[1]) \in 1..MaxDepth /\ Len(pending[2]) \in 1..MaxDepth
      /\ pending[1] = Chain
  BY <1>3, ChainAtHand, ChainType DEF Walking, ChainsInv
<1> DEFINE L == Len(pending[1])
<1>5. Len(pending[2]) \in {L, L + 1}
  <2>1. L <= Len(pending[2]) /\ Len(pending[2]) <= L + 1
    BY <1>3 DEF Walking, QueueInv
  <2>. QED  BY <1>4, <2>1, BoundAssumption
<1>6. Reach(L) \subseteq scheduled
  BY <1>4 DEF Walking, WalkInv
<1>7. CASE Len(pending[2]) = L
  BY <1>5, <1>6, <1>7
<1>8. CASE Len(pending[2]) = L + 1
  <2>1. L \in Nat \ {0} /\ L <= MaxDepth - 1
    BY <1>4, <1>8, BoundAssumption
  <2>2. \A i \in DOMAIN pending' : Last(pending'[i]) \notin Reach(L)
    <3>. SUFFICES ASSUME NEW i \in DOMAIN pending' PROVE Last(pending'[i]) \notin Reach(L)
      OBVIOUS
    <3>1. i + 1 \in DOMAIN pending /\ pending'[i] = pending[i + 1]
      BY <1>1
    <3>2. Last(pending[i + 1]) \notin Reach(Len(pending[i + 1]) - 1)
      BY <3>1 DEF Walking, QueueInv
    <3>3. Len(pending[i + 1]) >= L + 1
      <4>1. CASE i = 1
        BY <4>1, <1>8, <2>1
      <4>2. CASE i # 1
        <5>1. 2 < i + 1
          BY <4>2, <1>1
        <5>. QED  BY <5>1, <3>1, <1>3, <1>8 DEF Walking, QueueInv
      <4>. QED  BY <4>1, <4>2
    <3>4. Len(pending[i + 1]) - 1 \in Int /\ L <= Len(pending[i + 1]) - 1
      <4>1. Len(pending[i + 1]) \in Nat
        BY <3>1, <1>1
      <4>. QED  BY <4>1, <3>3, <2>1
    <3>. HIDE DEF L
    <3>. QED  BY <3>1, <3>2, <3>4, <2>1, ReachGrows
  <2>3. ASSUME NEW p \in Reach(L), NEW name \in imports[p] PROVE Followed(p, name)
    <3>1. p \in Modules /\ form[p] = "x64" /\ p \in scheduled
      BY <2>3, <1>6, ReachSet, ChainEnd DEF Walking
    <3>2. Done(p)'
      BY <3>1, <2>2, <1>2 DEF Done
    <3>3. p \in Reach(MaxDepth - 1)
      <4>1. MaxDepth - 1 \in Int /\ L \in Int
        BY <2>1, BoundAssumption
      <4>. HIDE DEF L
      <4>. QED  BY <4>1, <2>1, <2>3, ReachGrows
    <3>4. Reach(MaxDepth - 1)' = Reach(MaxDepth - 1)
      BY <1>2, TreeKept
    <3>5. Followed(p, name)'
      BY <3>1, <3>2, <3>3, <3>4, <1>1, <1>2, <2>3 DEF DoneInv
    <3>. QED  BY <3>5, <1>2, TreeKept DEF Followed
  <2>4. ASSUME NEW x \in Reach(L + 1) PROVE x \in scheduled
    <3>1. CASE x \in Reach(L)
      BY <3>1, <1>6
    <3>2. CASE x \notin Reach(L)
      <4>1. PICK p \in Reach(L) : Imports(p, x)
        <5>. HIDE DEF L
        <5>. QED  BY <2>1, <2>4, <3>2, ReachStep
      <4>2. PICK name \in imports[p] \ {"version"} : Resolve(p, name) = {x}
        BY <4>1 DEF Imports
      <4>3. form[x] = "x64" /\ x \in Dlls
        BY <4>1, <4>2, ResolveType DEF Imports
      <4>4. Followed(p, name)
        BY <2>3, <4>1, <4>2
      <4>. QED  BY <4>2, <4>3, <4>4 DEF Followed
    <3>. QED  BY <3>1, <3>2
  <2>. QED  BY <1>5, <1>8, <2>4
<1>. QED  BY <1>5, <1>7, <1>8

\* The next module keeps the invariant of the walk; the last one ends the walk.
LEMMA NextModuleStep ==
  ASSUME Walking, At("imports"), NextModule
  PROVE  (Walking' /\ At("imports")') \/ (ScanInv' /\ At("scanned")')
<1>1. /\ TreeInv' /\ ChainsInv' /\ ScheduledInv' /\ DoneInv'
      /\ pending \in Seq(Seq(Modules)) /\ Len(pending) \in Nat \ {0}
      /\ DOMAIN pending = 1..Len(pending)
      /\ pending' \in Seq(Seq(Modules)) /\ Len(pending') = Len(pending) - 1
      /\ DOMAIN pending' = 1..(Len(pending) - 1)
      /\ \A i \in DOMAIN pending' : i + 1 \in DOMAIN pending /\ pending'[i] = pending[i + 1]
  BY ModuleDone
<1>2. UNCHANGED <<form, imports, scheduled, evidence, unresolved>>
  BY DEF NextModule
<1>3. CASE Len(pending) = 1
  <2>1. pc' = "scanned" /\ pending' = <<>>
    BY <1>1, <1>3 DEF NextModule, Go
  <2>2. (Inspected \subseteq scheduled)'
    BY <1>2, <1>3, AllReached, TreeKept
  <2>. QED  BY <1>1, <2>1, <2>2 DEF ScanInv, At, Selecting
<1>4. CASE Len(pending) # 1
  <2>1. UNCHANGED pc /\ left' = imports[Last(pending[2])]
    BY <1>4 DEF NextModule
  <2>2. /\ Len(pending[2]) \in {Len(pending[1]), Len(pending[1]) + 1}
        /\ Reach(Len(pending[2])) \subseteq scheduled
    BY <1>4, NextChain
  <2>3. /\ 1 \in DOMAIN pending /\ 2 \in DOMAIN pending /\ 1 \in DOMAIN pending'
        /\ pending'[1] = pending[2] /\ pending' # <<>>
    <3>1. 1 \in DOMAIN pending /\ 2 \in DOMAIN pending /\ 1 \in DOMAIN pending' /\ 1 + 1 = 2
      BY <1>1, <1>4
    <3>2. pending'[1] = pending[1 + 1]
      BY <1>1, <3>1
    <3>3. pending' # <<>>
      BY <3>1
    <3>. QED  BY <3>1, <3>2, <3>3
  <2>4. QueueInv'
    <3>1. \A i \in DOMAIN pending' : Last(pending'[i]) \notin Reach(Len(pending'[i]) - 1)
      BY <1>1 DEF Walking, QueueInv
    <3>2. ASSUME NEW i \in DOMAIN pending', NEW j \in DOMAIN pending', i < j
          PROVE  Len(pending'[i]) <= Len(pending'[j]) /\ Last(pending'[i]) # Last(pending'[j])
      <4>1. /\ i + 1 \in DOMAIN pending /\ j + 1 \in DOMAIN pending /\ i + 1 < j + 1
            /\ pending'[i] = pending[i + 1] /\ pending'[j] = pending[j + 1]
        BY <1>1, <3>2
      <4>. QED  BY <4>1 DEF Walking, QueueInv
    <3>3. ASSUME NEW j \in DOMAIN pending'
          PROVE  Len(pending'[j]) <= Len(pending'[1]) + 1
      <4>1. j + 1 \in DOMAIN pending /\ pending'[j] = pending[j + 1]
        BY <1>1
      <4>2. Len(pending[j + 1]) <= Len(pending[1]) + 1
        BY <4>1, <2>3 DEF Walking, QueueInv
      <4>3. Len(pending[1]) \in Nat /\ Len(pending[j + 1]) \in Nat
        BY <4>1, <1>1, <2>3
      <4>. QED  BY <4>1, <4>2, <4>3, <2>2, <2>3
    <3>4. \A n : Reach(n)' = Reach(n)
      BY <1>2, TreeKept
    <3>. QED  BY <1>1, <2>3, <3>1, <3>2, <3>3, <3>4 DEF QueueInv
  <2>5. WalkInv'
    <3>1. Chain' = pending[2]
      BY <2>3, <1>1 DEF Chain
    <3>2. PICK n : n = Len(pending[2])
      OBVIOUS
    <3>3. Reach(n)' \subseteq scheduled'
      BY <3>2, <2>2, <1>2, TreeKept
    <3>4. Reach(Len(Chain))' \subseteq scheduled'
      BY <3>1, <3>2, <3>3
    <3>. QED  BY <3>1, <3>4, <2>1, <1>2 DEF WalkInv
  <2>. QED  BY <1>1, <2>1, <2>4, <2>5 DEF Walking, At
<1>. QED  BY <1>3, <1>4

\* The walk begins at the executable.
LEMMA BeginScanStep ==
  ASSUME evidence = {}, BeginScan
  PROVE  Walking' /\ At("imports")'
<1>1. /\ form' \in [Modules -> Forms] /\ form'["exe"] = "x64"
      /\ imports' \in [{m \in Modules : form'[m] = "x64"} -> SUBSET Names]
      /\ pending' = <<<<"exe">>>> /\ scheduled' = {"exe"} /\ left' = imports'["exe"]
      /\ evidence' = {} /\ pc' = "imports"
  BY DEF BeginScan, Go
<1>2. /\ "exe" \in Modules /\ <<"exe">> \in Seq(Modules) /\ Len(<<"exe">>) = 1
      /\ Last(<<"exe">>) = "exe"
  BY DEF Modules, Last
<1>3. /\ DOMAIN pending' = {1} /\ pending'[1] = <<"exe">> /\ pending' # <<>>
      /\ pending' \in Seq(Seq(Modules)) /\ Chain' = <<"exe">>
  BY <1>1, <1>2 DEF Chain
<1>4. <<"exe">> \in Chains'
  <2>1. <<"exe">> \in [1..1 -> Modules] /\ 1 \in 1..MaxDepth
    BY <1>2, BoundAssumption
  <2>. QED  BY <2>1 DEF Chains
<1>5. ASSUME NEW c \in Chains' PROVE Len(c) >= 1 /\ (Len(c) <= 1 => Last(c) = "exe")
  <2>1. PICK n \in 1..MaxDepth : c \in [1..n -> Modules]
    BY DEF Chains
  <2>2. Len(c) = n /\ n \in Nat /\ c[1] = "exe"
    BY <2>1, BoundAssumption DEF Chains
  <2>. QED  BY <2>1, <2>2 DEF Last
<1>6. Reach(0)' = {} /\ Reach(1)' \subseteq {"exe"}
  BY <1>5 DEF Reach
<1>7. TreeInv'
  BY <1>1 DEF TreeInv
<1>8. ChainsInv'
  BY <1>1, <1>2, <1>3, <1>4 DEF ChainsInv
<1>9. ScheduledInv'
  <2>1. "exe" \in Inspected'
    BY <1>2, <1>4 DEF Inspected
  <2>. QED  BY <1>1, <1>2, <2>1 DEF ScheduledInv
<1>10. QueueInv'
  <2>1. Len(pending'[1]) - 1 = 0
    BY <1>2, <1>3
  <2>2. \A i \in DOMAIN pending' : i = 1 /\ Len(pending'[i]) - 1 = 0
    BY <1>3, <2>1
  <2>3. (\A i \in DOMAIN pending : Last(pending[i]) \notin Reach(Len(pending[i]) - 1))'
    <3>. SUFFICES ASSUME NEW i \in DOMAIN pending', NEW n, n = Len(pending'[i]) - 1
                  PROVE  Last(pending'[i]) \notin Reach(n)'
      OBVIOUS
    <3>. QED  BY <2>2, <1>6
  <2>4. (\A i, j \in DOMAIN pending :
           /\ i < j => Len(pending[i]) <= Len(pending[j]) /\ Last(pending[i]) # Last(pending[j])
           /\ Len(pending[j]) <= Len(pending[1]) + 1)'
    <3>. SUFFICES ASSUME NEW i \in DOMAIN pending', NEW j \in DOMAIN pending'
                  PROVE  ~(i < j) /\ Len(pending'[j]) <= Len(pending'[1]) + 1
      OBVIOUS
    <3>1. i = 1 /\ j = 1 /\ Len(pending'[1]) = 1
      BY <1>2, <1>3
    <3>. QED  BY <3>1
  <2>. QED  BY <1>3, <2>3, <2>4 DEF QueueInv
<1>11. WalkInv'
  BY <1>1, <1>2, <1>3, <1>6 DEF WalkInv
<1>12. DoneInv'
  <2>1. \A m : ~Done(m)'
    BY <1>1, <1>2, <1>3 DEF Done
  <2>. QED  BY <2>1 DEF DoneInv
<1>. QED  BY <1>1, <1>7, <1>8, <1>9, <1>10, <1>11, <1>12 DEF Walking, At

LEMMA ScanStep ==
  ASSUME ScanInv, [Next]_vars
  PROVE  ScanInv'
<1>1. CASE ResolveExe
  BY <1>1 DEF ResolveExe, ScanInv, Selecting, At, Go, Select, scanning, Chosen
<1>2. CASE AnswerExe
  BY <1>2 DEF AnswerExe, ScanInv, Selecting, At, Go, Select, scanning, Chosen
<1>3. CASE AnswerPrompt
  BY <1>3 DEF AnswerPrompt, ScanInv, Selecting, At, Go, Select, scanning, Chosen
<1>4. CASE EnterScan
  BY <1>4 DEF EnterScan, ScanInv, Selecting, At, Go, scanning
<1>5. CASE BeginScan
  <2>1. evidence = {}
    BY <1>5 DEF BeginScan, ScanInv, At
  <2>2. Walking' /\ pc' = "imports"
    BY <1>5, <2>1, BeginScanStep DEF At
  <2>. QED  BY <2>2 DEF ScanInv, Selecting, At
<1>6. ASSUME NEW name \in Names, Follow(name) PROVE ScanInv'
  <2>1. Walking
    BY <1>6 DEF Follow, ScanInv
  <2>2. (Walking' /\ pc' = "imports") \/ pc' = "error"
    BY <1>6, <2>1, FollowStep DEF At
  <2>. QED  BY <2>2 DEF ScanInv, Selecting, At
<1>7. CASE NextModule
  <2>1. Walking /\ At("imports")
    BY <1>7 DEF NextModule, ScanInv
  <2>2. (Walking' /\ pc' = "imports") \/ ScanInv'
    BY <1>7, <2>1, NextModuleStep DEF At
  <2>. QED  BY <2>2 DEF ScanInv, Selecting, At
<1>8. CASE BeginRunner
  BY <1>8 DEF BeginRunner, ScanInv, Selecting, At, Go
<1>9. CASE ResolveProton
  BY <1>9 DEF ResolveProton, ScanInv, Selecting, At, Go, Return, Turn, Menu
<1>10. CASE AnswerFolder
  BY <1>10 DEF AnswerFolder, ScanInv, Selecting, At, Go, Return, Turn
<1>11. CASE AnswerList
  BY <1>11 DEF AnswerList, ScanInv, Selecting, At, Go, Return, Turn
<1>12. CASE ConfirmRunner
  BY <1>12 DEF ConfirmRunner, ScanInv, Selecting, At, Go, Confirm, Turn, Menu
<1>13. CASE UNCHANGED vars
  <2>1. UNCHANGED <<pc, form, imports, pending, left, scheduled, evidence, unresolved>>
    BY <1>13 DEF vars, scanning
  <2>2. /\ TreeInv' <=> TreeInv
        /\ ChainsInv' <=> ChainsInv
        /\ ScheduledInv' <=> ScheduledInv
        /\ QueueInv' <=> QueueInv
    BY <2>1, TreeKept DEF TreeInv, ChainsInv, ScheduledInv, QueueInv
  <2>3. \A q, x : (Looked(q, x)' <=> Looked(q, x)) /\ (Followed(q, x)' <=> Followed(q, x))
    BY <2>1, TreeKept DEF Looked, Followed
  <2>4. \A q : Done(q)' <=> Done(q)
    BY <2>1 DEF Done
  <2>5. DoneInv' <=> DoneInv
    BY <2>1, <2>3, <2>4, TreeKept DEF DoneInv
  <2>6. WalkInv' <=> WalkInv
    <3>1. Chain' = Chain
      BY <2>1 DEF Chain
    <3>2. PICK m, n : m = Last(Chain) /\ n = Len(Chain)
      OBVIOUS
    <3>3. Reach(n)' = Reach(n)
      BY <2>1, TreeKept
    <3>. QED  BY <2>1, <2>3, <3>1, <3>2, <3>3 DEF WalkInv
  <2>7. (Inspected \subseteq scheduled)' <=> (Inspected \subseteq scheduled)
    BY <2>1, TreeKept
  <2>. QED  BY <2>1, <2>2, <2>5, <2>6, <2>7 DEF ScanInv, Walking, At
<1>. QED  BY <1>1, <1>2, <1>3, <1>4, <1>5, <1>6, <1>7, <1>8, <1>9, <1>10, <1>11, <1>12,
             <1>13 DEF Next

-----------------------------------------------------------------------------
(* The executable and the runner. *)

\* What select_executable returns is the game itself; with no --exe, the only
\* candidate, or what the only candidate starts.
LEMMA PickedIsGame ==
  ASSUME kind \in [Exes -> Kinds], NEW e, Pick(e) # None
  PROVE  /\ Pick(e) \in Exes /\ kind[Pick(e)] \in {"game", "shipping"}
         /\ e = None => Selectable = {Pick(e)}
                        \/ \E c \in Exes : Selectable = {c} /\ Pick(e) = target
<1>1. ASSUME NEW c, Executable(c), Target(c) # None
      PROVE  /\ Target(c) \in Exes /\ kind[Target(c)] \in {"game", "shipping"}
             /\ Target(c) = c \/ Target(c) = target
  <2>1. CASE kind[c] # "bootstrap"
    BY <2>1, <1>1 DEF Target, Executable
  <2>2. CASE kind[c] = "bootstrap"
    BY <2>2, <1>1 DEF Target, Executable
  <2>. QED  BY <2>1, <2>2
<1>2. CASE e # None
  <2>1. Executable(e) /\ Pick(e) = Target(e)
    BY <1>2 DEF Pick
  <2>. QED  BY <1>1, <1>2, <2>1
<1>3. CASE e = None
  <2>1. Only(Selectable) /\ Pick(e) = Target(CHOOSE c \in Selectable : TRUE)
    BY <1>3 DEF Pick
  <2>2. IsFiniteSet(Selectable)
    BY TreeAssumption, FS_Subset DEF Selectable, Shipping, Candidates
  <2>3. PICK c : Selectable = {c}
    BY <2>1, <2>2, FS_Singleton DEF Only
  <2>4. Pick(e) = Target(c) /\ Executable(c) /\ c \in Exes
    BY <2>1, <2>3 DEF Selectable, Shipping, Candidates
  <2>. QED  BY <1>1, <2>3, <2>4
<1>. QED  BY <1>2, <1>3

\* Choosing, with somebody to ask or by the only candidate, keeps the invariant.
LEMMA ChosenStep ==
  ASSUME ExeInv, pc \in Selecting, Select, NEW e, Chosen(Pick(e)), asks \/ e = explicit
  PROVE  ExeInv'
<1>1. /\ kind \in [Exes -> Kinds] /\ explicit \in Exes \cup {None}
      /\ (pc \in {"ask_exe", "prompt"} \/ prompted) => asks
  BY DEF ExeInv
<1>2. UNCHANGED <<asks, explicit, kind, target>>
  BY DEF Select
<1>3. Selectable' = Selectable
  BY <1>2 DEF Selectable, Shipping, Candidates, Executable
<1>4. CASE Pick(e) # None
  <2>1. exe' = Pick(e) /\ pc' = "scan" /\ UNCHANGED prompted
    BY <1>4 DEF Chosen, Go
  <2>2. TheGameIsSelected'
    BY <1>1, <1>2, <1>3, <1>4, <2>1, PickedIsGame DEF TheGameIsSelected
  <2>. QED  BY <1>1, <1>2, <2>1, <2>2 DEF ExeInv
<1>5. CASE Pick(e) = None
  <2>1. UNCHANGED <<exe, prompted>> /\ pc' = IF prompted THEN "prompt" ELSE "error"
    BY <1>5 DEF Chosen, Go
  <2>. QED  BY <1>1, <1>2, <2>1 DEF ExeInv, TheGameIsSelected, At
<1>. QED  BY <1>4, <1>5

LEMMA ExeStep ==
  ASSUME ExeInv, [Next]_vars
  PROVE  ExeInv'
<1>1. CASE ResolveExe
  <2>1. pc = "exe" /\ Select /\ UNCHANGED <<asks, explicit, kind, target>>
    BY <1>1 DEF ResolveExe, At, Select
  <2>2. CASE Chosen(Pick(explicit))
    BY <2>1, <2>2, ChosenStep DEF Selecting
  <2>3. CASE Ambiguous(explicit) /\ MayAsk /\ Go("ask_exe") /\ UNCHANGED <<prompted, exe>>
    BY <2>1, <2>3 DEF ExeInv, Selecting, TheGameIsSelected, At, Go, MayAsk
  <2>4. CASE explicit = None /\ MayAsk /\ Go("prompt") /\ prompted' = TRUE /\ UNCHANGED exe
    BY <2>1, <2>4 DEF ExeInv, Selecting, TheGameIsSelected, At, Go, MayAsk
  <2>. QED  BY <1>1, <2>2, <2>3, <2>4 DEF ResolveExe
<1>2. CASE AnswerExe
  <2>1. pc = "ask_exe" /\ Select /\ asks
    BY <1>2 DEF AnswerExe, At, ExeInv, Selecting
  <2>2. ASSUME NEW e \in Candidates, Chosen(Pick(e)) PROVE ExeInv'
    BY <2>1, <2>2, ChosenStep DEF Selecting
  <2>3. CASE Go("cancelled")
    BY <2>3 DEF ExeInv, Selecting, Go
  <2>. QED  BY <1>2, <2>2, <2>3 DEF AnswerExe
<1>3. CASE AnswerPrompt
  <2>1. pc = "prompt" /\ Select /\ asks /\ UNCHANGED <<asks, explicit, kind, target>>
    BY <1>3 DEF AnswerPrompt, At, ExeInv, Selecting, Select
  <2>2. ASSUME NEW e, Chosen(Pick(e)) PROVE ExeInv'
    BY <2>1, <2>2, ChosenStep DEF Selecting
  <2>3. CASE Go("ask_exe") /\ UNCHANGED <<prompted, exe>>
    BY <2>1, <2>3 DEF ExeInv, Selecting, TheGameIsSelected, At, Go
  <2>4. CASE Go("cancelled")
    BY <2>4 DEF ExeInv, Selecting, Go
  <2>. QED  BY <1>3, <2>2, <2>3, <2>4 DEF AnswerPrompt
<1>4. CASE \/ EnterScan \/ BeginScan \/ (\E name \in Names : Follow(name)) \/ NextModule
  <2>1. pc' \in {"walk", "imports", "scanned", "error"}
    BY <1>4 DEF EnterScan, BeginScan, Follow, NextModule, At, Go
  <2>. QED  BY <2>1 DEF ExeInv, Selecting
<1>5. CASE BeginRunner \/ ResolveProton \/ AnswerFolder \/ AnswerList \/ ConfirmRunner
  <2>1. pc' \in {"runner", "folder", "list", "confirm", "done", "cancelled", "error"}
    BY <1>5 DEF BeginRunner, ResolveProton, AnswerFolder, AnswerList, ConfirmRunner, Go, Return,
                Turn, Confirm, Menu
  <2>. QED  BY <2>1 DEF ExeInv, Selecting
<1>6. CASE UNCHANGED vars
  BY <1>6 DEF vars, selecting, ExeInv, TheGameIsSelected, At, Selectable, Shipping, Candidates,
              Executable
<1>. QED  BY <1>1, <1>2, <1>3, <1>4, <1>5, <1>6 DEF Next

LEMMA RunnerStep ==
  ASSUME RunnerInv, [Next]_vars
  PROVE  RunnerInv'
<1> USE DEF RunnerInv, ConfirmedRunnerIsUsed, At, Go
<1>1. CASE ResolveExe \/ AnswerExe \/ AnswerPrompt
  <2>1. pc' \in {"ask_exe", "prompt", "scan", "error", "cancelled"}
    BY <1>1 DEF ResolveExe, AnswerExe, AnswerPrompt, Chosen
  <2>. QED  BY <2>1
<1>2. CASE \/ EnterScan \/ BeginScan \/ (\E name \in Names : Follow(name)) \/ NextModule
           \/ BeginRunner
  <2>1. pc' \in {"walk", "imports", "scanned", "error", "runner"}
    BY <1>2 DEF EnterScan, BeginScan, Follow, NextModule, BeginRunner
  <2>. QED  BY <2>1
<1>3. CASE ResolveProton
  <2>1. UNCHANGED <<asks, option, options, valid>>
    BY <1>3 DEF ResolveProton, Choose
  <2>2. \/ pc' = "confirm" /\ runner' \in valid
        \/ pc' \in {"list", "folder"} /\ asks
        \/ pc' = "error"
    BY <1>3 DEF ResolveProton, Return, Turn, Menu, MayAsk
  <2>. QED  BY <2>1, <2>2
<1>4. CASE AnswerFolder \/ AnswerList
  <2>1. UNCHANGED <<asks, option, options, valid>> /\ asks
    BY <1>4 DEF AnswerFolder, AnswerList, Choose
  <2>2. \/ pc' = "confirm" /\ runner' \in valid
        \/ pc' \in {"list", "folder", "cancelled"}
    BY <1>4 DEF AnswerFolder, AnswerList, Return, Turn, Accepted
  <2>. QED  BY <2>1, <2>2
<1>5. CASE ConfirmRunner
  <2>1. UNCHANGED <<asks, option, options, valid>> /\ runner \in valid
    BY <1>5 DEF ConfirmRunner, Choose
  <2>2. \/ pc' = "done" /\ agreed' = runner /\ runner' = runner
                        /\ (asks \/ "sure" \in options)
        \/ pc' \in {"list", "folder"} /\ asks
        \/ pc' \in {"error", "cancelled"}
    BY <1>5 DEF ConfirmRunner, Confirm, Turn, Menu, MayAsk
  <2>. QED  BY <2>1, <2>2
<1>6. CASE UNCHANGED vars
  BY <1>6 DEF vars, choosing
<1>. QED  BY <1>1, <1>2, <1>3, <1>4, <1>5, <1>6 DEF Next

-----------------------------------------------------------------------------
(* The theorems. *)

LEMMA Invariant == Spec => []IInv
<1>1. Init => IInv
  BY DEF Init, NothingScanned, IInv, ExeInv, RunnerInv, ScanInv, TheGameIsSelected,
         ConfirmedRunnerIsUsed, At, Selecting
<1>2. IInv /\ [Next]_vars => IInv'
  BY ExeStep, RunnerStep, ScanStep DEF IInv
<1>. QED  BY <1>1, <1>2, PTL DEF Spec

\* After the walk, whatever a chain of bounded length reaches is done.
LEMMA ScannedIsDone ==
  ASSUME ScanInv, At("scanned"), NEW m \in Inspected
  PROVE  /\ TreeInv /\ ScheduledInv /\ ChainsInv /\ m \in scheduled /\ form[m] = "x64"
         /\ \A name \in imports[m] : Looked(m, name)
<1>1. TreeInv /\ ScheduledInv /\ ChainsInv /\ DoneInv /\ pending = <<>> /\ m \in scheduled
  BY DEF ScanInv
<1>2. m \in Modules /\ form[m] = "x64"
  BY <1>1, ChainEnd DEF Inspected
<1>3. Done(m)
  BY <1>1, <1>2 DEF Done
<1>. QED  BY <1>1, <1>2, <1>3 DEF DoneInv

\* Whatever the user answers, and for any executables, the game itself is selected,
\* and without anybody to ask only when there is a single candidate (resolve_exe).
THEOREM GameIsSelected == Spec => []TheGameIsSelected
<1>1. IInv => TheGameIsSelected
  BY DEF IInv, ExeInv, TheGameIsSelected, At, Selecting
<1>. QED  BY <1>1, Invariant, PTL

\* For any tree of files and any bound on the chains, inspect_game shows exactly the
\* modules that import version.dll among those that the bounded chains reach, each
\* by a chain that the loader would take: the shortest chain is met first, so that
\* the bound cuts off nothing that a shorter chain leads to.
THEOREM EvidenceIsExact == Spec => []LoaderEvidenceExact
<1>1. ASSUME ScanInv, At("scanned") PROVE LoaderEvidenceExact
  <2>1. ChainsInv
    BY <1>1 DEF ScanInv
  <2>2. ASSUME NEW e \in evidence
        PROVE  /\ Last(Front(e)) \in {m \in Inspected : "version" \in imports[m]}
               /\ Front(e) \in Chains /\ Last(e) = "version"
    BY <2>1 DEF ChainsInv, Inspected
  <2>3. ASSUME NEW m \in Inspected, "version" \in imports[m]
        PROVE  m \in {Last(Front(e)) : e \in evidence}
    <3>1. Looked(m, "version")
      BY <1>1, <2>3, ScannedIsDone
    <3>. QED  BY <3>1 DEF Looked
  <2>. QED  BY <2>2, <2>3 DEF LoaderEvidenceExact
<1>2. IInv => LoaderEvidenceExact
  BY <1>1 DEF IInv, LoaderEvidenceExact
<1>. QED  BY <1>2, Invariant, PTL

\* For any tree and any bounds, an import that was not followed although it has a
\* file in the tree is reported as unresolved, or its file is for another machine.
THEOREM NothingIsSkipped == Spec => []NothingSkippedSilently
<1>1. ASSUME ScanInv, At("scanned"), NEW m \in Inspected, NEW name \in imports[m] \ {"version"}
      PROVE  \/ Resolve(m, name) = {} \/ name \in unresolved
             \/ \E d \in Inspected \cup {x \in Dlls : form[x] = "x86"} : Resolve(m, name) = {d}
  <2>1. /\ TreeInv /\ ScheduledInv /\ Looked(m, name)
    BY <1>1, ScannedIsDone
  <2>2. ASSUME NEW d \in scheduled, Resolve(m, name) = {d}
        PROVE  \/ name \in unresolved
               \/ d \in Inspected \cup {x \in Dlls : form[x] = "x86"}
    <3>1. d \in Dlls /\ DllName[d] = name /\ form[d] # "absent"
      BY <2>2, ResolveType
    <3>2. form[d] \in {"bad", "x86", "x64"}
      BY <2>1, <3>1 DEF TreeInv, Forms, Modules
    <3>. QED  BY <2>1, <2>2, <3>1, <3>2 DEF ScheduledInv
  <2>. QED  BY <1>1, <2>1, <2>2 DEF Looked
<1>2. IInv => NothingSkippedSilently
  BY <1>1 DEF IInv, NothingSkippedSilently
<1>. QED  BY <1>2, Invariant, PTL

\* For any runners and any answers, the runner that is used passed validate_proton
\* and is the one that was confirmed last (resolve_proton, confirm_runner).
THEOREM RunnerIsConfirmed == Spec => []ConfirmedRunnerIsUsed
<1>1. IInv => ConfirmedRunnerIsUsed
  BY DEF IInv, RunnerInv
<1>. QED  BY <1>1, Invariant, PTL
=============================================================================
