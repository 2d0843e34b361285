------------------------- MODULE ModuleGraph_proofs -------------------------
(***************************************************************************)
(* Proofs about ModuleGraph for every program: any files, packages and     *)
(* imports, however they are tangled.                                      *)
(***************************************************************************)
EXTENDS ModuleGraph, SequenceTheorems, TLAPS

(* Why the loader may go on without d, or what it found wrong with it.     *)
Settled(d) ==
  \/ d \in Ordered
  \/ ~Loadable(d) /\ "K4000" \in diagnostics
  \/ "K4002" \in diagnostics

(* A call in progress waits for one dependency, the call above it, and has *)
(* settled the others.                                                     *)
OthersSettled ==
  \A i \in DOMAIN stack : \A d \in stack[i].dependencies :
    Settled(d) \/ (i < Len(stack) /\ stack[i + 1].unit = d)

NothingBeforeLoad == ~started => stack = <<>>

LoaderInv ==
  TypeOK /\ StackMatchesStates /\ OthersSettled /\ NothingBeforeLoad /\ DependenciesFirst

(* The calls of s are those in progress, with at least their dependencies. *)
SameCalls(s) ==
  /\ s \in Seq(Frame)
  /\ Len(s) = Len(stack)
  /\ \A i \in DOMAIN stack : /\ s[i].unit = stack[i].unit
                             /\ stack[i].dependencies \subseteq s[i].dependencies
-----------------------------------------------------------------------------
LEMMA Domains ==
  ASSUME TypeOK
  PROVE  /\ Len(stack) \in Nat /\ DOMAIN stack = 1..Len(stack)
         /\ Len(order) \in Nat /\ DOMAIN order = 1..Len(order)
         /\ \A i \in DOMAIN stack : stack[i] \in Frame
         /\ \A i \in DOMAIN order : order[i] \in Unit
         /\ stack # <<>> => Len(stack) \in DOMAIN stack /\ Top \in Frame
         /\ stack = <<>> => Len(stack) = 0
<1>1. /\ Len(stack) \in Nat /\ DOMAIN stack = 1..Len(stack)
      /\ Len(order) \in Nat /\ DOMAIN order = 1..Len(order)
  BY LenProperties DEF TypeOK
<1>2. \A i \in DOMAIN stack : stack[i] \in Frame
  BY <1>1, ElementOfSeq DEF TypeOK
<1>3. \A i \in DOMAIN order : order[i] \in Unit
  BY <1>1, ElementOfSeq DEF TypeOK
<1>4. stack # <<>> => Len(stack) \in DOMAIN stack
  BY <1>1, EmptySeq DEF TypeOK
<1>5. QED  BY <1>1, <1>2, <1>3, <1>4, EmptySeq DEF Top

LEMMA SourcesAreFiles ==
  ASSUME NEW u \in Unit, TypeOK
  PROVE  /\ Sources(u) \in Seq(Files)
         /\ Len(Sources(u)) \in Nat
         /\ \A i \in 1..Len(Sources(u)) :
              /\ Sources(u)[i] \in Files
              /\ imports[Sources(u)[i]] \in Seq(Import)
<1>1. CASE u \in Packages
  <2>1. Sources(u) = Members[u] /\ Members[u] \in Seq(Files)
    BY <1>1, GraphAssumption DEF Sources
  <2>2. QED  BY <2>1, LenProperties, ElementOfSeq DEF TypeOK
<1>2. CASE u \notin Packages
  <2>1. u \in Files /\ Sources(u) = <<u>>
    BY <1>2 DEF Sources, Unit
  <2>2. <<u>> \in Seq(Files) /\ Len(<<u>>) = 1 /\ <<u>>[1] = u
    BY <2>1
  <2>3. QED  BY <2>1, <2>2 DEF TypeOK
<1>3. QED  BY <1>1, <1>2

(* What is known where an import is looked at.                             *)
LEMMA ImportFacts ==
  ASSUME TypeOK, AtImport
  PROVE  /\ Top \in Frame /\ File \in Files
         /\ Current \in Import
         /\ Moved \in Frame /\ Named \in Frame
         /\ Named.unit = Top.unit /\ Named.dependencies = Top.dependencies
<1>1. stack # <<>> /\ Top \in Frame
  BY Domains DEF AtImport
<1>2. Top.unit \in Unit /\ Top.file \in Nat \ {0} /\ Top.next \in Nat
      /\ Top.aliases \in SUBSET Aliases /\ Top.dependencies \in SUBSET Unit
  BY <1>1 DEF Frame
<1>3. Top.file \in 1..Len(Sources(Top.unit))
  BY <1>2, SourcesAreFiles DEF AtImport
<1>4. File \in Files /\ imports[File] \in Seq(Import)
  BY <1>2, <1>3, SourcesAreFiles DEF File
<1>5. Current \in Import
  BY <1>4, LenProperties, ElementOfSeq DEF Current, AtImport
<1>6. Current.alias \in Aliases
  BY <1>5 DEF Import
<1>7. Moved \in Frame /\ Moved.unit = Top.unit /\ Moved.dependencies = Top.dependencies
      /\ Moved.aliases = Top.aliases
  BY <1>1, <1>2 DEF Moved, Frame
<1>8. Named \in Frame /\ Named.unit = Top.unit /\ Named.dependencies = Top.dependencies
  BY <1>2, <1>6, <1>7 DEF Named, Frame
<1>9. QED  BY <1>1, <1>4, <1>5, <1>7, <1>8

(* The running call goes on.                                               *)
LEMMA ReplacedTop ==
  ASSUME TypeOK, stack # <<>>, NEW f \in Frame,
         f.unit = Top.unit, Top.dependencies \subseteq f.dependencies
  PROVE  /\ SameCalls(Replaced(f))
         /\ Replaced(f)[Len(stack)] = f
         /\ \A i \in DOMAIN stack : i # Len(stack) => Replaced(f)[i] = stack[i]
<1>1. stack \in Seq(Frame) /\ Len(stack) \in 1..Len(stack) /\ DOMAIN stack = 1..Len(stack)
  BY Domains DEF TypeOK
<1>2. /\ Replaced(f) \in Seq(Frame)
      /\ Len(Replaced(f)) = Len(stack)
      /\ \A j \in 1..Len(stack) :
           Replaced(f)[j] = IF j = Len(stack) THEN f ELSE stack[j]
  BY <1>1, ExceptSeq DEF Replaced
<1>3. QED  BY <1>1, <1>2 DEF SameCalls, Top
-----------------------------------------------------------------------------
(* Steps that leave the calls in progress as they are.                     *)
LEMMA SameCallsMatch ==
  ASSUME TypeOK, StackMatchesStates, SameCalls(stack'),
         UNCHANGED <<state, order>>
  PROVE  StackMatchesStates'
<1>1. DOMAIN stack' = DOMAIN stack /\ DOMAIN stack = 1..Len(stack) /\ Len(stack) \in Nat
  BY Domains, LenProperties DEF SameCalls
<1>2. \A i \in DOMAIN stack : stack'[i].unit = stack[i].unit
                              /\ stack[i].dependencies \subseteq stack'[i].dependencies
  BY DEF SameCalls
<1>3. Ordered' = Ordered
  BY DEF Ordered
<1>4. \A i \in DOMAIN stack' : i > 1 => stack'[i].unit \in stack'[i - 1].dependencies
  <2> SUFFICES ASSUME NEW i \in DOMAIN stack', i > 1
               PROVE stack'[i].unit \in stack'[i - 1].dependencies
    OBVIOUS
  <2>1. i \in DOMAIN stack /\ i - 1 \in DOMAIN stack
    BY <1>1
  <2>2. QED  BY <1>2, <2>1 DEF StackMatchesStates
<1>5. /\ \A u \in Unit : state'[u] = 1 <=> \E i \in DOMAIN stack' : stack'[i].unit = u
      /\ \A i, j \in DOMAIN stack' : stack'[i].unit = stack'[j].unit => i = j
  BY <1>1, <1>2 DEF StackMatchesStates
<1>6. /\ \A u \in Unit : state'[u] = 2 <=> u \in Ordered'
      /\ \A i, j \in DOMAIN order' : order'[i] = order'[j] => i = j
  BY <1>3 DEF StackMatchesStates
<1>7. QED  BY <1>4, <1>5, <1>6 DEF StackMatchesStates

LEMMA StaysSettled ==
  ASSUME NEW d, Settled(d), Ordered \subseteq Ordered', diagnostics \subseteq diagnostics'
  PROVE  Settled(d)'
BY DEF Settled, Loadable

(* A new dependency has to be settled in the step that records it.         *)
LEMMA SameCallsSettled ==
  ASSUME TypeOK, OthersSettled, SameCalls(stack'), UNCHANGED order,
         diagnostics \subseteq diagnostics',
         \A i \in DOMAIN stack : \A d \in stack'[i].dependencies \ stack[i].dependencies :
           Settled(d)'
  PROVE  OthersSettled'
<1> SUFFICES ASSUME NEW i \in DOMAIN stack', NEW d \in stack'[i].dependencies
             PROVE  Settled(d)' \/ (i < Len(stack') /\ stack'[i + 1].unit = d)
  BY DEF OthersSettled
<1>1. DOMAIN stack' = DOMAIN stack /\ DOMAIN stack = 1..Len(stack) /\ Len(stack) \in Nat
      /\ Len(stack') = Len(stack)
  BY Domains, LenProperties DEF SameCalls
<1>2. CASE d \notin stack[i].dependencies
  BY <1>1, <1>2
<1>3. CASE d \in stack[i].dependencies /\ Settled(d)
  BY <1>3, StaysSettled DEF Ordered
<1>4. CASE d \in stack[i].dependencies /\ i < Len(stack) /\ stack[i + 1].unit = d
  <2>1. i + 1 \in DOMAIN stack
    BY <1>1, <1>4
  <2>2. QED  BY <1>1, <1>4, <2>1 DEF SameCalls
<1>5. QED  BY <1>1, <1>2, <1>3, <1>4 DEF OthersSettled

LEMMA StillFirst ==
  ASSUME DependenciesFirst, UNCHANGED <<order, modules>>, diagnostics \subseteq diagnostics'
  PROVE  DependenciesFirst'
BY DEF DependenciesFirst, Loadable
-----------------------------------------------------------------------------
(* visit, whatever it finds: callers is the stack of the call, with u      *)
(* recorded as a dependency of the running call.                           *)
LEMMA Visited ==
  ASSUME LoaderInv, NEW u \in Unit, NEW callers, SameCalls(callers), Visit(u, callers),
         UNCHANGED <<imports, entry, modules, order>>, started' = TRUE,
         \A i \in DOMAIN stack :
           /\ i = Len(stack) => u \in callers[i].dependencies
           /\ \A d \in callers[i].dependencies \ stack[i].dependencies :
                i = Len(stack) /\ d = u
  PROVE  LoaderInv'
<1> USE DEF LoaderInv
<1>1. /\ Len(stack) \in Nat /\ DOMAIN stack = 1..Len(stack)
      /\ callers \in Seq(Frame) /\ Len(callers) = Len(stack)
      /\ DOMAIN callers = DOMAIN stack
  BY Domains, LenProperties DEF SameCalls
<1>2. NothingBeforeLoad'
  BY DEF NothingBeforeLoad
<1>3. diagnostics \subseteq diagnostics'
  BY DEF Visit, Report
<1>4. DependenciesFirst'
  BY <1>3, StillFirst
<1>5. CASE stack' = callers /\ UNCHANGED state
  <2>1. Settled(u)'
    <3>1. CASE state[u] = 2
      BY <3>1 DEF StackMatchesStates, Settled, Ordered
    <3>2. CASE state[u] = 1
      BY <3>2 DEF Visit, Report, Settled
    <3>3. CASE state[u] = 0
      <4>1. callers # Append(callers, NewFrame(u))
        <5>1. NewFrame(u) \in Frame
          BY DEF NewFrame, Frame
        <5>2. Len(Append(callers, NewFrame(u))) = Len(callers) + 1
          BY <1>1, <5>1, AppendProperties
        <5>3. Len(callers) # Len(callers) + 1
          <6>1. Len(callers) \in Nat
            BY <1>1
          <6>2. QED  BY <6>1
        <5>4. QED  BY <5>2, <5>3
      <4>2. QED  BY <1>5, <3>3, <4>1 DEF Visit, Report, Settled, Loadable
    <3>4. QED  BY <3>1, <3>2, <3>3 DEF TypeOK
  <2>2. TypeOK'
    BY <1>1, <1>5 DEF TypeOK, Visit, Report
  <2>3. StackMatchesStates'
    BY <1>5, SameCallsMatch
  <2>4. OthersSettled'
    <3>1. \A i \in DOMAIN stack : \A d \in stack'[i].dependencies \ stack[i].dependencies :
            Settled(d)'
      BY <1>5, <2>1
    <3>2. QED  BY <1>3, <1>5, <3>1, SameCallsSettled
  <2>5. QED  BY <1>2, <1>4, <2>2, <2>3, <2>4
<1>6. CASE /\ state[u] = 0 /\ Loadable(u)
           /\ stack' = Append(callers, NewFrame(u))
           /\ state' = [state EXCEPT ![u] = 1]
           /\ UNCHANGED diagnostics
  <2>1. NewFrame(u) \in Frame /\ NewFrame(u).unit = u /\ NewFrame(u).dependencies = {}
    BY DEF NewFrame, Frame
  <2>2. /\ stack' \in Seq(Frame) /\ Len(stack') = Len(stack) + 1
        /\ stack'[Len(stack) + 1] = NewFrame(u)
        /\ \A i \in 1..Len(stack) : stack'[i] = callers[i]
    BY <1>1, <1>6, <2>1, AppendProperties
  <2>3. DOMAIN stack' = 1..(Len(stack) + 1)
    BY <2>2, LenProperties
  <2>4. TypeOK'
    BY <1>6, <2>2 DEF TypeOK
  <2>5. \A i \in DOMAIN stack : stack'[i].unit = stack[i].unit
    BY <1>1, <2>2 DEF SameCalls
  <2>6. \A i \in DOMAIN stack : stack[i].unit # u /\ stack[i].unit \in Unit
    BY <1>6, Domains DEF StackMatchesStates, Frame
  <2>7. StackMatchesStates'
    <3>1. \A v \in Unit : state'[v] = 1 <=> \E i \in DOMAIN stack' : stack'[i].unit = v
      <4> SUFFICES ASSUME NEW v \in Unit
                   PROVE  state'[v] = 1 <=> \E i \in DOMAIN stack' : stack'[i].unit = v
        OBVIOUS
      <4>1. CASE v = u
        <5>1. Len(stack) + 1 \in DOMAIN stack'
          BY <1>1, <2>3
        <5>2. QED  BY <1>6, <2>1, <2>2, <4>1, <5>1 DEF TypeOK
      <4>2. CASE v # u
        <5>1. state'[v] = state[v]
          BY <1>6, <4>2 DEF TypeOK
        <5>2. \A i \in DOMAIN stack' : stack'[i].unit = v => i \in DOMAIN stack
          BY <1>1, <2>1, <2>2, <2>3, <4>2
        <5>3. \A i \in DOMAIN stack : i \in DOMAIN stack'
          BY <1>1, <2>3
        <5>4. QED  BY <2>5, <5>1, <5>2, <5>3 DEF StackMatchesStates
      <4>3. QED  BY <4>1, <4>2
    <3>2. \A i, j \in DOMAIN stack' : stack'[i].unit = stack'[j].unit => i = j
      <4> SUFFICES ASSUME NEW i \in DOMAIN stack', NEW j \in DOMAIN stack',
                          stack'[i].unit = stack'[j].unit
                   PROVE  i = j
        OBVIOUS
      <4>1. CASE i \in DOMAIN stack /\ j \in DOMAIN stack
        BY <2>5, <4>1 DEF StackMatchesStates
      <4>2. CASE i \notin DOMAIN stack \/ j \notin DOMAIN stack
        <5>1. (i \in DOMAIN stack \/ i = Len(stack) + 1) /\ (j \in DOMAIN stack \/ j = Len(stack) + 1)
          BY <1>1, <2>3
        <5>2. QED  BY <2>1, <2>2, <2>5, <2>6, <4>2, <5>1
      <4>3. QED  BY <4>1, <4>2
    <3>3. \A v \in Unit : state'[v] = 2 <=> v \in Ordered'
      BY <1>6 DEF StackMatchesStates, Ordered, TypeOK
    <3>4. \A i \in DOMAIN stack' : i > 1 => stack'[i].unit \in stack'[i - 1].dependencies
      <4> SUFFICES ASSUME NEW i \in DOMAIN stack', i > 1
                   PROVE  stack'[i].unit \in stack'[i - 1].dependencies
        OBVIOUS
      <4>1. i - 1 \in DOMAIN stack /\ stack'[i - 1] = callers[i - 1]
        BY <1>1, <2>2, <2>3
      <4>2. CASE i = Len(stack) + 1
        <5>1. i - 1 = Len(stack)
          BY <1>1, <4>2
        <5>2. QED  BY <2>1, <2>2, <4>1, <4>2, <5>1
      <4>3. CASE i # Len(stack) + 1
        <5>1. i \in DOMAIN stack
          BY <1>1, <2>3, <4>3
        <5>2. stack[i].unit \in stack[i - 1].dependencies
          BY <5>1 DEF StackMatchesStates
        <5>3. QED  BY <2>5, <4>1, <5>1, <5>2 DEF SameCalls
      <4>4. QED  BY <4>2, <4>3
    <3>5. \A i, j \in DOMAIN order' : order'[i] = order'[j] => i = j
      BY DEF StackMatchesStates
    <3>6. QED  BY <3>1, <3>2, <3>3, <3>4, <3>5 DEF StackMatchesStates
  <2>8. OthersSettled'
    <3> SUFFICES ASSUME NEW i \in DOMAIN stack', NEW d \in stack'[i].dependencies
                 PROVE  Settled(d)' \/ (i < Len(stack') /\ stack'[i + 1].unit = d)
      BY DEF OthersSettled
    <3>1. i \in DOMAIN stack /\ d \in callers[i].dependencies
      BY <1>1, <2>1, <2>2, <2>3
    <3>2. CASE d \in stack[i].dependencies /\ Settled(d)
      BY <1>6, <3>2, StaysSettled DEF Ordered
    <3>3. CASE d \in stack[i].dependencies /\ i < Len(stack) /\ stack[i + 1].unit = d
      <4>1. i + 1 \in DOMAIN stack
        BY <1>1, <3>1, <3>3
      <4>2. i < Len(stack')
        BY <1>1, <2>2, <3>1, <3>3
      <4>3. QED  BY <2>5, <3>3, <4>1, <4>2
    <3>4. CASE d \notin stack[i].dependencies
      <4>1. i = Len(stack) /\ d = u
        BY <3>1, <3>4
      <4>2. QED  BY <1>1, <2>1, <2>2, <4>1
    <3>5. QED  BY <3>1, <3>2, <3>3, <3>4 DEF OthersSettled
  <2>9. QED  BY <1>2, <1>4, <2>4, <2>7, <2>8
<1>7. QED  BY <1>5, <1>6 DEF Visit
-----------------------------------------------------------------------------
(* The running call moves on without a new dependency.                     *)
LEMMA MovesOn ==
  ASSUME LoaderInv, stack # <<>>, NEW f \in Frame, stack' = Replaced(f),
         f.unit = Top.unit, f.dependencies = Top.dependencies,
         UNCHANGED <<imports, entry, state, modules, order, started>>,
         diagnostics \subseteq diagnostics',
         diagnostics' \subseteq {"K4000", "K4001", "K4002", "K4003", "KSEM1042"}
  PROVE  LoaderInv'
<1> USE DEF LoaderInv
<1>1. /\ SameCalls(stack')
      /\ stack'[Len(stack)] = f
      /\ \A i \in DOMAIN stack : i # Len(stack) => stack'[i] = stack[i]
  BY ReplacedTop
<1>2. TypeOK'
  BY <1>1 DEF TypeOK, SameCalls
<1>3. StackMatchesStates'
  BY <1>1, SameCallsMatch
<1>4. OthersSettled'
  <2>1. \A i \in DOMAIN stack : stack'[i].dependencies = stack[i].dependencies
    BY <1>1 DEF Top
  <2>2. QED  BY <1>1, <2>1, SameCallsSettled
<1>5. NothingBeforeLoad'
  BY DEF NothingBeforeLoad
<1>6. QED  BY <1>2, <1>3, <1>4, <1>5, StillFirst

LEMMA Finished ==
  ASSUME LoaderInv, Finish
  PROVE  LoaderInv'
<1> USE DEF LoaderInv
<1> DEFINE n == Len(stack)
           m == Len(order)
           unit == Top.unit
<1>1. /\ n \in Nat \ {0} /\ DOMAIN stack = 1..n /\ Top \in Frame
      /\ m \in Nat /\ DOMAIN order = 1..m
      /\ \A i \in 1..n : stack[i] \in Frame
  BY Domains DEF Finish
<1>2. unit \in Unit /\ Top.dependencies \in SUBSET Unit /\ Top = stack[n] /\ n \in DOMAIN stack
  BY <1>1 DEF Frame, Top
<1>3. /\ stack' \in Seq(Frame) /\ Len(stack') = n - 1
      /\ \A i \in 1..(n - 1) : stack'[i] = stack[i]
  <2>1. \A i \in 1..(n - 1) : stack[i] \in Frame
    BY <1>1
  <2>2. 1 \in Int /\ n - 1 \in Int /\ stack' = SubSeq(stack, 1, n - 1)
    BY <1>1 DEF Finish
  <2> HIDE DEF n
  <2>3. /\ SubSeq(stack, 1, n - 1) \in Seq(Frame)
        /\ Len(SubSeq(stack, 1, n - 1)) = IF 1 <= n - 1 THEN (n - 1) - 1 + 1 ELSE 0
        /\ \A i \in 1..((n - 1) - 1 + 1) : SubSeq(stack, 1, n - 1)[i] = stack[1 + i - 1]
    BY <2>1, <2>2, SubSeqProperties
  <2>4. QED  BY <1>1, <2>2, <2>3
<1>4. DOMAIN stack' = 1..(n - 1)
  BY <1>3, LenProperties
<1>5. /\ order' \in Seq(Unit) /\ Len(order') = m + 1
      /\ order'[m + 1] = unit
      /\ \A i \in 1..m : order'[i] = order[i]
  BY <1>2, AppendProperties DEF Finish, TypeOK
<1>6. DOMAIN order' = 1..(m + 1)
  BY <1>5, LenProperties
<1>7. Ordered' = Ordered \cup {unit}
  <2>1. m + 1 \in DOMAIN order' /\ \A i \in DOMAIN order : i \in DOMAIN order'
    BY <1>1, <1>6
  <2>2. \A i \in DOMAIN order' : i \in DOMAIN order \/ i = m + 1
    BY <1>1, <1>6
  <2> HIDE DEF unit, m
  <2>3. QED  BY <1>1, <1>5, <2>1, <2>2 DEF Ordered
<1>8. state[unit] = 1 /\ unit \notin Ordered
  BY <1>2 DEF StackMatchesStates
<1>9. TypeOK'
  BY <1>2, <1>3, <1>5 DEF TypeOK, Finish
<1>10. StackMatchesStates'
  <2>0. /\ state' = [state EXCEPT ![unit] = 2] /\ state \in [Unit -> 0..2]
    BY DEF Finish, TypeOK
  <2> HIDE DEF unit, n, m
  <2>1. \A u \in Unit : state'[u] = 1 <=> \E i \in DOMAIN stack' : stack'[i].unit = u
    <3> SUFFICES ASSUME NEW u \in Unit
                 PROVE  state'[u] = 1 <=> \E i \in DOMAIN stack' : stack'[i].unit = u
      OBVIOUS
    <3>1. \A i \in DOMAIN stack' : i \in DOMAIN stack /\ stack'[i] = stack[i] /\ i # n
      BY <1>1, <1>3, <1>4
    <3>2. \A i \in DOMAIN stack : i # n => i \in DOMAIN stack'
      BY <1>1, <1>4
    <3>3. stack[n].unit = unit
      BY <1>2 DEF unit
    <3>4. CASE u = unit
      BY <1>2, <2>0, <3>1, <3>3, <3>4 DEF StackMatchesStates
    <3>5. CASE u # unit
      <4>1. state'[u] = state[u]
        BY <2>0, <3>5
      <4>2. QED  BY <3>1, <3>2, <3>3, <3>5, <4>1 DEF StackMatchesStates
    <3>6. QED  BY <3>4, <3>5
  <2>2. \A i, j \in DOMAIN stack' : stack'[i].unit = stack'[j].unit => i = j
    BY <1>1, <1>3, <1>4 DEF StackMatchesStates
  <2>3. \A u \in Unit : state'[u] = 2 <=> u \in Ordered'
    BY <1>2, <1>7, <2>0 DEF StackMatchesStates
  <2>4. \A i, j \in DOMAIN order' : order'[i] = order'[j] => i = j
    <3> SUFFICES ASSUME NEW i \in DOMAIN order', NEW j \in DOMAIN order', order'[i] = order'[j]
                 PROVE  i = j
      OBVIOUS
    <3>1. (i \in DOMAIN order \/ i = m + 1) /\ (j \in DOMAIN order \/ j = m + 1)
      BY <1>1, <1>6
    <3>2. \A k \in DOMAIN order : order'[k] = order[k] /\ order[k] # unit
      BY <1>1, <1>5, <1>8 DEF Ordered
    <3>3. QED  BY <1>5, <3>1, <3>2 DEF StackMatchesStates
  <2>5. \A i \in DOMAIN stack' : i > 1 => stack'[i].unit \in stack'[i - 1].dependencies
    <3> SUFFICES ASSUME NEW i \in DOMAIN stack', i > 1
                 PROVE  stack'[i].unit \in stack'[i - 1].dependencies
      OBVIOUS
    <3>1. i \in 1..(n - 1) /\ i - 1 \in 1..(n - 1) /\ i \in DOMAIN stack
      BY <1>1, <1>4
    <3>2. QED  BY <1>3, <3>1 DEF StackMatchesStates
  <2>6. QED  BY <2>1, <2>2, <2>3, <2>4, <2>5 DEF StackMatchesStates
<1>11. OthersSettled'
  <2> SUFFICES ASSUME NEW i \in DOMAIN stack', NEW d \in stack'[i].dependencies
               PROVE  Settled(d)' \/ (i < Len(stack') /\ stack'[i + 1].unit = d)
    BY DEF OthersSettled
  <2>0. diagnostics' = diagnostics /\ Ordered \subseteq Ordered'
    BY <1>7 DEF Finish
  <2>1. i \in DOMAIN stack /\ i \in 1..(n - 1) /\ stack'[i] = stack[i]
    BY <1>1, <1>3, <1>4
  <2>2. CASE Settled(d)
    BY <2>0, <2>2, StaysSettled
  <2>3. CASE stack[i + 1].unit = d
    <3>1. CASE i = n - 1
      <4>1. i + 1 = n
        BY <1>1, <3>1
      <4>2. d \in Ordered'
        BY <1>2, <1>7, <2>3, <4>1
      <4>3. QED  BY <4>2 DEF Settled
    <3>2. CASE i # n - 1
      <4>1. i + 1 \in 1..(n - 1) /\ i < n - 1
        BY <1>1, <2>1, <3>2
      <4>2. QED  BY <1>3, <2>3, <4>1
    <3>3. QED  BY <3>1, <3>2
  <2>4. QED  BY <2>1, <2>2, <2>3 DEF OthersSettled
<1>12. NothingBeforeLoad'
  BY DEF Finish, NothingBeforeLoad
<1>13. DependenciesFirst'
  <2> SUFFICES ASSUME NEW i \in DOMAIN order', NEW d \in modules'[order'[i]]
               PROVE  \/ \E j \in DOMAIN order' : j < i /\ order'[j] = d
                      \/ ~Loadable(d)' /\ "K4000" \in diagnostics'
                      \/ "K4002" \in diagnostics'
    BY DEF DependenciesFirst
  <2>0. /\ diagnostics' = diagnostics /\ modules' = [modules EXCEPT ![unit] = Top.dependencies]
        /\ modules \in [Unit -> SUBSET Unit]
        /\ Loadable(d)' <=> Loadable(d)
    BY DEF Finish, TypeOK, Loadable
  <2>1. \A j \in DOMAIN order : j \in DOMAIN order' /\ order'[j] = order[j] /\ j < m + 1
    BY <1>1, <1>5, <1>6
  <2>2. CASE i \in DOMAIN order
    <3>1. order[i] # unit /\ order[i] \in Unit /\ order'[i] = order[i]
      BY <1>8, <2>1, <2>2, Domains DEF Ordered
    <3>2. d \in modules[order[i]]
      BY <2>0, <3>1
    <3>3. QED  BY <2>0, <2>1, <2>2, <3>2 DEF DependenciesFirst
  <2>3. CASE i = m + 1
    <3>1. d \in stack[n].dependencies
      BY <1>2, <1>5, <2>0, <2>3
    <3>2. Settled(d)
      BY <1>1, <1>2, <3>1 DEF OthersSettled
    <3>3. CASE d \in Ordered
      BY <2>1, <2>3, <3>3 DEF Ordered
    <3>4. QED  BY <2>0, <3>2, <3>3 DEF Settled
  <2>4. QED  BY <1>1, <1>6, <2>2, <2>3
<1>14. QED  BY <1>9, <1>10, <1>11, <1>12, <1>13
-----------------------------------------------------------------------------
LEMMA InitInv == Init => LoaderInv
<1> SUFFICES ASSUME Init PROVE LoaderInv
  OBVIOUS
<1>1. stack = <<>> /\ order = <<>> /\ DOMAIN stack = {} /\ DOMAIN order = {}
  BY DEF Init
<1>2. TypeOK
  <2>1. imports \in [Files -> Seq(Import)] /\ entry \in Unit
    BY GraphAssumption DEF Init
  <2>2. state \in [Unit -> 0..2] /\ modules \in [Unit -> SUBSET Unit]
    BY DEF Init
  <2>3. stack \in Seq(Frame) /\ order \in Seq(Unit)
    BY <1>1
  <2>4. QED  BY <2>1, <2>2, <2>3 DEF Init, TypeOK
<1>3. StackMatchesStates
  BY <1>1 DEF Init, StackMatchesStates, Ordered
<1>4. QED  BY <1>1, <1>2, <1>3 DEF LoaderInv, OthersSettled, NothingBeforeLoad, DependenciesFirst

LEMMA NextInv == LoaderInv /\ [Next]_vars => LoaderInv'
<1> SUFFICES ASSUME LoaderInv, [Next]_vars PROVE LoaderInv'
  OBVIOUS
<1>0. TypeOK /\ NothingBeforeLoad
  BY DEF LoaderInv
<1>1. CASE Load
  <2>1. stack = <<>> /\ stack \in Seq(Frame) /\ DOMAIN stack = {}
    BY <1>0, <1>1 DEF Load, NothingBeforeLoad, TypeOK
  <2>2. SameCalls(stack)
    BY <2>1 DEF SameCalls
  <2>3. entry \in Unit /\ Visit(entry, stack) /\ started' = TRUE
        /\ UNCHANGED <<imports, entry, modules, order>>
    BY <1>0, <1>1 DEF Load, TypeOK
  <2>4. QED  BY <2>1, <2>2, <2>3, Visited
<1>2. CASE OpenMember
  <2>1. stack # <<>> /\ Top \in Frame
    BY <1>0, <1>2, Domains DEF OpenMember
  <2>2. /\ [Top EXCEPT !.file = @ + 1] \in Frame
        /\ [Top EXCEPT !.file = @ + 1].unit = Top.unit
        /\ [Top EXCEPT !.file = @ + 1].dependencies = Top.dependencies
    BY <2>1 DEF Frame
  <2>3. Moved \in Frame /\ Moved.unit = Top.unit /\ Moved.dependencies = Top.dependencies
    BY <2>1 DEF Frame, Moved
  <2>4. /\ UNCHANGED <<imports, entry, state, modules, order, started>>
        /\ diagnostics \subseteq diagnostics'
        /\ diagnostics' \subseteq {"K4000", "K4001", "K4002", "K4003", "KSEM1042"}
    BY <1>0, <1>2 DEF OpenMember, Report, TypeOK
  <2>5. CASE stack' = Replaced([Top EXCEPT !.file = @ + 1])
    BY <2>1, <2>2, <2>4, <2>5, MovesOn
  <2>6. CASE stack' = Replaced(Moved)
    BY <2>1, <2>3, <2>4, <2>6, MovesOn
  <2>7. QED  BY <1>2, <2>5, <2>6 DEF OpenMember
<1>3. CASE SkipImport
  <2>1. stack # <<>> /\ Named \in Frame /\ Named.unit = Top.unit
        /\ Named.dependencies = Top.dependencies
    BY <1>0, <1>3, ImportFacts DEF SkipImport, AtImport
  <2>2. /\ UNCHANGED <<imports, entry, state, modules, order, started>>
        /\ stack' = Replaced(Named)
        /\ diagnostics \subseteq diagnostics'
        /\ diagnostics' \subseteq {"K4000", "K4001", "K4002", "K4003", "KSEM1042"}
    BY <1>0, <1>3 DEF SkipImport, Report, TypeOK
  <2>3. QED  BY <2>1, <2>2, MovesOn
<1>4. CASE Depend
  <2> DEFINE target == Current.target
             f == [Named EXCEPT !.dependencies = @ \cup {target}]
  <2>1. /\ stack # <<>> /\ Top \in Frame /\ Named \in Frame /\ Current \in Import
        /\ Named.unit = Top.unit /\ Named.dependencies = Top.dependencies
    BY <1>0, <1>4, ImportFacts DEF Depend, AtImport
  <2>2. target \in Unit
    BY <1>4, <2>1 DEF Depend, Unresolved, Import
  <2>3. /\ f \in Frame /\ f.unit = Top.unit
        /\ f.dependencies = Top.dependencies \cup {target}
    <3> HIDE DEF target
    <3>1. Named.dependencies \in SUBSET Unit
      BY <2>1 DEF Frame
    <3>2. QED  BY <2>1, <2>2, <3>1 DEF Frame
  <2>4. Visit(target, Replaced(f)) /\ UNCHANGED <<imports, entry, modules, order, started>>
    BY <1>4 DEF Depend
  <2>5. started' = TRUE
    BY <1>0, <2>1, <2>4 DEF NothingBeforeLoad, TypeOK
  <2> HIDE DEF f, target
  <2>6. /\ SameCalls(Replaced(f))
        /\ Replaced(f)[Len(stack)] = f
        /\ \A i \in DOMAIN stack : i # Len(stack) => Replaced(f)[i] = stack[i]
    BY <1>0, <2>1, <2>3, ReplacedTop
  <2>7. \A i \in DOMAIN stack :
          /\ i = Len(stack) => target \in Replaced(f)[i].dependencies
          /\ \A d \in Replaced(f)[i].dependencies \ stack[i].dependencies :
               i = Len(stack) /\ d = target
    BY <2>3, <2>6 DEF Top
  <2>8. QED  BY <2>2, <2>4, <2>5, <2>6, <2>7, Visited
<1>5. CASE CloseSource
  <2> DEFINE f == [Top EXCEPT !.file = @ + 1, !.next = 0]
  <2>1. stack # <<>> /\ Top \in Frame
    BY <1>0, <1>5, Domains DEF CloseSource
  <2>2. f \in Frame /\ f.unit = Top.unit /\ f.dependencies = Top.dependencies
    <3> DEFINE g == [Top EXCEPT !.file = @ + 1]
    <3>1. g \in Frame /\ g.unit = Top.unit /\ g.dependencies = Top.dependencies
      BY <2>1 DEF Frame
    <3>2. f = [g EXCEPT !.next = 0]
      OBVIOUS
    <3> HIDE DEF g, f
    <3>3. QED  BY <3>1, <3>2 DEF Frame
  <2>3. /\ UNCHANGED <<imports, entry, state, modules, order, diagnostics, started>>
        /\ stack' = Replaced(f)
    BY <1>5 DEF CloseSource
  <2>4. diagnostics' \subseteq {"K4000", "K4001", "K4002", "K4003", "KSEM1042"}
    BY <1>0, <2>3 DEF TypeOK
  <2> HIDE DEF f
  <2>5. QED  BY <2>1, <2>2, <2>3, <2>4, MovesOn
<1>6. CASE Finish
  BY <1>6, Finished
<1>7. CASE UNCHANGED vars
  BY <1>7 DEF LoaderInv, TypeOK, StackMatchesStates, OthersSettled, Settled,
      NothingBeforeLoad, DependenciesFirst, Ordered, Loadable, vars
<1>8. QED  BY <1>1, <1>2, <1>3, <1>4, <1>5, <1>6, <1>7 DEF Next

LEMMA LoaderCorrect == Spec => []LoaderInv
BY InitInv, NextInv, PTL DEF Spec

(* Every variable of the loader keeps its type, for every program.         *)
THEOREM TypeCorrect == Spec => []TypeOK
<1>1. LoaderInv => TypeOK  BY DEF LoaderInv
<1>2. QED  BY <1>1, LoaderCorrect, PTL

(* The mark of a unit tells whether its loading is in progress, which is   *)
(* what visit takes for a cycle, or done.                                  *)
THEOREM MarksCorrect == Spec => []StackMatchesStates
<1>1. LoaderInv => StackMatchesStates  BY DEF LoaderInv
<1>2. QED  BY <1>1, LoaderCorrect, PTL

(* initializationOrder is a topological order of the loaded units, except  *)
(* where a cycle or a file that cannot be loaded is reported.              *)
THEOREM OrderCorrect == Spec => []DependenciesFirst
<1>1. LoaderInv => DependenciesFirst  BY DEF LoaderInv
<1>2. QED  BY <1>1, LoaderCorrect, PTL
-----------------------------------------------------------------------------
(* What the loader knows of the program.  A call in progress has recorded  *)
(* no dependency the source does not ask for and, while nothing is         *)
(* reported, all that it has read so far.                                  *)
Calls == {stack[i] : i \in DOMAIN stack}
Faithful(frame) == frame.dependencies \subseteq Requested(frame.unit)
Thorough(frame) ==
  \A i \in DOMAIN Sources(frame.unit) :
    \A k \in DOMAIN imports[Sources(frame.unit)[i]] :
      i < frame.file \/ (i = frame.file /\ k < frame.next) =>
        imports[Sources(frame.unit)[i]][k].target \in Siblings(frame.unit) \cup frame.dependencies
Knowing(frame) ==
  /\ frame.unit \in Reachable
  /\ Faithful(frame)
  /\ diagnostics = {} => Thorough(frame)

CallsKnow == \A frame \in Calls : Knowing(frame)

Knotted == \E units \in SUBSET Reachable : Tangled(units)

(* The units loaded so far: without a report no subset of them is a knot,  *)
(* which says that there is no cycle among them in a form that is kept     *)
(* from one unit to the next.                                              *)
OrderKnown ==
  /\ Ordered \subseteq Reachable
  /\ diagnostics = {} => /\ \A u \in Ordered : modules[u] = Requested(u)
                         /\ \A units \in SUBSET Ordered : ~Tangled(units)

KnotSeen == "K4002" \in diagnostics => Knotted

(* The entry is the first unit called and the last one done.               *)
EntryLast == order # <<>> /\ order[Len(order)] = entry
EntryTaken ==
  /\ ~started => order = <<>>
  /\ started /\ diagnostics = {} =>
       IF stack = <<>> THEN EntryLast ELSE stack[1].unit = entry

GraphInv == CallsKnow /\ OrderKnown /\ KnotSeen /\ EntryTaken
-----------------------------------------------------------------------------
(* The entry is needed, and so is what a needed unit asks for.             *)
LEMMA ReachableClosed ==
  ASSUME TypeOK
  PROVE  /\ Reachable \subseteq Unit
         /\ entry \in Reachable
         /\ \A u \in Reachable : \A t \in Requested(u) : t \in Unit => t \in Reachable
<1>1. Reachable \subseteq Unit /\ entry \in Reachable
  BY DEF Reachable, TypeOK
<1>2. ASSUME NEW u \in Reachable, NEW t \in Requested(u), t \in Unit
      PROVE  t \in Reachable
  <2>1. ASSUME NEW units \in SUBSET Unit, entry \in units, Closed(units)
        PROVE  t \in units
    <3>1. u \in units
      BY <2>1 DEF Reachable
    <3>2. QED  BY <1>2, <2>1, <3>1 DEF Closed
  <2>2. QED  BY <1>2, <2>1 DEF Reachable
<1>3. QED  BY <1>1, <1>2

(* Nothing else is needed.                                                 *)
LEMMA ReachableLeast ==
  ASSUME NEW units \in SUBSET Unit, entry \in units, Closed(units)
  PROVE  Reachable \subseteq units
BY DEF Reachable

(* The program stays as it is while it is loaded.                          *)
LEMMA SameProgram ==
  ASSUME UNCHANGED <<imports, entry>>
  PROVE  /\ \A u : Requested(u)' = Requested(u)
         /\ Reachable' = Reachable
         /\ Knotted' <=> Knotted
         /\ \A units : Tangled(units)' <=> Tangled(units)
         /\ \A f : (Faithful(f)' <=> Faithful(f)) /\ (Thorough(f)' <=> Thorough(f))
<1>1. ASSUME NEW u
      PROVE  /\ Requested(u)' = Requested(u)
             /\ Tangled(u)' <=> Tangled(u)
             /\ Faithful(u)' <=> Faithful(u)
             /\ Thorough(u)' <=> Thorough(u)
  <2>1. Requested(u)' = Requested(u)
    BY DEF Requested, Targets, Sources, Siblings
  <2>2. Thorough(u)' <=> Thorough(u)
    BY DEF Thorough, Sources, Siblings
  <2>3. Faithful(u)' <=> Faithful(u)
    BY DEF Faithful, Requested, Targets, Sources, Siblings
  <2>4. Tangled(u)' <=> Tangled(u)
    BY DEF Tangled, Requested, Targets, Sources, Siblings
  <2>5. QED  BY <2>1, <2>2, <2>3, <2>4
<1>2. Reachable' = Reachable
  BY DEF Reachable, Closed, Requested, Targets, Sources, Siblings
<1>3. Knotted' <=> Knotted
  BY <1>1, <1>2 DEF Knotted
<1>4. QED  BY <1>1, <1>2, <1>3
-----------------------------------------------------------------------------
(* A new call has read nothing.                                            *)
LEMMA NewFrameKnows ==
  ASSUME TypeOK, NEW u \in Reachable
  PROVE  Knowing(NewFrame(u))
<1>1. u \in Unit
  BY ReachableClosed
<1> DEFINE f == NewFrame(u)
<1>2. f.unit = u /\ f.file = 1 /\ f.next \in {0, 1} /\ f.dependencies = {}
  BY DEF NewFrame
<1>3. Thorough(f)
  <2> SUFFICES ASSUME NEW i \in DOMAIN Sources(u), NEW k \in DOMAIN imports[Sources(u)[i]],
                      i < 1 \/ (i = 1 /\ k < f.next)
               PROVE  FALSE
    BY <1>2 DEF Thorough
  <2>1. i \in 1..Len(Sources(u)) /\ Len(Sources(u)) \in Nat
    BY <1>1, SourcesAreFiles, LenProperties
  <2>2. imports[Sources(u)[i]] \in Seq(Import)
    BY <1>1, <2>1, SourcesAreFiles
  <2>3. k \in Nat /\ k >= 1
    BY <2>2, LenProperties
  <2>4. QED  BY <1>2, <2>1, <2>3
<1> HIDE DEF f
<1>4. Knowing(f)
  BY <1>2, <1>3 DEF Knowing, Faithful
<1>5. QED  BY <1>4 DEF f

(* What is read of the source of the running call.                         *)
LEMMA Read ==
  ASSUME TypeOK, stack # <<>>, NEW i \in DOMAIN Sources(Top.unit),
         NEW k \in DOMAIN imports[Sources(Top.unit)[i]]
  PROVE  /\ i \in Nat /\ k \in Nat /\ k >= 1
         /\ i <= Len(Sources(Top.unit)) /\ k <= Len(imports[Sources(Top.unit)[i]])
         /\ Top.file \in Nat /\ Top.next \in Nat /\ Top.unit \in Unit
<1>1. Top.unit \in Unit /\ Top.file \in Nat /\ Top.next \in Nat
  BY Domains DEF Frame
<1>2. i \in 1..Len(Sources(Top.unit)) /\ Len(Sources(Top.unit)) \in Nat
  BY <1>1, SourcesAreFiles, LenProperties
<1>3. imports[Sources(Top.unit)[i]] \in Seq(Import)
  BY <1>1, <1>2, SourcesAreFiles
<1>4. k \in 1..Len(imports[Sources(Top.unit)[i]]) /\ Len(imports[Sources(Top.unit)[i]]) \in Nat
  BY <1>3, LenProperties
<1>5. QED  BY <1>1, <1>2, <1>4

(* The running call has looked at an import, which is of its own package   *)
(* or is recorded now.                                                     *)
LEMMA ImportRead ==
  ASSUME TypeOK, AtImport, Thorough(Top), NEW f, f.unit = Top.unit, f.file = Top.file,
         f.next = Top.next + 1, Top.dependencies \subseteq f.dependencies,
         Current.target \in Siblings(Top.unit) \cup f.dependencies
  PROVE  Thorough(f)
<1> SUFFICES ASSUME NEW i \in DOMAIN Sources(Top.unit),
                    NEW k \in DOMAIN imports[Sources(Top.unit)[i]],
                    i < Top.file \/ (i = Top.file /\ k < Top.next + 1)
             PROVE  imports[Sources(Top.unit)[i]][k].target
                      \in Siblings(Top.unit) \cup f.dependencies
  BY DEF Thorough
<1>1. i \in Nat /\ k \in Nat /\ Top.file \in Nat /\ Top.next \in Nat
  BY Read DEF AtImport
<1>2. CASE i < Top.file \/ (i = Top.file /\ k < Top.next)
  BY <1>2 DEF Thorough
<1>3. CASE i = Top.file /\ k = Top.next
  BY <1>3 DEF Current, File
<1>4. QED  BY <1>1, <1>2, <1>3

(* The running call goes on to the next source, at the end of this one or  *)
(* at the start.                                                           *)
LEMMA SourceRead ==
  ASSUME TypeOK, stack # <<>>, Thorough(Top), NEW f, f.unit = Top.unit,
         f.dependencies = Top.dependencies,
         \/ f.file = Top.file /\ Top.next = 0 /\ f.next = 1
         \/ f.file = Top.file + 1 /\ f.next = 0 /\ Top.next > Len(imports[File])
  PROVE  Thorough(f)
<1> SUFFICES ASSUME NEW i \in DOMAIN Sources(Top.unit),
                    NEW k \in DOMAIN imports[Sources(Top.unit)[i]],
                    i < f.file \/ (i = f.file /\ k < f.next)
             PROVE  imports[Sources(Top.unit)[i]][k].target
                      \in Siblings(Top.unit) \cup Top.dependencies
  BY DEF Thorough
<1>1. /\ i \in Nat /\ k \in Nat /\ k >= 1 /\ Top.file \in Nat /\ Top.next \in Nat
      /\ k <= Len(imports[Sources(Top.unit)[i]])
  BY Read
<1>2. i < Top.file \/ (i = Top.file /\ k < Top.next)
  <2>1. CASE f.file = Top.file /\ Top.next = 0 /\ f.next = 1
    BY <1>1, <2>1
  <2>2. CASE f.file = Top.file + 1 /\ f.next = 0 /\ Top.next > Len(imports[File])
    <3>1. i <= Top.file
      BY <1>1, <2>2
    <3>2. CASE i = Top.file
      <4>1. k <= Len(imports[File])
        BY <1>1, <3>2 DEF File
      <4>2. Len(imports[File]) \in Nat
        <5>1. Top.unit \in Unit /\ Len(Sources(Top.unit)) \in Nat
              /\ i \in 1..Len(Sources(Top.unit))
          BY Read, SourcesAreFiles, LenProperties
        <5>2. QED  BY <3>2, <5>1, SourcesAreFiles, LenProperties DEF File
      <4>3. QED  BY <1>1, <2>2, <3>2, <4>1, <4>2
    <3>3. QED  BY <1>1, <3>1, <3>2
  <2>3. QED  BY <2>1, <2>2
<1>3. QED  BY <1>2 DEF Thorough

LEMMA AsksFor ==
  ASSUME NEW u, NEW i \in DOMAIN Sources(u), NEW t \in Targets(Sources(u)[i]),
         t \notin Siblings(u)
  PROVE  t \in Requested(u)
<1> DEFINE files == {Targets(Sources(u)[j]) : j \in DOMAIN Sources(u)}
<1>1. Targets(Sources(u)[i]) \in files
  OBVIOUS
<1>2. t \in UNION files
  <2> HIDE DEF files
  <2>1. QED  BY <1>1
<1>3. QED  BY <1>2 DEF Requested

(* The import the running call looks at is one the source asks for.        *)
LEMMA CurrentRequested ==
  ASSUME TypeOK, AtImport, Current.target \notin Siblings(Top.unit)
  PROVE  Current.target \in Requested(Top.unit)
<1>1. Top.file \in DOMAIN Sources(Top.unit)
  <2>1. Top.unit \in Unit /\ Top.file \in Nat \ {0}
    BY Domains DEF AtImport, Frame
  <2>2. Sources(Top.unit) \in Seq(Files) /\ Len(Sources(Top.unit)) \in Nat
    BY <2>1, SourcesAreFiles
  <2>3. DOMAIN Sources(Top.unit) = 1..Len(Sources(Top.unit))
    BY <2>2, LenProperties
  <2>4. QED  BY <2>1, <2>2, <2>3 DEF AtImport
<1>2. Top.next \in DOMAIN imports[Sources(Top.unit)[Top.file]]
  BY DEF AtImport, File
<1>3. Current.target \in Targets(Sources(Top.unit)[Top.file])
  BY <1>2 DEF Current, File, Targets
<1>4. QED  BY <1>1, <1>3, AsksFor
-----------------------------------------------------------------------------
(* A step that loads no unit to its end.  What the calls know must be      *)
(* shown for those it adds or changes.                                     *)
LEMMA CallsGoOn ==
  ASSUME GraphInv, UNCHANGED <<imports, entry, modules, order>>,
         diagnostics \subseteq diagnostics',
         "K4002" \in diagnostics' => "K4002" \in diagnostics \/ Knotted,
         \A f \in Calls' : \/ f \in Calls
                           \/ /\ f.unit \in Reachable /\ Faithful(f)
                              /\ diagnostics' = {} => Thorough(f),
         EntryTaken'
  PROVE  GraphInv'
<1>1. /\ \A u : Requested(u)' = Requested(u)
      /\ Reachable' = Reachable
      /\ Knotted' <=> Knotted
      /\ \A units : Tangled(units)' <=> Tangled(units)
      /\ \A f : (Faithful(f)' <=> Faithful(f)) /\ (Thorough(f)' <=> Thorough(f))
  BY SameProgram
<1>2. diagnostics' = {} => diagnostics = {}
  OBVIOUS
<1>3. CallsKnow'
  <2> SUFFICES ASSUME NEW f \in Calls'
               PROVE  Knowing(f)'
    BY DEF CallsKnow
  <2>1. f.unit \in Reachable /\ Faithful(f) /\ (diagnostics' = {} => Thorough(f))
    BY <1>2 DEF GraphInv, CallsKnow, Knowing
  <2>2. QED  BY <1>1, <2>1 DEF Knowing
<1>4. OrderKnown'
  <2>1. Ordered' = Ordered
    BY DEF Ordered
  <2>2. Ordered' \subseteq Reachable'
    BY <1>1, <2>1 DEF GraphInv, OrderKnown
  <2>3. ASSUME diagnostics' = {}
        PROVE  /\ \A u \in Ordered' : modules'[u] = Requested(u)'
               /\ \A units \in SUBSET Ordered' : ~Tangled(units)'
    BY <1>1, <1>2, <2>1, <2>3 DEF GraphInv, OrderKnown
  <2>4. QED  BY <2>2, <2>3 DEF OrderKnown
<1>5. KnotSeen'
  BY <1>1 DEF GraphInv, KnotSeen
<1>6. QED  BY <1>3, <1>4, <1>5 DEF GraphInv

(* The first call stays.                                                   *)
LEMMA FirstCallStays ==
  ASSUME TypeOK, EntryTaken, started, stack # <<>>, NEW s, SameCalls(s),
         stack' \in Seq(Frame), Len(stack') >= Len(s),
         \A i \in 1..Len(s) : stack'[i] = s[i],
         UNCHANGED <<entry, order, started>>, diagnostics \subseteq diagnostics'
  PROVE  EntryTaken'
<1> SUFFICES ASSUME diagnostics' = {}
             PROVE  stack' # <<>> /\ stack'[1].unit = entry
  BY DEF EntryTaken
<1>1. stack[1].unit = entry
  BY DEF EntryTaken
<1>2. 1 \in DOMAIN stack /\ 1 \in 1..Len(s) /\ Len(s) \in Nat /\ Len(s) >= 1
  BY Domains DEF SameCalls
<1>3. stack'[1].unit = entry
  BY <1>1, <1>2 DEF SameCalls
<1>4. stack' # <<>>
  <2>1. Len(stack') >= 1
    BY <1>2, LenProperties
  <2>2. QED  BY <2>1, EmptySeq
<1>5. QED  BY <1>3, <1>4

(* The running call moves on without a new dependency.                     *)
LEMMA MovesOnKnowing ==
  ASSUME LoaderInv, GraphInv, stack # <<>>, NEW f \in Frame, stack' = Replaced(f),
         f.unit = Top.unit, f.dependencies = Top.dependencies,
         UNCHANGED <<imports, entry, state, modules, order, started>>,
         diagnostics \subseteq diagnostics',
         "K4002" \in diagnostics' => "K4002" \in diagnostics,
         diagnostics' = {} /\ Thorough(Top) => Thorough(f)
  PROVE  GraphInv'
<1>0. TypeOK /\ NothingBeforeLoad
  BY DEF LoaderInv
<1>1. /\ SameCalls(stack')
      /\ stack'[Len(stack)] = f
      /\ \A i \in DOMAIN stack : i # Len(stack) => stack'[i] = stack[i]
  BY <1>0, ReplacedTop
<1>2. DOMAIN stack' = DOMAIN stack /\ Top \in Calls
  BY <1>0, <1>1, Domains, LenProperties DEF SameCalls, Calls, Top
<1>3. Knowing(Top)
  BY <1>2 DEF GraphInv, CallsKnow
<1>4. \A g \in Calls' : \/ g \in Calls
                        \/ /\ g.unit \in Reachable /\ Faithful(g)
                           /\ diagnostics' = {} => Thorough(g)
  <2> SUFFICES ASSUME NEW g \in Calls', g \notin Calls
               PROVE  /\ g.unit \in Reachable /\ Faithful(g)
                      /\ diagnostics' = {} => Thorough(g)
    OBVIOUS
  <2>1. PICK i \in DOMAIN stack' : g = stack'[i]
    BY DEF Calls
  <2>2. g = f
    BY <1>1, <1>2, <2>1 DEF Calls
  <2>3. diagnostics' = {} => diagnostics = {}
    OBVIOUS
  <2>4. QED  BY <1>3, <2>2, <2>3 DEF Knowing, Faithful
<1>5. EntryTaken'
  <2>1. started
    BY <1>0 DEF NothingBeforeLoad, TypeOK
  <2>2. stack' \in Seq(Frame) /\ Len(stack') >= Len(stack')
    BY <1>1, LenProperties DEF SameCalls
  <2>3. EntryTaken
    BY DEF GraphInv
  <2>4. QED  BY <1>0, <1>1, <2>1, <2>2, <2>3, FirstCallStays
<1>6. QED  BY <1>4, <1>5, CallsGoOn

(* visit of u, which is needed: callers is the stack of the call.          *)
LEMMA VisitShape ==
  ASSUME TypeOK, StackMatchesStates, NEW u \in Unit, NEW callers, SameCalls(callers),
         Visit(u, callers)
  PROVE  /\ stack' \in Seq(Frame) /\ Len(stack') >= Len(callers)
         /\ \A i \in 1..Len(callers) : stack'[i] = callers[i]
         /\ \A i \in DOMAIN stack' : i \in DOMAIN stack \/ stack'[i] = NewFrame(u)
         /\ diagnostics \subseteq diagnostics'
         /\ "K4002" \in diagnostics' =>
              "K4002" \in diagnostics \/ \E j \in DOMAIN stack : stack[j].unit = u
         /\ diagnostics' = {} =>
              u \in Ordered \/ (stack' # <<>> /\ stack'[Len(callers) + 1].unit = u)
<1>1. /\ Len(stack) \in Nat /\ DOMAIN stack = 1..Len(stack)
      /\ callers \in Seq(Frame) /\ Len(callers) = Len(stack)
      /\ DOMAIN callers = DOMAIN stack
  BY Domains, LenProperties DEF SameCalls
<1>2. diagnostics \subseteq diagnostics'
  BY DEF Visit, Report
<1>3. "K4002" \in diagnostics' =>
        "K4002" \in diagnostics \/ \E j \in DOMAIN stack : stack[j].unit = u
  BY DEF Visit, Report, StackMatchesStates
<1>4. CASE stack' = callers /\ state[u] = 2
  BY <1>1, <1>2, <1>3, <1>4 DEF StackMatchesStates
<1>5. CASE stack' = callers /\ diagnostics' # {}
  BY <1>1, <1>2, <1>3, <1>5
<1>6. CASE stack' = Append(callers, NewFrame(u))
  <2>1. NewFrame(u) \in Frame /\ NewFrame(u).unit = u
    BY DEF NewFrame, Frame
  <2>2. /\ stack' \in Seq(Frame) /\ Len(stack') = Len(stack) + 1
        /\ stack'[Len(stack) + 1] = NewFrame(u)
        /\ \A i \in 1..Len(stack) : stack'[i] = callers[i]
    BY <1>1, <1>6, <2>1, AppendProperties
  <2>3. DOMAIN stack' = 1..(Len(stack) + 1)
    BY <2>2, LenProperties
  <2>4. stack' # <<>>
    BY <1>1, <2>2, EmptySeq
  <2> HIDE DEF NewFrame
  <2>5. QED  BY <1>1, <1>2, <1>3, <2>1, <2>2, <2>3, <2>4
<1>7. \/ stack' = callers /\ state[u] = 2
      \/ stack' = callers /\ diagnostics' # {}
      \/ stack' = Append(callers, NewFrame(u))
  BY DEF Visit, Report
<1>8. QED  BY <1>4, <1>5, <1>6, <1>7
-----------------------------------------------------------------------------
(* The calls from the one for u up to the running one, which asks for u,   *)
(* are a knot.                                                             *)
LEMMA KnotClosed ==
  ASSUME TypeOK, StackMatchesStates, CallsKnow, NEW j \in DOMAIN stack,
         stack[j].unit \in Requested(Top.unit)
  PROVE  Knotted
<1> DEFINE n == Len(stack)
           units == {stack[i].unit : i \in j..n}
<1>1. n \in Nat /\ DOMAIN stack = 1..n /\ j \in 1..n
  BY Domains
<1>2. \A i \in j..n : i \in DOMAIN stack /\ Knowing(stack[i])
  BY <1>1 DEF CallsKnow, Calls
<1>3. units \in SUBSET Reachable
  BY <1>2 DEF Knowing
<1>4. units # {}
  <2>1. j \in j..n
    BY <1>1
  <2>2. QED  BY <2>1
<1>5. ASSUME NEW i \in j..n
      PROVE  Requested(stack[i].unit) \cap units # {}
  <2>1. CASE i = n
    <3>1. stack[j].unit \in units
      <4>1. j \in j..n
        BY <1>1
      <4>2. QED  BY <4>1
    <3>2. QED  BY <2>1, <3>1 DEF Top
  <2>2. CASE i # n
    <3>1. i + 1 \in j..n /\ i + 1 \in DOMAIN stack /\ i + 1 > 1 /\ (i + 1) - 1 = i
      <4> HIDE DEF n
      <4>1. i \in Nat /\ i >= 1 /\ i < n
        BY <1>1, <2>2
      <4>2. i + 1 \in j..n /\ i + 1 \in 1..n
        BY <1>1, <4>1
      <4>3. QED  BY <1>1, <4>1, <4>2
    <3>2. stack[i + 1].unit \in stack[i].dependencies
      BY <3>1 DEF StackMatchesStates
    <3>3. stack[i + 1].unit \in Requested(stack[i].unit)
      BY <1>2, <3>2 DEF Knowing, Faithful
    <3>4. stack[i + 1].unit \in units
      BY <3>1
    <3>5. QED  BY <3>3, <3>4
  <2>3. QED  BY <2>1, <2>2
<1>6. Tangled(units)
  BY <1>4, <1>5 DEF Tangled
<1> HIDE DEF units
<1>7. QED  BY <1>3, <1>6 DEF Knotted

LEMMA LoadKnows == LoaderInv /\ GraphInv /\ Load => GraphInv'
<1> SUFFICES ASSUME LoaderInv, GraphInv, Load PROVE GraphInv'
  OBVIOUS
<1>1. TypeOK /\ StackMatchesStates /\ NothingBeforeLoad
  BY DEF LoaderInv
<1>2. /\ stack = <<>> /\ stack \in Seq(Frame) /\ DOMAIN stack = {} /\ Len(stack) = 0
      /\ UNCHANGED <<imports, entry, modules, order>>
  BY <1>1 DEF Load, NothingBeforeLoad, TypeOK
<1>3. SameCalls(stack) /\ entry \in Unit /\ entry \in Reachable /\ Visit(entry, stack)
  BY <1>1, <1>2, ReachableClosed DEF SameCalls, Load, TypeOK
<1>4. /\ \A i \in DOMAIN stack' : stack'[i] = NewFrame(entry)
      /\ diagnostics \subseteq diagnostics'
      /\ "K4002" \in diagnostics' => "K4002" \in diagnostics
      /\ diagnostics' = {} => entry \in Ordered \/ (stack' # <<>> /\ stack'[0 + 1].unit = entry)
  BY <1>1, <1>2, <1>3, VisitShape
<1>5. Knowing(NewFrame(entry))
  BY <1>1, <1>3, NewFrameKnows
<1>6. EntryTaken'
  <2>1. order = <<>> /\ Ordered = {} /\ started'
    BY DEF GraphInv, EntryTaken, Load, Ordered
  <2>2. QED  BY <1>2, <1>4, <2>1 DEF EntryTaken
<1>7. \A f \in Calls' : \/ f \in Calls
                        \/ /\ f.unit \in Reachable /\ Faithful(f)
                           /\ diagnostics' = {} => Thorough(f)
  <2> SUFFICES ASSUME NEW f \in Calls'
               PROVE  /\ f.unit \in Reachable /\ Faithful(f)
                      /\ diagnostics' = {} => Thorough(f)
    OBVIOUS
  <2>1. f = NewFrame(entry)
    BY <1>4 DEF Calls
  <2>2. diagnostics' = {} => diagnostics = {}
    BY <1>4
  <2>3. QED  BY <1>5, <2>1, <2>2 DEF Knowing
<1>8. QED  BY <1>2, <1>4, <1>6, <1>7, CallsGoOn

LEMMA DependKnows == LoaderInv /\ GraphInv /\ Depend => GraphInv'
<1> SUFFICES ASSUME LoaderInv, GraphInv, Depend PROVE GraphInv'
  OBVIOUS
<1>1. /\ TypeOK /\ StackMatchesStates /\ NothingBeforeLoad /\ AtImport /\ stack # <<>>
      /\ CallsKnow /\ EntryTaken
      /\ UNCHANGED <<imports, entry, modules, order, started>>
  BY DEF LoaderInv, GraphInv, Depend, AtImport
<1> DEFINE target == Current.target
           f == [Named EXCEPT !.dependencies = @ \cup {target}]
<1>2. /\ Top \in Frame /\ Named \in Frame /\ Current \in Import
      /\ Named.unit = Top.unit /\ Named.dependencies = Top.dependencies
      /\ Named.file = Top.file /\ Named.next = Top.next + 1
  <2>1. Top \in Frame /\ Moved \in Frame /\ Moved.file = Top.file /\ Moved.next = Top.next + 1
    BY <1>1, ImportFacts DEF Moved, Frame
  <2>2. Named.file = Moved.file /\ Named.next = Moved.next
    BY <2>1 DEF Named, Frame
  <2>3. QED  BY <1>1, <2>1, <2>2, ImportFacts
<1>3. target \in Unit /\ target \notin Siblings(Top.unit)
  BY <1>2 DEF Depend, Unresolved, Sibling, Import
<1>4. target \in Requested(Top.unit)
  BY <1>1, <1>3, CurrentRequested
<1>5. /\ f \in Frame /\ f.unit = Top.unit /\ f.file = Top.file /\ f.next = Top.next + 1
      /\ f.dependencies = Top.dependencies \cup {target}
  <2> HIDE DEF target
  <2>1. Named.dependencies \in SUBSET Unit
    BY <1>2 DEF Frame
  <2>2. QED  BY <1>2, <1>3, <2>1 DEF Frame
<1>6. Visit(target, Replaced(f))
  BY DEF Depend
<1>7. target \in Siblings(Top.unit) \cup f.dependencies
  BY <1>5
<1>8. /\ AtImport /\ Thorough(Top) => Thorough(f)
  BY <1>1, <1>5, <1>7, ImportRead DEF target
<1> HIDE DEF f, target
<1>9. /\ SameCalls(Replaced(f))
      /\ Replaced(f)[Len(stack)] = f
      /\ \A i \in DOMAIN stack : i # Len(stack) => Replaced(f)[i] = stack[i]
  BY <1>1, <1>5, ReplacedTop
<1> DEFINE callers == Replaced(f)
<1>10. /\ stack' \in Seq(Frame) /\ Len(stack') >= Len(callers)
       /\ \A i \in 1..Len(callers) : stack'[i] = callers[i]
       /\ \A i \in DOMAIN stack' : i \in DOMAIN stack \/ stack'[i] = NewFrame(target)
       /\ diagnostics \subseteq diagnostics'
       /\ "K4002" \in diagnostics' =>
            "K4002" \in diagnostics \/ \E j \in DOMAIN stack : stack[j].unit = target
  BY <1>1, <1>3, <1>6, <1>9, VisitShape
<1>11. DOMAIN stack = 1..Len(stack) /\ Len(callers) = Len(stack) /\ Top \in Calls
  BY <1>1, <1>9, Domains DEF SameCalls, Calls, Top
<1> HIDE DEF callers
<1>12. Knowing(Top)
  BY <1>1, <1>11 DEF CallsKnow
<1>13. target \in Reachable /\ Knowing(NewFrame(target))
  BY <1>1, <1>3, <1>4, <1>12, ReachableClosed, NewFrameKnows DEF Knowing
<1>14. f.unit \in Reachable /\ Faithful(f) /\ (diagnostics = {} => Thorough(f))
  BY <1>1, <1>4, <1>5, <1>8, <1>12 DEF Knowing, Faithful
<1>15. \A g \in Calls' : \/ g \in Calls
                         \/ /\ g.unit \in Reachable /\ Faithful(g)
                            /\ diagnostics' = {} => Thorough(g)
  <2> SUFFICES ASSUME NEW g \in Calls', g \notin Calls
               PROVE  /\ g.unit \in Reachable /\ Faithful(g)
                      /\ diagnostics' = {} => Thorough(g)
    OBVIOUS
  <2>1. PICK i \in DOMAIN stack' : g = stack'[i]
    BY DEF Calls
  <2>2. g = f \/ g = NewFrame(target)
    BY <1>9, <1>10, <1>11, <2>1 DEF Calls, callers
  <2>3. diagnostics' = {} => diagnostics = {}
    BY <1>10
  <2>4. QED  BY <1>13, <1>14, <2>2, <2>3 DEF Knowing
<1>16. "K4002" \in diagnostics' => "K4002" \in diagnostics \/ Knotted
  BY <1>1, <1>4, <1>10, KnotClosed
<1>17. EntryTaken'
  <2>1. started
    BY <1>1 DEF NothingBeforeLoad, TypeOK
  <2>2. SameCalls(callers)
    BY <1>9 DEF callers
  <2>3. QED  BY <1>1, <1>10, <2>1, <2>2, FirstCallStays
<1>18. QED  BY <1>1, <1>10, <1>15, <1>16, <1>17, CallsGoOn

(* While nothing is reported, the unit that is done asks for loaded units  *)
(* alone, and no loaded unit asks for it.                                  *)
LEMMA FinishKnows == LoaderInv /\ GraphInv /\ Finish => GraphInv'
<1> SUFFICES ASSUME LoaderInv, GraphInv, Finish PROVE GraphInv'
  OBVIOUS
<1> DEFINE n == Len(stack)
           unit == Top.unit
<1>1. /\ TypeOK /\ StackMatchesStates /\ OthersSettled /\ DependenciesFirst
      /\ CallsKnow /\ OrderKnown /\ KnotSeen /\ EntryTaken
      /\ UNCHANGED <<imports, entry, diagnostics, started>>
  BY DEF LoaderInv, GraphInv, Finish
<1>2. /\ n \in Nat \ {0} /\ DOMAIN stack = 1..n /\ Top \in Frame /\ Top = stack[n]
      /\ n \in DOMAIN stack /\ unit \in Unit /\ Top.dependencies \in SUBSET Unit
  BY <1>1, Domains DEF Finish, Top, Frame
<1>3. /\ stack' \in Seq(Frame) /\ Len(stack') = n - 1
      /\ \A i \in 1..(n - 1) : stack'[i] = stack[i]
  <2>1. \A i \in 1..(n - 1) : stack[i] \in Frame
    BY <1>1, <1>2, Domains
  <2>2. 1 \in Int /\ n - 1 \in Int /\ stack' = SubSeq(stack, 1, n - 1)
    BY <1>2 DEF Finish
  <2> HIDE DEF n
  <2>3. /\ SubSeq(stack, 1, n - 1) \in Seq(Frame)
        /\ Len(SubSeq(stack, 1, n - 1)) = IF 1 <= n - 1 THEN (n - 1) - 1 + 1 ELSE 0
        /\ \A i \in 1..((n - 1) - 1 + 1) : SubSeq(stack, 1, n - 1)[i] = stack[1 + i - 1]
    BY <2>1, <2>2, SubSeqProperties
  <2>4. QED  BY <1>2, <2>2, <2>3
<1>4. DOMAIN stack' = 1..(n - 1) /\ Calls' \subseteq Calls
  <2>1. DOMAIN stack' = 1..(n - 1)
    BY <1>3, LenProperties
  <2>2. \A i \in 1..(n - 1) : i \in DOMAIN stack
    BY <1>2
  <2> HIDE DEF n
  <2>3. QED  BY <1>3, <2>1, <2>2 DEF Calls
<1>5. Ordered' = Ordered \cup {unit}
  <2> DEFINE m == Len(order)
  <2>1. order' = Append(order, unit) /\ order \in Seq(Unit)
    BY <1>1 DEF Finish, TypeOK
  <2>2. /\ m \in Nat /\ DOMAIN order = 1..m
        /\ order' \in Seq(Unit) /\ Len(order') = m + 1
        /\ order'[m + 1] = unit
        /\ \A i \in 1..m : order'[i] = order[i]
    BY <1>2, <2>1, AppendProperties, LenProperties
  <2>3. DOMAIN order' = 1..(m + 1)
    BY <2>2, LenProperties
  <2>4. m + 1 \in DOMAIN order' /\ \A i \in DOMAIN order : i \in DOMAIN order'
    BY <2>2, <2>3
  <2>5. \A i \in DOMAIN order' : i \in DOMAIN order \/ i = m + 1
    BY <2>2, <2>3
  <2> HIDE DEF unit, m
  <2>6. QED  BY <2>2, <2>4, <2>5 DEF Ordered
<1>6. unit \notin Ordered
  BY <1>1, <1>2 DEF StackMatchesStates
<1>7. Knowing(Top)
  BY <1>1, <1>2 DEF CallsKnow, Calls
<1>8. /\ \A u : Requested(u)' = Requested(u)
      /\ Reachable' = Reachable
      /\ Knotted' <=> Knotted
      /\ \A units : Tangled(units)' <=> Tangled(units)
      /\ \A f : (Faithful(f)' <=> Faithful(f)) /\ (Thorough(f)' <=> Thorough(f))
  BY <1>1, SameProgram
<1> HIDE DEF n, unit
<1>9. CallsKnow'
  <2> SUFFICES ASSUME NEW f \in Calls'
               PROVE  Knowing(f)'
    BY DEF CallsKnow
  <2>1. Knowing(f)
    BY <1>1, <1>4 DEF CallsKnow
  <2>2. QED  BY <1>1, <1>8, <2>1 DEF Knowing
<1>10. KnotSeen'
  BY <1>1, <1>8 DEF KnotSeen
<1>11. EntryTaken'
  <2>0. started
    BY DEF LoaderInv, NothingBeforeLoad, TypeOK, Finish
  <2> SUFFICES ASSUME diagnostics = {}
               PROVE  IF stack' = <<>> THEN EntryLast' ELSE stack'[1].unit = entry
    BY <1>1, <2>0 DEF EntryTaken
  <2>1. stack[1].unit = entry
    BY <1>1, <2>0 DEF EntryTaken, Finish
  <2>2. CASE n = 1
    <3>1. Len(stack') = 0
      BY <1>3, <2>2
    <3>2. stack' = <<>>
      BY <1>3, <3>1, EmptySeq
    <3>3. unit = entry
      BY <1>2, <2>1, <2>2 DEF unit
    <3>4. order' = Append(order, unit) /\ order \in Seq(Unit)
      BY <1>1 DEF Finish, TypeOK, unit
    <3>5. order' \in Seq(Unit) /\ Len(order') = Len(order) + 1 /\ order'[Len(order) + 1] = unit
      BY <1>2, <3>4, AppendProperties
    <3>6. Len(order') # 0
      BY <3>4, <3>5, LenProperties
    <3>7. order' # <<>>
      BY <3>6, EmptySeq
    <3>8. QED  BY <1>1, <3>2, <3>3, <3>5, <3>7 DEF EntryLast
  <2>3. CASE n # 1
    <3>1. 1 \in 1..(n - 1) /\ Len(stack') # 0
      BY <1>2, <1>3, <2>3
    <3>2. stack' # <<>>
      BY <3>1, EmptySeq
    <3>3. QED  BY <1>3, <2>1, <3>1, <3>2
  <2>4. QED  BY <2>2, <2>3
<1>12. ASSUME diagnostics = {}
       PROVE  /\ Requested(unit) \subseteq Ordered
              /\ Top.dependencies = Requested(unit)
  <2>1. Thorough(Top) /\ Top.dependencies \subseteq Requested(unit)
    BY <1>7, <1>12 DEF Knowing, Faithful, unit
  <2>2. Requested(unit) \subseteq Top.dependencies
    <3> SUFFICES ASSUME NEW t \in Requested(unit)
                 PROVE  t \in Top.dependencies
      OBVIOUS
    <3>1. t \notin Siblings(unit)
          /\ \E file \in {Sources(unit)[i] : i \in DOMAIN Sources(unit)} : t \in Targets(file)
      BY DEF Requested
    <3>2. PICK i \in DOMAIN Sources(unit) : t \in Targets(Sources(unit)[i])
      BY <3>1
    <3>3. PICK k \in DOMAIN imports[Sources(unit)[i]] : imports[Sources(unit)[i]][k].target = t
      BY <3>2 DEF Targets
    <3>4. i < Top.file
      <4>1. i \in 1..Len(Sources(unit)) /\ Len(Sources(unit)) \in Nat
        BY <1>1, <1>2, SourcesAreFiles, LenProperties
      <4>2. Top.file \in Nat /\ Top.file > Len(Sources(unit))
        BY <1>2 DEF Finish, Frame, unit
      <4>3. QED  BY <4>1, <4>2
    <3>5. t \in Siblings(unit) \cup Top.dependencies
      BY <2>1, <3>3, <3>4 DEF Thorough, unit
    <3>6. QED  BY <3>1, <3>5
  <2>3. Top.dependencies \subseteq Ordered
    <3> SUFFICES ASSUME NEW d \in Top.dependencies
                 PROVE  d \in Ordered
      OBVIOUS
    <3>1. Settled(d) \/ n < n
      BY <1>1, <1>2 DEF OthersSettled, n
    <3>2. QED  BY <1>2, <1>12, <3>1 DEF Settled
  <2>4. QED  BY <1>2, <2>1, <2>2, <2>3
<1>13. ASSUME diagnostics = {}, NEW u \in Ordered
       PROVE  modules[u] = Requested(u) /\ unit \notin Requested(u) /\ u \in Unit
  <2>1. modules[u] = Requested(u)
    BY <1>1, <1>13 DEF OrderKnown
  <2>2. PICK i \in DOMAIN order : order[i] = u
    BY DEF Ordered
  <2>3. \A d \in modules[u] : d \in Ordered
    BY <1>1, <1>13, <2>2 DEF DependenciesFirst, Ordered
  <2>4. u \in Unit
    BY <1>1, <2>2, Domains
  <2>5. QED  BY <1>6, <2>1, <2>3, <2>4
<1>14. OrderKnown'
  <2>1. Ordered' \subseteq Reachable'
    BY <1>1, <1>5, <1>7, <1>8 DEF OrderKnown, Knowing, unit
  <2>2. ASSUME diagnostics' = {}, NEW u \in Ordered'
        PROVE  modules'[u] = Requested(u)'
    <3>1. modules' = [modules EXCEPT ![unit] = Top.dependencies] /\ modules \in [Unit -> SUBSET Unit]
      BY <1>1 DEF Finish, TypeOK, unit
    <3>2. diagnostics = {}
      BY <1>1, <2>2
    <3>3. CASE u = unit
      BY <1>2, <1>8, <1>12, <3>1, <3>2, <3>3
    <3>4. CASE u \in Ordered
      BY <1>6, <1>8, <1>13, <3>1, <3>2, <3>4
    <3>5. QED  BY <1>5, <2>2, <3>3, <3>4
  <2>3. ASSUME diagnostics' = {}, NEW units \in SUBSET Ordered', Tangled(units)
        PROVE  FALSE
    <3>1. diagnostics = {} /\ \A old \in SUBSET Ordered : ~Tangled(old)
      BY <1>1, <2>3 DEF OrderKnown
    <3>2. units \ {unit} \in SUBSET Ordered
      BY <1>5, <2>3
    <3>3. \A u \in units \ {unit} : Requested(u) \cap (units \ {unit}) # {}
      BY <1>13, <2>3, <3>1, <3>2 DEF Tangled
    <3>4. units \ {unit} # {}
      <4>1. CASE unit \in units
        BY <1>6, <1>12, <2>3, <3>1, <4>1 DEF Tangled
      <4>2. CASE unit \notin units
        BY <2>3, <4>2 DEF Tangled
      <4>3. QED  BY <4>1, <4>2
    <3>5. QED  BY <3>1, <3>2, <3>3, <3>4 DEF Tangled
  <2>4. QED  BY <1>8, <2>1, <2>2, <2>3 DEF OrderKnown
<1>15. QED  BY <1>9, <1>10, <1>11, <1>14 DEF GraphInv
-----------------------------------------------------------------------------
LEMMA InitGraph == Init => GraphInv
<1> SUFFICES ASSUME Init PROVE GraphInv
  OBVIOUS
<1>1. /\ Calls = {} /\ Ordered = {} /\ diagnostics = {} /\ ~started
  BY DEF Init, Calls, Ordered
<1>2. QED
  BY <1>1 DEF Init, GraphInv, CallsKnow, OrderKnown, KnotSeen, EntryTaken, Tangled

LEMMA NextGraph == LoaderInv /\ GraphInv /\ [Next]_vars => GraphInv'
<1> SUFFICES ASSUME LoaderInv, GraphInv, [Next]_vars PROVE GraphInv'
  OBVIOUS
<1>0. TypeOK
  BY DEF LoaderInv
<1>1. CASE Load
  BY <1>1, LoadKnows
<1>2. CASE OpenMember
  <2>1. stack # <<>> /\ Top \in Frame
    BY <1>0, <1>2, Domains DEF OpenMember
  <2>2. UNCHANGED <<imports, entry, state, modules, order, started>>
    BY <1>2 DEF OpenMember
  <2>3. CASE File \in Unreadable
    <3> DEFINE f == [Top EXCEPT !.file = @ + 1]
    <3>1. f \in Frame /\ f.unit = Top.unit /\ f.dependencies = Top.dependencies
      BY <2>1 DEF Frame
    <3>2. stack' = Replaced(f) /\ diagnostics' = diagnostics \cup {"K4000"}
      BY <1>2, <2>3 DEF OpenMember, Report
    <3> HIDE DEF f
    <3>3. QED  BY <2>1, <2>2, <3>1, <3>2, MovesOnKnowing
  <2>4. CASE File \notin Unreadable
    <3>1. /\ Moved \in Frame /\ Moved.unit = Top.unit
          /\ Moved.dependencies = Top.dependencies
          /\ Moved.file = Top.file /\ Top.next = 0 /\ Moved.next = 1
      BY <1>2, <2>1 DEF Frame, Moved, OpenMember
    <3>2. stack' = Replaced(Moved) /\ diagnostics' = diagnostics
      BY <1>2, <2>4 DEF OpenMember
    <3>3. Thorough(Top) => Thorough(Moved)
      BY <1>0, <2>1, <3>1, SourceRead
    <3>4. QED  BY <2>1, <2>2, <3>1, <3>2, <3>3, MovesOnKnowing
  <2>5. QED  BY <2>3, <2>4
<1>3. CASE SkipImport
  <2>1. /\ AtImport /\ stack # <<>> /\ Top \in Frame /\ Named \in Frame
        /\ Named.unit = Top.unit /\ Named.dependencies = Top.dependencies
    BY <1>0, <1>3, ImportFacts DEF SkipImport, AtImport
  <2>2. Named.file = Top.file /\ Named.next = Top.next + 1
    <3>1. Moved \in Frame /\ Moved.file = Top.file /\ Moved.next = Top.next + 1
      BY <1>0, <2>1, ImportFacts DEF Moved, Frame
    <3>2. Named.file = Moved.file /\ Named.next = Moved.next
      BY <3>1 DEF Named, Frame
    <3>3. QED  BY <3>1, <3>2
  <2>3. /\ UNCHANGED <<imports, entry, state, modules, order, started>>
        /\ stack' = Replaced(Named)
        /\ diagnostics \subseteq diagnostics'
        /\ "K4002" \in diagnostics' => "K4002" \in diagnostics
        /\ diagnostics' = {} => Current.target \in Siblings(Top.unit)
    BY <1>3 DEF SkipImport, Report, Sibling
  <2>4. diagnostics' = {} /\ Thorough(Top) => Thorough(Named)
    BY <1>0, <2>1, <2>2, <2>3, ImportRead
  <2>5. QED  BY <2>1, <2>3, <2>4, MovesOnKnowing
<1>4. CASE Depend
  BY <1>4, DependKnows
<1>5. CASE CloseSource
  <2> DEFINE f == [Top EXCEPT !.file = @ + 1, !.next = 0]
  <2>1. stack # <<>> /\ Top \in Frame /\ Top.next > Len(imports[File])
    BY <1>0, <1>5, Domains DEF CloseSource
  <2>2. /\ f \in Frame /\ f.unit = Top.unit /\ f.dependencies = Top.dependencies
        /\ f.file = Top.file + 1 /\ f.next = 0
    <3> DEFINE g == [Top EXCEPT !.file = @ + 1]
    <3>1. g \in Frame /\ g.unit = Top.unit /\ g.dependencies = Top.dependencies
          /\ g.file = Top.file + 1
      BY <2>1 DEF Frame
    <3>2. f = [g EXCEPT !.next = 0]
      OBVIOUS
    <3> HIDE DEF g, f
    <3>3. QED  BY <3>1, <3>2 DEF Frame
  <2>3. /\ UNCHANGED <<imports, entry, state, modules, order, diagnostics, started>>
        /\ stack' = Replaced(f)
    BY <1>5 DEF CloseSource
  <2> HIDE DEF f
  <2>4. Thorough(Top) => Thorough(f)
    BY <1>0, <2>1, <2>2, SourceRead
  <2>5. QED  BY <2>1, <2>2, <2>3, <2>4, MovesOnKnowing
<1>6. CASE Finish
  BY <1>6, FinishKnows
<1>7. CASE UNCHANGED vars
  <2>1. UNCHANGED <<imports, entry, modules, order, diagnostics>> /\ Calls' = Calls
    BY <1>7 DEF vars, Calls
  <2>2. EntryTaken'
    BY <1>7 DEF vars, GraphInv, EntryTaken, EntryLast
  <2>3. QED  BY <2>1, <2>2, CallsGoOn
<1>8. QED  BY <1>1, <1>2, <1>3, <1>4, <1>5, <1>6, <1>7 DEF Next

(* What the loader knows of the program is true of every reachable state.  *)
THEOREM GraphCorrect == Spec => [](LoaderInv /\ GraphInv)
<1>1. Init => LoaderInv /\ GraphInv
  BY InitInv, InitGraph
<1>2. (LoaderInv /\ GraphInv) /\ [Next]_vars => (LoaderInv /\ GraphInv)'
  BY NextInv, NextGraph
<1>3. QED  BY <1>1, <1>2, PTL DEF Spec

(* At the end of a load without a report, what is loaded is closed under   *)
(* what it asks for.                                                       *)
LEMMA AllLoaded ==
  ASSUME LoaderInv, GraphInv, Done, diagnostics = {}
  PROVE  /\ Ordered = Reachable
         /\ \A u \in Ordered : modules[u] = Requested(u)
         /\ EntryLast
<1>1. /\ TypeOK /\ DependenciesFirst /\ OrderKnown /\ EntryTaken
      /\ started /\ stack = <<>>
  BY DEF LoaderInv, GraphInv, Done
<1>2. /\ EntryLast /\ Ordered \subseteq Reachable
      /\ \A u \in Ordered : modules[u] = Requested(u)
  BY <1>1 DEF EntryTaken, OrderKnown
<1>3. entry \in Ordered
  <2>1. Len(order) \in Nat /\ DOMAIN order = 1..Len(order) /\ Len(order) # 0
    BY <1>1, <1>2, Domains, EmptySeq DEF TypeOK, EntryLast
  <2>2. Len(order) \in DOMAIN order
    BY <2>1
  <2>3. QED  BY <1>2, <2>2 DEF EntryLast, Ordered
<1>4. Ordered \in SUBSET Unit
  BY <1>1, Domains DEF Ordered
<1>5. Closed(Ordered)
  <2> SUFFICES ASSUME NEW u \in Ordered, NEW t \in Requested(u)
               PROVE  t \in Ordered
    BY DEF Closed
  <2>1. PICK i \in DOMAIN order : order[i] = u
    BY DEF Ordered
  <2>2. t \in modules[order[i]]
    BY <1>2, <2>1
  <2>3. QED  BY <1>1, <2>2 DEF DependenciesFirst, Ordered
<1>6. Reachable \subseteq Ordered
  BY <1>3, <1>4, <1>5, ReachableLeast
<1>7. QED  BY <1>2, <1>6

(* A load without a report has loaded the units the entry needs, all of    *)
(* them and no other, and knows what each imports.                         *)
THEOREM LoadsWhatIsNeeded == Spec => []LoadsReachable
<1>1. LoaderInv /\ GraphInv => LoadsReachable
  BY AllLoaded DEF LoadsReachable
<1>2. QED  BY <1>1, GraphCorrect, PTL

(* A cycle is reported only when the units the entry needs have one, and a *)
(* load that ends without a report has none.                               *)
THEOREM CyclesAreReported == Spec => []CyclesReported
<1>1. LoaderInv /\ GraphInv => CyclesReported
  <2> SUFFICES ASSUME LoaderInv, GraphInv, Done PROVE CyclesReported
    BY DEF CyclesReported
  <2>1. "K4002" \in diagnostics => \E units \in SUBSET Reachable : Tangled(units)
    BY DEF GraphInv, KnotSeen, Knotted
  <2>2. diagnostics = {} => ~\E units \in SUBSET Reachable : Tangled(units)
    BY AllLoaded DEF GraphInv, OrderKnown
  <2>3. QED  BY <2>1, <2>2 DEF CyclesReported
<1>2. QED  BY <1>1, GraphCorrect, PTL

(* What the module analyzer relies on (OrderAssumption of ProjectCheck):   *)
(* the initialization order of a load without a report has every unit      *)
(* once, after all that it imports, and the entry last.                    *)
UsableOrder ==
  Done /\ diagnostics = {} =>
    /\ EntryLast
    /\ \A i, j \in DOMAIN order : order[i] = order[j] => i = j
    /\ \A i \in DOMAIN order : \A d \in Requested(order[i]) :
         \E j \in 1 .. i - 1 : order[j] = d

(* analyzeModuleGraph may go through initializationOrder once, as it does. *)
THEOREM OrderIsUsable == Spec => []UsableOrder
<1>1. LoaderInv /\ GraphInv => UsableOrder
  <2> SUFFICES ASSUME LoaderInv, GraphInv, Done, diagnostics = {}
               PROVE  /\ EntryLast
                      /\ \A i, j \in DOMAIN order : order[i] = order[j] => i = j
                      /\ \A i \in DOMAIN order : \A d \in Requested(order[i]) :
                           \E j \in 1 .. i - 1 : order[j] = d
    BY DEF UsableOrder
  <2>1. EntryLast /\ \A u \in Ordered : modules[u] = Requested(u)
    BY AllLoaded
  <2>2. \A i, j \in DOMAIN order : order[i] = order[j] => i = j
    BY DEF LoaderInv, StackMatchesStates
  <2>3. ASSUME NEW i \in DOMAIN order, NEW d \in Requested(order[i])
        PROVE  \E j \in 1 .. i - 1 : order[j] = d
    <3>1. d \in modules[order[i]]
      BY <2>1 DEF Ordered
    <3>2. PICK j \in DOMAIN order : j < i /\ order[j] = d
      BY <3>1 DEF LoaderInv, DependenciesFirst
    <3>3. i \in Nat /\ j \in Nat /\ j >= 1
      BY Domains DEF LoaderInv
    <3>4. j \in 1 .. i - 1
      BY <3>2, <3>3
    <3>5. QED  BY <3>2, <3>4
  <2>4. QED  BY <2>1, <2>2, <2>3
<1>2. QED  BY <1>1, GraphCorrect, PTL

----------------------------------------------------------------------------
(* Every step brings the load closer to its end.                           *)
LEMMA ReplacedReadsOn ==
  ASSUME TypeOK, NothingBeforeLoad, stack # <<>>, NEW f \in Frame, stack' = Replaced(f),
         f.unit = Top.unit, Top.dependencies \subseteq f.dependencies,
         UNCHANGED <<imports, state, started>>,
         Top.file <= Len(Sources(Top.unit)),
         \/ f.file > Top.file
         \/ f.file = Top.file /\ f.next > Top.next /\ Top.next <= Len(imports[File])
  PROVE  Approaches
<1>1. /\ SameCalls(stack') /\ stack'[Len(stack)] = f
  BY ReplacedTop
<1>2. Len(stack') = Len(stack) /\ Top' = f
  BY <1>1 DEF SameCalls, Top
<1>3. started /\ started'
  BY DEF NothingBeforeLoad, TypeOK
<1>4. Unseen' = Unseen
  BY DEF Unseen
<1>5. ReadsOn
  BY <1>2 DEF ReadsOn
<1>6. QED  BY <1>3, <1>4, <1>5 DEF Approaches

(* The source that is read, and what reading its next import changes.      *)
LEMMA FileIsRead ==
  ASSUME TypeOK, stack # <<>>, Top.file <= Len(Sources(Top.unit))
  PROVE  Len(imports[File]) \in Nat /\ DOMAIN imports[File] = 1 .. Len(imports[File])
<1>1. Top.unit \in Unit /\ Top.file \in Nat \ {0}
  BY Domains DEF Frame
<1>2. imports[File] \in Seq(Import)
  BY <1>1, SourcesAreFiles DEF File
<1>3. QED  BY <1>2, LenProperties

LEMMA NamedReadsOn ==
  ASSUME TypeOK, AtImport
  PROVE  /\ Named \in Frame /\ Named.unit = Top.unit /\ Named.dependencies = Top.dependencies
         /\ Named.file = Top.file /\ Named.next > Top.next
         /\ Top.next <= Len(imports[File]) /\ stack # <<>>
         /\ Top.file <= Len(Sources(Top.unit))
<1>1. stack # <<>> /\ Top \in Frame /\ Top.next \in Nat /\ Top.file <= Len(Sources(Top.unit))
  BY Domains DEF AtImport, Frame
<1>2. Top.next <= Len(imports[File])
  BY <1>1, FileIsRead DEF AtImport
<1>3. Named.file = Top.file /\ Named.next > Top.next
  BY <1>1 DEF Named, Moved, Frame
<1>4. QED  BY <1>1, <1>2, <1>3, ImportFacts

LEMMA VisitSees ==
  ASSUME TypeOK, NEW u \in Unit, NEW callers, Visit(u, callers)
  PROVE  /\ Unseen' \subseteq Unseen
         /\ Unseen' # Unseen \/ (UNCHANGED state /\ stack' = callers)
<1>1. CASE UNCHANGED state /\ stack' = callers
  BY <1>1 DEF Unseen
<1>2. CASE state[u] = 0 /\ state' = [state EXCEPT ![u] = 1]
  <2>1. u \in Unseen /\ u \notin Unseen'
    BY <1>2 DEF Unseen, TypeOK
  <2>2. Unseen' \subseteq Unseen
    BY <1>2 DEF Unseen, TypeOK
  <2>3. QED  BY <2>1, <2>2
<1>3. QED  BY <1>1, <1>2 DEF Visit

LEMMA NextApproaches == LoaderInv /\ Next => Approaches
<1> SUFFICES ASSUME LoaderInv, Next PROVE Approaches
  OBVIOUS
<1>0. TypeOK /\ NothingBeforeLoad
  BY DEF LoaderInv
<1>1. CASE Load
  BY <1>0, <1>1, VisitSees DEF Load, Approaches, TypeOK
<1>2. CASE OpenMember
  <2>1. stack # <<>> /\ Top \in Frame /\ Top.file \in Nat /\ Top.next = 0
        /\ Top.file <= Len(Sources(Top.unit)) /\ UNCHANGED <<imports, state, started>>
    BY <1>0, <1>2, Domains DEF OpenMember, Frame
  <2>2. Len(imports[File]) \in Nat
    BY <1>0, <2>1, FileIsRead
  <2>3. /\ [Top EXCEPT !.file = @ + 1] \in Frame
        /\ [Top EXCEPT !.file = @ + 1].unit = Top.unit
        /\ [Top EXCEPT !.file = @ + 1].dependencies = Top.dependencies
        /\ [Top EXCEPT !.file = @ + 1].file > Top.file
    BY <2>1 DEF Frame
  <2>4. Moved \in Frame /\ Moved.unit = Top.unit /\ Moved.dependencies = Top.dependencies
        /\ Moved.file = Top.file /\ Moved.next > Top.next
    BY <2>1 DEF Frame, Moved
  <2>5. CASE stack' = Replaced([Top EXCEPT !.file = @ + 1])
    BY <1>0, <2>1, <2>3, <2>5, ReplacedReadsOn
  <2>6. CASE stack' = Replaced(Moved)
    BY <1>0, <2>1, <2>2, <2>4, <2>6, ReplacedReadsOn
  <2>7. QED  BY <1>2, <2>5, <2>6 DEF OpenMember
<1>3. CASE SkipImport
  BY <1>0, <1>3, NamedReadsOn, ReplacedReadsOn DEF SkipImport
<1>4. CASE Depend
  <2> DEFINE target == Current.target
             f == [Named EXCEPT !.dependencies = @ \cup {target}]
  <2>1. target \in Unit /\ f \in Frame /\ f.unit = Top.unit /\ f.file = Top.file
        /\ f.next > Top.next /\ Top.dependencies \subseteq f.dependencies
    <3>1. Current \in Import /\ Named \in Frame /\ Named.unit = Top.unit
          /\ Named.dependencies = Top.dependencies
      BY <1>0, <1>4, ImportFacts DEF Depend
    <3>2. target \in Unit
      BY <1>4, <3>1 DEF Depend, Unresolved, Import
    <3>3. Named.dependencies \in SUBSET Unit /\ Named.file = Top.file /\ Named.next > Top.next
      BY <1>0, <1>4, <3>1, NamedReadsOn DEF Depend, Frame
    <3> HIDE DEF target
    <3>4. QED  BY <3>1, <3>2, <3>3 DEF Frame
  <2>2. Visit(target, Replaced(f)) /\ UNCHANGED <<imports, started>> /\ AtImport
    BY <1>4 DEF Depend
  <2> HIDE DEF f, target
  <2>3. stack # <<>> /\ started /\ Top.file <= Len(Sources(Top.unit)) /\ Top.next <= Len(imports[File])
    BY <1>0, <2>2, NamedReadsOn DEF NothingBeforeLoad, TypeOK
  <2>4. Unseen' \subseteq Unseen /\ (Unseen' # Unseen \/ (UNCHANGED state /\ stack' = Replaced(f)))
    BY <1>0, <2>1, <2>2, VisitSees
  <2>5. CASE Unseen' # Unseen
    BY <2>2, <2>3, <2>4, <2>5 DEF Approaches
  <2>6. CASE UNCHANGED state /\ stack' = Replaced(f)
    BY <1>0, <2>1, <2>2, <2>3, <2>6, ReplacedReadsOn
  <2>7. QED  BY <2>4, <2>5, <2>6
<1>5. CASE CloseSource
  <2> DEFINE g == [Top EXCEPT !.file = @ + 1]
             f == [Top EXCEPT !.file = @ + 1, !.next = 0]
  <2>1. stack # <<>> /\ Top \in Frame
    BY <1>0, <1>5, Domains DEF CloseSource
  <2>2. f \in Frame /\ f.unit = Top.unit /\ f.dependencies = Top.dependencies
        /\ f.file > Top.file
    <3>1. g \in Frame /\ g.unit = Top.unit /\ g.dependencies = Top.dependencies
          /\ g.file > Top.file
      BY <2>1 DEF Frame
    <3>2. f = [g EXCEPT !.next = 0]
      OBVIOUS
    <3> HIDE DEF g, f
    <3>3. QED  BY <3>1, <3>2 DEF Frame
  <2>3. /\ UNCHANGED <<imports, state, started>> /\ stack' = Replaced(f)
        /\ Top.file <= Len(Sources(Top.unit))
    BY <1>5 DEF CloseSource
  <2> HIDE DEF f
  <2>4. QED  BY <1>0, <2>1, <2>2, <2>3, ReplacedReadsOn
<1>6. CASE Finish
  <2>1. stack \in Seq(Frame) /\ stack # <<>> /\ stack' = SubSeq(stack, 1, Len(stack) - 1)
        /\ started /\ UNCHANGED <<imports, started>> /\ Len(stack) \in Nat
    BY <1>0, <1>6, Domains DEF Finish, TypeOK, NothingBeforeLoad
  <2>2. Len(stack') < Len(stack)
    BY <2>1, EmptySeq, SubSeqProperties
  <2>3. Unseen' \subseteq Unseen
    BY <1>0, <1>6 DEF Finish, Unseen, TypeOK
  <2>4. QED  BY <2>1, <2>2, <2>3 DEF Approaches
<1>7. QED  BY <1>1, <1>2, <1>3, <1>4, <1>5, <1>6 DEF Next

(* The loader comes closer to its end with every step, for every program:  *)
(* the marks bound the mutual recursion of visit and                       *)
(* ingestDirectoryPackage, whatever is cyclic or cannot be read.           *)
THEOREM LoadComesToAnEnd == Spec => ApproachesEnd
<1>1. LoaderInv /\ [Next]_vars => [Approaches]_vars
  BY NextApproaches
<1>2. QED  BY <1>1, LoaderCorrect, PTL DEF Spec, ApproachesEnd
=============================================================================
