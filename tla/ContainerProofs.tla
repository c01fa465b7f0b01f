--------------------------- MODULE ContainerProofs ---------------------------
(***************************************************************************)
(* Proofs about Container, for any tasks, classes, factories and           *)
(* registrations.                                                          *)
(*                                                                         *)
(* The resolving stack: although a pop() may take another task's entry, no *)
(* class is on it twice and it is as long as there are resolve() calls in  *)
(* flight.                                                                 *)
(*                                                                         *)
(* The singletons, unless one needs itself: the objects ever returned for  *)
(* one are at most one per task, so a task alone has one.                  *)
(*                                                                         *)
(* One task alone: a circular dependency is reported for a class that the  *)
(* task is in the middle of resolving.                                     *)
(***************************************************************************)
EXTENDS Container, FiniteSetTheorems, SequenceTheorems, TLAPS

StackInv ==
    /\ StackHasNoDuplicates
    /\ IsFiniteSet(Resolves)
    /\ StackCountsResolves

IInv == TypeOK /\ StackInv

-----------------------------------------------------------------------------
\* Facts about sequences.

\* What Front and Last of a nonempty sequence are.
LEMMA FrontLast ==
    ASSUME NEW S, NEW s \in Seq(S), s # << >>
    PROVE  /\ Front(s) \in Seq(S)
           /\ Len(Front(s)) = Len(s) - 1
           /\ \A i \in 1 .. Len(s) - 1 : Front(s)[i] = s[i]
           /\ Last(s) \in S
           /\ Len(s) \in Nat \ {0}
  <1>1. Len(s) \in Nat \ {0} /\ \A i \in 1 .. Len(s) : s[i] \in S
    BY EmptySeq, LenProperties, ElementOfSeq
  <1> DEFINE f == SubSeq(s, 1, Len(s) - 1)
  <1>2. /\ f \in Seq(S)
        /\ Len(f) = IF 1 <= Len(s) - 1 THEN Len(s) - 1 - 1 + 1 ELSE 0
        /\ \A i \in 1 .. Len(s) - 1 - 1 + 1 : f[i] = s[1 + i - 1]
    <2>1. 1 \in Int /\ Len(s) - 1 \in Int /\ \A i \in 1 .. Len(s) - 1 : s[i] \in S
      BY <1>1
    <2> QED
      BY <2>1, SubSeqProperties
  <1>3. f = Front(s)
    BY DEF Front
  <1> HIDE DEF f
  <1>4. f \in Seq(S) /\ Len(f) = Len(s) - 1
    <2>1. \A n \in Nat \ {0} : (IF 1 <= n - 1 THEN n - 1 - 1 + 1 ELSE 0) = n - 1
      OBVIOUS
    <2>2. Len(f) = Len(s) - 1
      BY <1>1, <1>2, <2>1, Zenon
    <2> QED
      BY <1>2, <2>2
  <1>5. \A i \in 1 .. Len(s) - 1 : f[i] = s[i]
    <2> SUFFICES ASSUME NEW i \in 1 .. Len(s) - 1 PROVE f[i] = s[i]
      OBVIOUS
    <2>1. i \in 1 .. Len(s) - 1 - 1 + 1 /\ 1 + i - 1 = i
      BY <1>1
    <2> QED
      BY <1>2, <2>1
  <1>6. Last(s) \in S
    BY <1>1 DEF Last
  <1> QED
    BY <1>1, <1>3, <1>4, <1>5, <1>6

\* A sequence stays injective when a new element is appended.
LEMMA AppendKeepsInjective ==
    ASSUME NEW S, NEW s \in Seq(S), NEW x \in S, IsInjective(s), x \notin ToSet(s)
    PROVE  IsInjective(Append(s, x))
  BY DEF IsInjective, ToSet

\* A sequence stays injective when its last element is dropped.
LEMMA FrontKeepsInjective ==
    ASSUME NEW S, NEW s \in Seq(S), s # << >>, IsInjective(s)
    PROVE  IsInjective(Front(s))
  <1>1. DOMAIN Front(s) = 1 .. Len(s) - 1 /\ DOMAIN s = 1 .. Len(s)
    BY FrontLast, LenProperties
  <1> QED
    BY <1>1, FrontLast DEF IsInjective

-----------------------------------------------------------------------------
\* What the steps do to the frames of a task.

\* The members of Resolves.
LEMMA ResolvesMember ==
    /\ \A t, i : <<t, i>> \in Resolves <=>
          t \in Tasks /\ i \in DOMAIN frames[t] /\ frames[t][i].op = "resolve"
    /\ \A r \in Resolves : r = <<r[1], r[2]>>
  BY DEF Resolves

LEMMA ResolvesMemberNext ==
    /\ \A t, i : <<t, i>> \in Resolves' <=>
          t \in Tasks /\ i \in DOMAIN frames'[t] /\ frames'[t][i].op = "resolve"
    /\ \A r \in Resolves' : r = <<r[1], r[2]>>
  BY DEF Resolves

\* Two sets of pairs are equal if they hold the same pairs.
LEMMA SamePairs ==
    ASSUME NEW A, NEW B,
           \A r \in A : r = <<r[1], r[2]>>,
           \A r \in B : r = <<r[1], r[2]>>,
           \A t, i : <<t, i>> \in A <=> <<t, i>> \in B
    PROVE  A = B
  <1>1. \A r \in A : <<r[1], r[2]>> \in B
    <2> SUFFICES ASSUME NEW r \in A PROVE <<r[1], r[2]>> \in B
      OBVIOUS
    <2>1. <<r[1], r[2]>> \in A
      OBVIOUS
    <2> QED
      BY <2>1
  <1>2. \A r \in B : <<r[1], r[2]>> \in A
    <2> SUFFICES ASSUME NEW r \in B PROVE <<r[1], r[2]>> \in A
      OBVIOUS
    <2>1. <<r[1], r[2]>> \in B
      OBVIOUS
    <2> QED
      BY <2>1
  <1>3. A \subseteq B
    BY <1>1
  <1>4. B \subseteq A
    BY <1>2
  <1> QED
    BY <1>3, <1>4

\* The innermost frame of a task with frames.
LEMMA TopFrame ==
    ASSUME TypeOK, NEW t \in Tasks, frames[t] # << >>
    PROVE  /\ frames[t] \in Seq(Frame)
           /\ Top(t) \in Frame
           /\ Top(t) = frames[t][Len(frames[t])]
           /\ Len(frames[t]) \in DOMAIN frames[t]
           /\ Len(frames[t]) \in Nat \ {0}
  <1>1. frames[t] \in Seq(Frame)
    BY DEF TypeOK
  <1> QED
    BY <1>1, FrontLast, LenProperties DEF Top, Last

\* Dropping the innermost frame drops it from Resolves, if it is there.
LEMMA PopsFrame ==
    ASSUME TypeOK, NEW t \in Tasks, frames[t] # << >>, Pops(t)
    PROVE  /\ frames' \in [Tasks -> Seq(Frame)]
           /\ Resolves' = Resolves \ {<<t, Len(frames[t])>>}
           /\ Top(t).op = "resolve" <=> <<t, Len(frames[t])>> \in Resolves
  <1>1. /\ frames[t] \in Seq(Frame)
        /\ Top(t) = frames[t][Len(frames[t])]
        /\ Len(frames[t]) \in DOMAIN frames[t]
        /\ Len(frames[t]) \in Nat \ {0}
    BY TopFrame
  <1>2. frames' = [frames EXCEPT ![t] = Front(frames[t])] /\ frames \in [Tasks -> Seq(Frame)]
    BY DEF Pops, TypeOK
  <1>3. frames'[t] = Front(frames[t]) /\ \A u \in Tasks : u # t => frames'[u] = frames[u]
    BY <1>2
  <1>4. /\ Front(frames[t]) \in Seq(Frame)
        /\ DOMAIN Front(frames[t]) = DOMAIN frames[t] \ {Len(frames[t])}
        /\ \A i \in DOMAIN Front(frames[t]) : Front(frames[t])[i] = frames[t][i]
    <2> DEFINE s == frames[t]
               g == Front(s)
    <2>1. /\ g \in Seq(Frame)
          /\ Len(g) = Len(s) - 1
          /\ \A i \in 1 .. Len(s) - 1 : g[i] = s[i]
      BY <1>1, FrontLast
    <2>2. DOMAIN g = 1 .. Len(g) /\ DOMAIN s = 1 .. Len(s) /\ Len(s) \in Nat \ {0}
      BY <1>1, <2>1, LenProperties
    <2> HIDE DEF g
    <2>3. DOMAIN g = (1 .. Len(s)) \ {Len(s)}
      BY <2>1, <2>2
    <2> QED
      BY <2>1, <2>2, <2>3 DEF g
  <1>5. ASSUME NEW u, NEW i
        PROVE  <<u, i>> \in Resolves' <=>
                  <<u, i>> \in Resolves \ {<<t, Len(frames[t])>>}
    <2>1. CASE u = t
      BY <1>3, <1>4, <2>1, ResolvesMember, ResolvesMemberNext
    <2>2. CASE u # t
      BY <1>3, <2>2, ResolvesMember, ResolvesMemberNext
    <2> QED
      BY <2>1, <2>2
  <1>6. Resolves' = Resolves \ {<<t, Len(frames[t])>>}
    <2> DEFINE R == Resolves \ {<<t, Len(frames[t])>>}
    <2>1. \A r \in R : r = <<r[1], r[2]>>
      BY ResolvesMember
    <2>2. \A u, i : <<u, i>> \in Resolves' <=> <<u, i>> \in R
      BY <1>5
    <2> HIDE DEF R
    <2>3. Resolves' = R
      BY <2>1, <2>2, ResolvesMemberNext, SamePairs
    <2> QED
      BY <2>3 DEF R
  <1> QED
    BY <1>1, <1>2, <1>4, <1>6, ResolvesMember

\* Pushing a frame adds it to Resolves, if it is a call of resolve().
LEMMA PushesFrame ==
    ASSUME TypeOK, NEW t \in Tasks, NEW f \in Frame, Pushes(t, f)
    PROVE  /\ frames' \in [Tasks -> Seq(Frame)]
           /\ f.op # "resolve" => Resolves' = Resolves
           /\ f.op = "resolve" => /\ Resolves' = Resolves \cup {<<t, Len(frames[t]) + 1>>}
                                  /\ <<t, Len(frames[t]) + 1>> \notin Resolves
  <1> DEFINE s == frames[t]
             n == Len(s)
             g == Append(s, f)
             R == Resolves \cup {<<t, n + 1>>}
  <1>1. frames' = [frames EXCEPT ![t] = g] /\ frames \in [Tasks -> Seq(Frame)]
    BY DEF Pushes, TypeOK
  <1>2. s \in Seq(Frame) /\ n \in Nat /\ DOMAIN s = 1 .. n
    BY <1>1, LenProperties
  <1>3. g \in Seq(Frame) /\ Len(g) = n + 1 /\ g[n + 1] = f /\ \A i \in 1 .. n : g[i] = s[i]
    BY <1>2, AppendProperties
  <1> HIDE DEF g
  <1>4. DOMAIN g = DOMAIN s \cup {n + 1} /\ n + 1 \notin DOMAIN s
    <2>1. DOMAIN g = 1 .. n + 1
      BY <1>3, LenProperties
    <2> QED
      BY <1>2, <2>1
  <1>5. frames'[t] = g /\ \A u \in Tasks : u # t => frames'[u] = frames[u]
    BY <1>1
  <1>6. ASSUME NEW u, NEW i
        PROVE  <<u, i>> \in Resolves' <=>
                  \/ <<u, i>> \in Resolves
                  \/ u = t /\ i = n + 1 /\ f.op = "resolve"
    <2>1. CASE u = t
      BY <1>2, <1>3, <1>4, <1>5, <2>1, ResolvesMember, ResolvesMemberNext
    <2>2. CASE u # t
      BY <1>5, <2>2, ResolvesMember, ResolvesMemberNext
    <2> QED
      BY <2>1, <2>2
  <1>7. ASSUME f.op # "resolve" PROVE Resolves' = Resolves
    <2>1. \A u, i : <<u, i>> \in Resolves' <=> <<u, i>> \in Resolves
      BY <1>6, <1>7
    <2> QED
      BY <2>1, ResolvesMember, ResolvesMemberNext, SamePairs
  <1>8. ASSUME f.op = "resolve" PROVE Resolves' = R
    <2>1. \A u, i : <<u, i>> \in Resolves' <=> <<u, i>> \in R
      <3>1. \A u, i : <<u, i>> \in R <=> <<u, i>> \in Resolves \/ (u = t /\ i = n + 1)
        OBVIOUS
      <3> QED
        BY <1>6, <1>8, <3>1
    <2>2. \A r \in R : r = <<r[1], r[2]>>
      BY ResolvesMember
    <2> HIDE DEF R
    <2> QED
      BY <2>1, <2>2, ResolvesMemberNext, SamePairs
  <1> QED
    BY <1>1, <1>3, <1>4, <1>7, <1>8, ResolvesMember

\* Going on to the next parameter changes no call in flight.
LEMMA AdvancesFrame ==
    ASSUME TypeOK, NEW t \in Tasks, frames[t] # << >>, Advances(t)
    PROVE  frames' \in [Tasks -> Seq(Frame)] /\ Resolves' = Resolves
  <1> DEFINE s == frames[t]
             n == Len(s)
             f == [s[n] EXCEPT !.at = @ + 1]
             g == [s EXCEPT ![n] = f]
  <1>1. s \in Seq(Frame) /\ n \in DOMAIN s /\ s[n] \in Frame
    BY TopFrame
  <1>2. f \in Frame /\ f.op = s[n].op
    BY <1>1 DEF Frame
  <1>3. frames' = [frames EXCEPT ![t] = g] /\ frames \in [Tasks -> Seq(Frame)]
    BY DEF Advances, TypeOK
  <1> HIDE DEF f
  <1>4. g \in Seq(Frame) /\ DOMAIN g = DOMAIN s
    BY <1>1, <1>2, ExceptSeq, LenProperties
  <1>5. \A i \in DOMAIN s : g[i].op = s[i].op
    BY <1>1, <1>2
  <1>6. frames'[t] = g /\ \A u \in Tasks : u # t => frames'[u] = frames[u]
    BY <1>3
  <1> HIDE DEF g
  <1>7. \A u, i : <<u, i>> \in Resolves' <=> <<u, i>> \in Resolves
    <2> SUFFICES ASSUME NEW u, NEW i PROVE <<u, i>> \in Resolves' <=> <<u, i>> \in Resolves
      OBVIOUS
    <2>1. CASE u = t
      BY <1>4, <1>5, <1>6, <2>1, ResolvesMember, ResolvesMemberNext
    <2>2. CASE u # t
      BY <1>6, <2>2, ResolvesMember, ResolvesMemberNext
    <2> QED
      BY <2>1, <2>2
  <1>8. Resolves' = Resolves
    BY <1>7, ResolvesMember, ResolvesMemberNext, SamePairs
  <1> QED
    BY <1>3, <1>4, <1>8

-----------------------------------------------------------------------------
\* What the steps do to the resolving stack.

\* A step that touches neither the stack nor the calls in flight.
LEMMA StackKept ==
    ASSUME StackInv, UNCHANGED stack, Resolves' = Resolves
    PROVE  StackInv'
  BY DEF StackInv, StackHasNoDuplicates, StackCountsResolves

\* A call of resolve() starts for a class that is not on the stack.
LEMMA StackPushed ==
    ASSUME TypeOK, StackInv, NEW c \in Classes, ~ OnStack(c), NEW x,
           stack' = Append(stack, c), Resolves' = Resolves \cup {x}, x \notin Resolves
    PROVE  StackInv' /\ stack' \in Seq(Classes)
  <1>1. stack \in Seq(Classes) /\ IsInjective(stack)
    BY DEF TypeOK, StackInv, StackHasNoDuplicates
  <1>2. IsInjective(stack')
    BY <1>1, AppendKeepsInjective DEF OnStack
  <1>3. stack' \in Seq(Classes) /\ Len(stack') = Len(stack) + 1
    BY <1>1, AppendProperties
  <1>4. IsFiniteSet(Resolves') /\ Cardinality(Resolves') = Cardinality(Resolves) + 1
    BY FS_AddElement DEF StackInv
  <1> QED
    BY <1>2, <1>3, <1>4 DEF StackInv, StackHasNoDuplicates, StackCountsResolves

\* A call of resolve() ends, and some entry leaves the stack.
LEMMA StackPopped ==
    ASSUME TypeOK, StackInv, NEW x \in Resolves,
           stack' = Front(stack), Resolves' = Resolves \ {x}
    PROVE  StackInv' /\ stack' \in Seq(Classes)
  <1>1. stack \in Seq(Classes) /\ IsInjective(stack) /\ Len(stack) = Cardinality(Resolves)
    BY DEF TypeOK, StackInv, StackHasNoDuplicates, StackCountsResolves
  <1>2. stack # << >>
    BY <1>1, FS_EmptySet, EmptySeq DEF StackInv
  <1>3. IsInjective(stack') /\ stack' \in Seq(Classes) /\ Len(stack') = Len(stack) - 1
    BY <1>1, <1>2, FrontLast, FrontKeepsInjective
  <1>4. IsFiniteSet(Resolves') /\ Cardinality(Resolves') = Cardinality(Resolves) - 1
    BY FS_RemoveElement DEF StackInv
  <1> QED
    BY <1>1, <1>3, <1>4 DEF StackInv, StackHasNoDuplicates, StackCountsResolves

-----------------------------------------------------------------------------
\* The invariant.

\* The empty container with idle tasks satisfies it.
LEMMA InitInv == Init => IInv
<1> SUFFICES ASSUME Init PROVE IInv
  OBVIOUS
<1>1. TypeOK
  BY BoundAssumption DEF Init, TypeOK, Sig, Signal
<1>2. Resolves = {}
  <2>1. \A r \in Resolves : FALSE
    BY ResolvesMember DEF Init
  <2> QED
    BY <2>1
<1>3. IsInjective(<< >>) /\ Len(<< >>) = 0
  BY DEF IsInjective
<1> QED
  BY <1>1, <1>2, <1>3, FS_EmptySet DEF Init, IInv, StackInv, StackHasNoDuplicates,
     StackCountsResolves

\* What the other variables are after a step of a task.
LEMMA TaskTypes ==
    ASSUME TypeOK, NEW t \in Tasks, NEW s \in Signal, Signals(t, s)
    PROVE  signal' \in [Tasks -> Signal]
  BY DEF TypeOK, Signals

\* The binding make() found, and what it holds.
LEMMA FoundBinding ==
    ASSUME TypeOK, NEW k \in Keys, bindings[k] # 0
    PROVE  /\ bindings[k] \in DOMAIN heap /\ bindings[k] \in Nat
           /\ heap[bindings[k]] \in Binding
  BY LenProperties, ElementOfSeq DEF TypeOK

\* The steps of a task preserve the invariant.
LEMMA TaskStepInv ==
    ASSUME IInv, NEW t \in Tasks, TaskStep(t)
    PROVE  IInv'
<1> USE DEF KeepsRegistry, KeepsLoop
<1>0. TypeOK /\ StackInv
  BY DEF IInv
<1>1. CASE \E k \in Keys : MakeCached(t, k)
  <2> PICK k \in Keys : MakeCached(t, k)
    BY <1>1
  <2>1. bindings[k] \in Nat /\ heap[bindings[k]] \in Binding
    BY <1>0, FoundBinding DEF MakeCached
  <2>2. heap[bindings[k]].instance \in Nat
    BY <2>1 DEF Binding
  <2>3. signal' \in [Tasks -> Signal]
    BY <1>0, <2>2, TaskTypes DEF MakeCached, Does, Signal
  <2>4. TypeOK'
    BY <1>0, <2>1, <2>2, <2>3 DEF TypeOK, MakeCached
  <2> QED
    BY <1>0, <2>4, StackKept DEF IInv, MakeCached, Resolves
<1>2. CASE \E k \in Keys : MakeBound(t, k)
  <2> PICK k \in Keys : MakeBound(t, k)
    BY <1>2
  <2> DEFINE f == [op |-> "make", of |-> k, at |-> bindings[k]]
             c == heap[bindings[k]].concrete
             s == Does(IF c \in Classes THEN "resolve" ELSE "call", c)
  <2>1. bindings[k] \in Nat /\ heap[bindings[k]] \in Binding
    BY <1>0, FoundBinding DEF MakeBound
  <2>2. f \in Frame /\ f.op # "resolve"
    BY <2>1 DEF Frame
  <2>3. s \in Signal
    BY <2>1 DEF Binding, Callables, Does, Signal
  <2>4. Pushes(t, f) /\ Signals(t, s) /\ UNCHANGED <<bindings, heap, handed, running, calls, stack, built>>
    BY DEF MakeBound
  <2> HIDE DEF f, s
  <2>5. frames' \in [Tasks -> Seq(Frame)] /\ Resolves' = Resolves
    BY <1>0, <2>2, <2>4, PushesFrame
  <2>6. TypeOK'
    BY <1>0, <2>3, <2>4, <2>5, TaskTypes DEF TypeOK
  <2> QED
    BY <1>0, <2>4, <2>5, <2>6, StackKept DEF IInv
<1>3. CASE \E k \in Keys : MakeUnbound(t, k)
  <2> PICK k \in Keys : MakeUnbound(t, k)
    BY <1>3
  <2>1. signal' \in [Tasks -> Signal]
    BY <1>0, TaskTypes DEF MakeUnbound, Does, Signal, Errors, Caught
  <2>2. TypeOK'
    BY <1>0, <2>1 DEF TypeOK, MakeUnbound
  <2> QED
    BY <1>0, <2>2, StackKept DEF IInv, MakeUnbound, Resolves
<1>4. CASE \E c \in Classes : ResolveCircular(t, c)
  <2> PICK c \in Classes : ResolveCircular(t, c)
    BY <1>4
  <2>1. signal' \in [Tasks -> Signal]
    BY <1>0, TaskTypes DEF ResolveCircular, Does, Signal, Errors
  <2>2. TypeOK'
    BY <1>0, <2>1 DEF TypeOK, ResolveCircular
  <2> QED
    BY <1>0, <2>2, StackKept DEF IInv, ResolveCircular, Resolves
<1>5. CASE \E c \in Classes : ResolveEnter(t, c)
  <2> PICK c \in Classes : ResolveEnter(t, c)
    BY <1>5
  <2> DEFINE f == [op |-> "resolve", of |-> c, at |-> 1]
  <2>1. f \in Frame /\ f.op = "resolve"
    BY DEF Frame
  <2>2. Pushes(t, f) /\ stack' = Append(stack, c) /\ ~ OnStack(c)
        /\ UNCHANGED <<bindings, heap, handed, running, calls, built>>
    BY DEF ResolveEnter
  <2> HIDE DEF f
  <2>3. /\ frames' \in [Tasks -> Seq(Frame)]
        /\ Resolves' = Resolves \cup {<<t, Len(frames[t]) + 1>>}
        /\ <<t, Len(frames[t]) + 1>> \notin Resolves
    BY <1>0, <2>1, <2>2, PushesFrame
  <2>4. StackInv' /\ stack' \in Seq(Classes)
    BY <1>0, <2>2, <2>3, StackPushed
  <2>5. signal' \in [Tasks -> Signal]
    BY <1>0, TaskTypes DEF ResolveEnter, Sig, Signal
  <2> QED
    BY <1>0, <2>2, <2>3, <2>4, <2>5 DEF IInv, TypeOK
<1>6. CASE \E f \in Factories : FactoryEnter(t, f)
  <2> PICK g \in Factories : FactoryEnter(t, g)
    BY <1>6
  <2> DEFINE f == [op |-> "factory", of |-> g, at |-> 1]
  <2>1. f \in Frame /\ f.op # "resolve"
    BY DEF Frame
  <2>2. Pushes(t, f) /\ UNCHANGED <<bindings, heap, handed, running, calls, stack, built>>
    BY DEF FactoryEnter
  <2> HIDE DEF f
  <2>3. frames' \in [Tasks -> Seq(Frame)] /\ Resolves' = Resolves
    BY <1>0, <2>1, <2>2, PushesFrame
  <2>4. signal' \in [Tasks -> Signal]
    BY <1>0, TaskTypes DEF FactoryEnter, Sig, Signal
  <2>5. TypeOK'
    BY <1>0, <2>2, <2>3, <2>4 DEF TypeOK
  <2> QED
    BY <1>0, <2>2, <2>3, <2>5, StackKept DEF IInv
<1>7. CASE AskParam(t)
  <2>1. Top(t) \in Frame /\ Top(t).op \in {"resolve", "factory"}
    BY <1>0, <1>7, TopFrame DEF AskParam, InBody
  <2>2. Top(t).of \in Callables /\ Top(t).at \in Nat \ {0}
    BY <2>1 DEF Frame, Callables
  <2>3. ParamAt(t) \in Param
    BY <1>7, <2>2, NeedsAssumption DEF AskParam, HasParam, ParamAt
  <2>4. signal' \in [Tasks -> Signal]
    BY <1>0, <1>7, <2>3, TaskTypes DEF AskParam, Param, Does, Signal
  <2>5. TypeOK'
    BY <1>0, <1>7, <2>4 DEF TypeOK, AskParam
  <2> QED
    BY <1>0, <1>7, <2>5, StackKept DEF IInv, AskParam, Resolves
<1>8. CASE ParamMade(t) \/ ParamDefault(t)
  <2>1. /\ frames[t] # << >> /\ Advances(t) /\ Signals(t, Sig("go"))
        /\ UNCHANGED <<bindings, heap, handed, running, calls, stack, built>>
    BY <1>8 DEF ParamMade, ParamDefault, InBody
  <2>2. frames' \in [Tasks -> Seq(Frame)] /\ Resolves' = Resolves
    BY <1>0, <2>1, AdvancesFrame
  <2>3. signal' \in [Tasks -> Signal]
    BY <1>0, <2>1, TaskTypes DEF Sig, Signal
  <2>4. TypeOK'
    BY <1>0, <2>1, <2>2, <2>3 DEF TypeOK
  <2> QED
    BY <1>0, <2>1, <2>2, <2>4, StackKept DEF IInv
<1>9. CASE Construct(t) \/ ResolveFails(t)
  <2>1. /\ frames[t] # << >> /\ Top(t).op = "resolve" /\ Pops(t) /\ stack' = Front(stack)
        /\ UNCHANGED <<bindings, heap, handed, running, calls>>
    BY <1>9 DEF Construct, ResolveFails, InBody, LeaveStack
  <2>2. /\ frames' \in [Tasks -> Seq(Frame)]
        /\ Resolves' = Resolves \ {<<t, Len(frames[t])>>}
        /\ <<t, Len(frames[t])>> \in Resolves
    BY <1>0, <2>1, PopsFrame
  <2>3. StackInv' /\ stack' \in Seq(Classes)
    BY <1>0, <2>1, <2>2, StackPopped
  <2>4. signal' \in [Tasks -> Signal] /\ built' \in Nat
    <3>1. signal[t] \in Signal /\ built \in Nat
      BY <1>0 DEF TypeOK
    <3>2. CASE Construct(t)
      BY <1>0, <3>1, <3>2, TaskTypes DEF Construct, Does, Signal
    <3>3. CASE ResolveFails(t)
      BY <1>0, <3>1, <3>3, TaskTypes DEF ResolveFails, Does, Signal, Errors, Caught
    <3> QED
      BY <1>9, <3>2, <3>3
  <2> QED
    BY <1>0, <2>1, <2>2, <2>3, <2>4 DEF IInv, TypeOK
<1>10. CASE FactorySuspends(t)
  <2>1. signal' \in [Tasks -> Signal]
    BY <1>0, <1>10, TaskTypes DEF FactorySuspends, Sig, Signal
  <2>2. TypeOK'
    BY <1>0, <1>10, <2>1 DEF TypeOK, FactorySuspends
  <2> QED
    BY <1>0, <1>10, <2>2, StackKept DEF IInv, FactorySuspends, Resolves
<1>11. CASE FactoryResumes(t)
  <2>1. /\ frames[t] # << >> /\ Top(t).op # "resolve" /\ Pops(t) /\ running' = t
        /\ UNCHANGED <<bindings, heap, handed, stack, calls>>
    BY <1>11 DEF FactoryResumes, InBody
  <2>2. frames' \in [Tasks -> Seq(Frame)] /\ Resolves' = Resolves
    BY <1>0, <2>1, PopsFrame
  <2>3. signal' \in [Tasks -> Signal] /\ built' \in Nat
    <3>1. built \in Nat
      BY <1>0 DEF TypeOK
    <3> QED
      BY <1>0, <1>11, <3>1, TaskTypes DEF FactoryResumes, Does, Signal, Errors
  <2>4. TypeOK'
    BY <1>0, <2>1, <2>2, <2>3 DEF TypeOK
  <2> QED
    BY <1>0, <2>1, <2>2, <2>4, StackKept DEF IInv
<1>12. CASE MakeReturns(t)
  <2> DEFINE b == Top(t).at
             o == signal[t].of
  <2>1. /\ frames[t] # << >> /\ Top(t).op = "make" /\ Pops(t) /\ signal[t].op = "return"
        /\ heap' = Stored(b, o)
        /\ handed' = handed \cup {<<b, o>>} \/ handed' = handed
        /\ UNCHANGED <<bindings, signal, stack, built, running, calls>>
    BY <1>12 DEF MakeReturns, InBody, Doing
  <2>2. frames' \in [Tasks -> Seq(Frame)] /\ Resolves' = Resolves
    BY <1>0, <2>1, PopsFrame
  <2>3. b \in Nat /\ o \in Nat
    <3>1. Top(t) \in Frame
      BY <1>0, <2>1, TopFrame
    <3>2. signal[t] \in Signal
      BY <1>0 DEF TypeOK
    <3> QED
      BY <2>1, <3>1, <3>2 DEF Frame, Signal
  <2>4. heap' \in Seq(Binding) /\ Len(heap') = Len(heap)
    <3> HIDE DEF b, o
    <3>1. heap \in Seq(Binding) /\ Len(heap) \in Nat /\ DOMAIN heap = 1 .. Len(heap)
      BY <1>0, LenProperties DEF TypeOK
    <3>2. CASE b \in DOMAIN heap
      <4> DEFINE new == [heap[b] EXCEPT !.instance = IF heap[b].type = "singleton" THEN o ELSE @]
      <4>1. heap[b] \in Binding
        BY <3>1, <3>2, ElementOfSeq
      <4>2. new \in Binding
        BY <2>3, <4>1 DEF Binding
      <4>3. heap' = [heap EXCEPT ![b] = new]
        BY <2>1 DEF Stored
      <4> HIDE DEF new
      <4>4. heap' \in Seq(Binding) /\ DOMAIN heap' = DOMAIN heap
        BY <3>1, <3>2, <4>2, <4>3, ExceptSeq
      <4> QED
        BY <3>1, <4>4, LenProperties
    <3>3. CASE b \notin DOMAIN heap
      <4>1. DOMAIN heap' = 1 .. Len(heap) /\ \A i \in 1 .. Len(heap) : heap'[i] = heap[i]
        BY <2>1, <3>1, <3>3 DEF Stored
      <4>2. heap' = [i \in 1 .. Len(heap) |-> heap'[i]]
        BY <2>1, <3>1, <4>1 DEF Stored
      <4>3. heap' \in [1 .. Len(heap) -> Binding]
        BY <3>1, <4>1, <4>2, ElementOfSeq
      <4> QED
        BY <3>1, <4>3, IsASeq, LenProperties
    <3> QED
      BY <3>2, <3>3
  <2>5. handed' \subseteq Nat \X Nat
    BY <1>0, <2>1, <2>3 DEF TypeOK
  <2>6. TypeOK'
    BY <1>0, <2>1, <2>2, <2>4, <2>5 DEF TypeOK
  <2> QED
    BY <1>0, <2>1, <2>2, <2>6, StackKept DEF IInv
<1>13. CASE FrameFails(t)
  <2>1. /\ frames[t] # << >> /\ Top(t).op # "resolve" /\ Pops(t)
        /\ UNCHANGED <<bindings, heap, handed, stack, signal, built, running, calls>>
    BY <1>13 DEF FrameFails, InBody
  <2>2. frames' \in [Tasks -> Seq(Frame)] /\ Resolves' = Resolves
    BY <1>0, <2>1, PopsFrame
  <2>3. TypeOK'
    BY <1>0, <2>1, <2>2 DEF TypeOK
  <2> QED
    BY <1>0, <2>1, <2>2, <2>3, StackKept DEF IInv
<1>14. CASE Finish(t)
  <2>1. signal' \in [Tasks -> Signal]
    BY <1>0, <1>14, TaskTypes DEF Finish, Sig, Signal
  <2>2. TypeOK'
    BY <1>0, <1>14, <2>1 DEF TypeOK, Finish
  <2> QED
    BY <1>0, <1>14, <2>2, StackKept DEF IInv, Finish, Resolves
<1> QED
  BY <1>1, <1>2, <1>3, <1>4, <1>5, <1>6, <1>7, <1>8, <1>9, <1>10, <1>11, <1>12,
     <1>13, <1>14 DEF TaskStep

\* A new call of make() preserves the invariant.
LEMMA CallInv ==
    ASSUME IInv, NEW t \in Tasks, NEW k \in Keys, Call(t, k)
    PROVE  IInv'
<1>1. TypeOK /\ StackInv
  BY DEF IInv
<1>2. signal' \in [Tasks -> Signal]
  BY <1>1, TaskTypes DEF Call, Does, Signal
<1>3. TypeOK'
  BY <1>1, <1>2 DEF TypeOK, Call, KeepsRegistry
<1> QED
  BY <1>1, <1>3, StackKept DEF IInv, Call, Resolves

\* The registrations preserve the invariant: they leave the stack alone.
LEMMA RegistrationInv ==
    ASSUME IInv, Registration
    PROVE  IInv'
<1>1. TypeOK /\ StackInv
  BY DEF IInv
<1>2. UNCHANGED <<stack, frames, signal, running, built, calls>>
  BY DEF Registration, Register, Unbind, ForgetInstances, Flush, taskVars
<1>3. StackInv'
  BY <1>1, <1>2, StackKept DEF Resolves
<1>4. heap \in Seq(Binding) /\ Len(heap) \in Nat /\ DOMAIN heap = 1 .. Len(heap)
  BY <1>1, LenProperties DEF TypeOK
<1>5. /\ bindings' \in [Keys -> 0 .. Len(heap')]
      /\ heap' \in Seq(Binding)
      /\ handed' \subseteq Nat \X Nat
  <2>1. CASE \E r \in Registrations : Register(r)
    <3> PICK r \in Registrations : Register(r)
      BY <2>1
    <3> DEFINE new == [concrete |-> r.concrete, type |-> r.type, instance |-> 0]
    <3>1. r.key \in Keys /\ new \in Binding
      BY RegistrationsAssumption DEF Binding
    <3>2. /\ heap' = Append(heap, new) /\ UNCHANGED handed
          /\ bindings' = [bindings EXCEPT ![r.key] = Len(heap) + 1]
      BY DEF Register, NewBinding
    <3> HIDE DEF new
    <3>3. heap' \in Seq(Binding) /\ Len(heap') = Len(heap) + 1
      BY <1>4, <3>1, <3>2, AppendProperties
    <3> QED
      BY <1>1, <1>4, <3>1, <3>2, <3>3 DEF TypeOK
  <2>2. CASE \E k \in Keys : Unbind(k)
    BY <1>1, <1>4, <2>2 DEF TypeOK, Unbind
  <2>3. CASE ForgetInstances
    <3>1. /\ heap' = [b \in 1 .. Len(heap) |->
                IF b \in Registered THEN [heap[b] EXCEPT !.instance = 0] ELSE heap[b]]
          /\ handed' \subseteq handed /\ UNCHANGED bindings
      BY <1>4, <2>3 DEF ForgetInstances
    <3>2. \A b \in 1 .. Len(heap) : heap'[b] \in Binding
      <4> SUFFICES ASSUME NEW b \in 1 .. Len(heap) PROVE heap'[b] \in Binding
        OBVIOUS
      <4>1. heap[b] \in Binding
        BY <1>4, ElementOfSeq
      <4> QED
        BY <3>1, <4>1 DEF Binding
    <3>3. heap' \in [1 .. Len(heap) -> Binding]
      BY <3>1, <3>2
    <3>4. heap' \in Seq(Binding) /\ Len(heap') = Len(heap)
      BY <1>4, <3>3, IsASeq, LenProperties
    <3> QED
      BY <1>1, <3>1, <3>4 DEF TypeOK
  <2>4. CASE Flush
    BY <1>1, <1>4, <2>4 DEF TypeOK, Flush
  <2> QED
    BY <2>1, <2>2, <2>3, <2>4 DEF Registration
<1> QED
  BY <1>1, <1>2, <1>3, <1>5 DEF IInv, TypeOK

-----------------------------------------------------------------------------

\* The invariant holds throughout.
THEOREM Invariance == Spec => []IInv
<1>1. IInv /\ [Next]_vars => IInv'
  <2> SUFFICES ASSUME IInv, [Next]_vars PROVE IInv'
    OBVIOUS
  <2>1. CASE UNCHANGED vars
    <3>1. TypeOK' /\ Resolves' = Resolves /\ UNCHANGED stack
      BY <2>1 DEF IInv, TypeOK, Resolves, vars
    <3> QED
      BY <3>1, StackKept DEF IInv
  <2> QED
    BY <2>1, TaskStepInv, CallInv, RegistrationInv DEF Next
<1> QED
  BY <1>1, InitInv, PTL DEF Spec

\* Type correctness of the container.
THEOREM TypeCorrect == Spec => []TypeOK
<1>1. IInv => TypeOK
  BY DEF IInv
<1> QED
  BY <1>1, Invariance, PTL

\* No class is on the resolving stack twice.
THEOREM NoDuplicates == Spec => []StackHasNoDuplicates
<1>1. IInv => StackHasNoDuplicates
  BY DEF IInv, StackInv
<1> QED
  BY <1>1, Invariance, PTL

\* The resolving stack has one entry per call of resolve() in flight.
THEOREM StackCount == Spec => []StackCountsResolves
<1>1. IInv => StackCountsResolves
  BY DEF IInv, StackInv
<1> QED
  BY <1>1, Invariance, PTL

-----------------------------------------------------------------------------
(* Singletons.  A task that makes a binding is not asked to make it again  *)
(* by what it makes it from, unless a singleton needs itself: the ranks of *)
(* what a task is in the middle of building go down, and strictly so below *)
(* the concrete of a singleton.                                            *)

Shared == {r.concrete : r \in {q \in Registrations : q.type = "singleton"}}

\* What may be built for a parameter, whatever is registered by then.
Targets(p) ==
    IF p.given # NoClass THEN {p.given}
    ELSE (Classes \cap {p.key}) \cup {r.concrete : r \in {q \in Registrations : q.key = p.key}}

Descends(rank) ==
    /\ rank \in [Callables -> Nat]
    /\ \A c \in Callables : \A i \in DOMAIN Needs[c] : \A d \in Targets(Needs[c][i]) :
        rank[d] <= rank[c] /\ (c \in Shared => rank[d] < rank[c])

\* No singleton needs itself, directly or not.
NoSingletonNeedsItself == \E rank : Descends(rank)

Level(rank, h, f) == IF f.op = "make" THEN rank[h[f.at].concrete] ELSE rank[f.of]

\* How the calls in flight of a task stand above each other.
Nested(rank, h, s) ==
    /\ \A i \in DOMAIN s : s[i].op = "make" => s[i].at \in DOMAIN h
    /\ \A i, j \in DOMAIN s : i < j => Level(rank, h, s[j]) <= Level(rank, h, s[i])
    /\ \A i, j \in DOMAIN s :
        i + 1 < j /\ s[i].op = "make" /\ h[s[i].at].type = "singleton"
            => Level(rank, h, s[j]) < Level(rank, h, s[i])
    /\ \A i, j \in DOMAIN s :
        j = i + 1 /\ s[i].op = "make" => s[j].op # "make" /\ s[j].of = h[s[i].at].concrete

Asking(s) ==
    /\ s # << >> /\ Last(s).op \in {"resolve", "factory"}
    /\ Last(s).at <= Len(Needs[Last(s).of])

Asked(s) == Needs[Last(s).of][Last(s).at]

\* What the innermost call may do next.
Expected(h, s, sig) ==
    /\ sig.op = "idle" => s = << >>
    /\ sig.op = "make" /\ s # << >> =>
        Asking(s) /\ Asked(s).given = NoClass /\ Asked(s).key = sig.of
    /\ sig.op = "resolve" /\ s # << >> =>
        \/ Last(s).op = "make" /\ sig.of = h[Last(s).at].concrete
        \/ Asking(s) /\ sig.of \in Targets(Asked(s))
    /\ sig.op = "call" => s # << >> /\ Last(s).op = "make" /\ sig.of = h[Last(s).at].concrete
    /\ sig.op = "return" => sig.of # 0

SharedAreKnown(h) == \A b \in DOMAIN h : h[b].type = "singleton" => h[b].concrete \in Shared

BoundAsRegistered ==
    \A k \in Keys : bindings[k] # 0 =>
        \E r \in Registrations : r.key = k /\ r.concrete = heap[bindings[k]].concrete

ChainInv(rank) ==
    /\ SharedAreKnown(heap)
    /\ BoundAsRegistered
    /\ \A t \in Tasks : Nested(rank, heap, frames[t]) /\ Expected(heap, frames[t], signal[t])

\* An inner call ends.
LEMMA NestedFront ==
    ASSUME NEW rank, NEW h, NEW s \in Seq(Frame), s # << >>, Nested(rank, h, s)
    PROVE  Nested(rank, h, Front(s))
<1>1. DOMAIN Front(s) = 1 .. Len(s) - 1 /\ DOMAIN s = 1 .. Len(s) /\ Len(s) \in Nat \ {0}
  BY FrontLast, LenProperties
<1>2. \A i \in DOMAIN Front(s) : Front(s)[i] = s[i] /\ i \in DOMAIN s
  BY <1>1, FrontLast
<1> QED
  BY <1>2 DEF Nested

\* What a sequence is when a frame is appended.
LEMMA AppendedFrames ==
    ASSUME NEW s \in Seq(Frame), NEW g \in Frame
    PROVE  /\ Len(s) \in Nat /\ DOMAIN s = 1 .. Len(s)
           /\ Append(s, g) \in Seq(Frame) /\ DOMAIN Append(s, g) = DOMAIN s \cup {Len(s) + 1}
           /\ \A i \in DOMAIN s : Append(s, g)[i] = s[i]
           /\ Append(s, g)[Len(s) + 1] = g /\ Append(s, g) # << >>
           /\ Last(Append(s, g)) = g
<1>1. Len(s) \in Nat /\ DOMAIN s = 1 .. Len(s)
  BY LenProperties
<1>2. /\ Append(s, g) \in Seq(Frame) /\ Len(Append(s, g)) = Len(s) + 1
      /\ \A i \in 1 .. Len(s) : Append(s, g)[i] = s[i]
      /\ Append(s, g)[Len(s) + 1] = g
  BY <1>1, AppendProperties
<1>3. DOMAIN Append(s, g) = 1 .. Len(s) + 1
  BY <1>1, <1>2, LenProperties
<1> QED
  BY <1>1, <1>2, <1>3, EmptySeq DEF Last

\* The last frame of a task.
LEMMA LastFrame ==
    ASSUME NEW s \in Seq(Frame), s # << >>
    PROVE  Last(s) = s[Len(s)] /\ Len(s) \in DOMAIN s /\ Last(s) \in Frame
  BY FrontLast, LenProperties DEF Last

\* An inner call starts: what it builds is what make() asked for, or what a
\* parameter asked for.
LEMMA NestedAppend ==
    ASSUME NEW rank, Descends(rank), NEW h, SharedAreKnown(h),
           NEW s \in Seq(Frame), NEW g \in Frame, Nested(rank, h, s),
           \A b \in DOMAIN h : h[b].concrete \in Callables,
           g.op = "make" => g.at \in DOMAIN h,
           s # << >> =>
               \/ Last(s).op = "make" /\ g.op # "make" /\ g.of = h[Last(s).at].concrete
               \/ Asking(s) /\ IF g.op = "make" THEN h[g.at].concrete \in Targets(Asked(s))
                               ELSE g.of \in Targets(Asked(s))
    PROVE  Nested(rank, h, Append(s, g))
<1> DEFINE n == Len(s)
           L(f) == Level(rank, h, f)
<1>1. n \in Nat /\ DOMAIN s = 1 .. n
  BY AppendedFrames
<1>2. CASE s = << >>
  <2>1. DOMAIN Append(s, g) = {1} /\ Append(s, g)[1] = g
    BY <1>2, AppendedFrames, EmptySeq
  <2> QED
    BY <2>1 DEF Nested
<1>3. CASE s # << >>
  <2>1. n \in DOMAIN s /\ Last(s) = s[n] /\ Last(s) \in Frame
    BY <1>3, LastFrame
  <2>2. \A i \in DOMAIN s : L(s[i]) \in Nat
    <3> SUFFICES ASSUME NEW i \in DOMAIN s PROVE L(s[i]) \in Nat
      OBVIOUS
    <3>1. s[i] \in Frame
      BY ElementOfSeq, <1>1
    <3>2. s[i].op = "make" => s[i].at \in DOMAIN h
      BY DEF Nested
    <3>3. s[i].op # "make" => s[i].of \in Callables
      BY <3>1 DEF Frame, Callables
    <3> QED
      BY <3>2, <3>3 DEF Level, Descends
  <2>3. L(g) \in Nat
    <3>1. g.op # "make" => g.of \in Callables
      BY DEF Frame, Callables
    <3> QED
      BY <3>1 DEF Level, Descends
  <2>4. L(g) <= L(s[n])
    <3>1. CASE Last(s).op = "make" /\ g.op # "make" /\ g.of = h[Last(s).at].concrete
      BY <2>1, <2>3, <3>1 DEF Level
    <3>2. CASE Asking(s) /\ IF g.op = "make" THEN h[g.at].concrete \in Targets(Asked(s))
                            ELSE g.of \in Targets(Asked(s))
      <4>1. Last(s).of \in Callables /\ Last(s).at \in DOMAIN Needs[Last(s).of]
        BY <2>1, <3>2, NeedsAssumption DEF Asking, Frame, Callables
      <4>2. \A d \in Targets(Asked(s)) : rank[d] <= rank[Last(s).of]
        BY <4>1 DEF Descends, Asked
      <4> QED
        BY <2>1, <3>2, <4>2 DEF Level, Asking
    <3> QED
      BY <1>3, <3>1, <3>2
  <2>5. s[n].op # "make" /\ s[n].of \in Shared => L(g) < L(s[n])
    <3> SUFFICES ASSUME s[n].op # "make", s[n].of \in Shared PROVE L(g) < L(s[n])
      OBVIOUS
    <3>1. Asking(s) /\ IF g.op = "make" THEN h[g.at].concrete \in Targets(Asked(s))
                       ELSE g.of \in Targets(Asked(s))
      BY <1>3, <2>1
    <3>2. Last(s).of \in Callables /\ Last(s).at \in DOMAIN Needs[Last(s).of]
      BY <2>1, <3>1, NeedsAssumption DEF Asking, Frame, Callables
    <3>3. \A d \in Targets(Asked(s)) : rank[d] < rank[Last(s).of]
      BY <2>1, <3>2 DEF Descends, Asked
    <3> QED
      BY <2>1, <3>1, <3>3 DEF Level
  <2>6. \A i \in DOMAIN s : L(g) <= L(s[i])
    <3> SUFFICES ASSUME NEW i \in DOMAIN s PROVE L(g) <= L(s[i])
      OBVIOUS
    <3>1. L(s[n]) <= L(s[i])
      BY <1>1, <2>1, <2>2 DEF Nested
    <3> HIDE DEF L
    <3> QED
      BY <2>1, <2>2, <2>3, <2>4, <3>1
  <2>7. \A i \in DOMAIN s : i < n /\ s[i].op = "make" /\ h[s[i].at].type = "singleton"
            => L(g) < L(s[i])
    <3> SUFFICES ASSUME NEW i \in DOMAIN s, i < n, s[i].op = "make",
                        h[s[i].at].type = "singleton"
                 PROVE  L(g) < L(s[i])
      OBVIOUS
    <3>1. CASE i + 1 < n
      <4>1. L(s[n]) < L(s[i])
        BY <2>1, <3>1 DEF Nested
      <4> HIDE DEF L
      <4> QED
        BY <2>1, <2>2, <2>3, <2>4, <4>1
    <3>2. CASE i + 1 = n
      <4>1. s[n].op # "make" /\ s[n].of = h[s[i].at].concrete
        BY <2>1, <3>2 DEF Nested
      <4>2. s[i].at \in DOMAIN h
        BY DEF Nested
      <4>3. s[n].of \in Shared
        BY <4>1, <4>2 DEF SharedAreKnown
      <4>4. L(s[n]) = L(s[i])
        BY <4>1 DEF Level
      <4> HIDE DEF L
      <4> QED
        BY <2>5, <4>1, <4>3, <4>4
    <3> QED
      BY <1>1, <3>1, <3>2
  <2>8. s[n].op = "make" => g.op # "make" /\ g.of = h[s[n].at].concrete
    BY <1>3, <2>1 DEF Asking
  <2> DEFINE a == Append(s, g)
  <2>9. /\ DOMAIN a = DOMAIN s \cup {n + 1} /\ a[n + 1] = g
        /\ \A i \in DOMAIN s : a[i] = s[i] /\ i <= n
    BY <1>1, AppendedFrames
  <2> HIDE DEF a, n
  <2>10. \A i \in DOMAIN a : a[i].op = "make" => a[i].at \in DOMAIN h
    BY <2>9 DEF Nested
  <2>11. \A i, j \in DOMAIN a : i < j => L(a[j]) <= L(a[i])
    <3> HIDE DEF L
    <3>1. \A i, j \in DOMAIN s : i < j => L(s[j]) <= L(s[i])
      BY DEF Nested, L
    <3> QED
      BY <1>1, <2>6, <2>9, <3>1
  <2>12. \A i, j \in DOMAIN a :
            i + 1 < j /\ a[i].op = "make" /\ h[a[i].at].type = "singleton" => L(a[j]) < L(a[i])
    <3> HIDE DEF L
    <3>1. \A i, j \in DOMAIN s :
            i + 1 < j /\ s[i].op = "make" /\ h[s[i].at].type = "singleton" => L(s[j]) < L(s[i])
      BY DEF Nested, L
    <3> QED
      BY <1>1, <2>7, <2>9, <3>1
  <2>13. \A i, j \in DOMAIN a :
            j = i + 1 /\ a[i].op = "make" => a[j].op # "make" /\ a[j].of = h[a[i].at].concrete
    <3>1. \A i, j \in DOMAIN s :
            j = i + 1 /\ s[i].op = "make" => s[j].op # "make" /\ s[j].of = h[s[i].at].concrete
      BY DEF Nested
    <3> QED
      BY <1>1, <2>8, <2>9, <3>1
  <2> QED
    BY <2>10, <2>11, <2>12, <2>13 DEF Nested, a
<1> QED
  BY <1>2, <1>3

\* A call goes on to its next parameter.
LEMMA NestedAdvances ==
    ASSUME NEW rank, NEW h, NEW s \in Seq(Frame), NEW r, Nested(rank, h, s),
           DOMAIN r = DOMAIN s, \A i \in DOMAIN s : r[i].op = s[i].op /\ r[i].of = s[i].of,
           \A i \in DOMAIN s : s[i].op = "make" => r[i].at = s[i].at
    PROVE  Nested(rank, h, r)
<1> DEFINE L(f) == Level(rank, h, f)
<1>1. \A i \in DOMAIN s : L(r[i]) = L(s[i])
  BY DEF Level
<1> HIDE DEF L
<1>2. \A i \in DOMAIN r : r[i].op = "make" => r[i].at \in DOMAIN h
  BY DEF Nested
<1>3. \A i, j \in DOMAIN r : i < j => L(r[j]) <= L(r[i])
  BY <1>1 DEF Nested, L
<1>4. \A i, j \in DOMAIN r :
        i + 1 < j /\ r[i].op = "make" /\ h[r[i].at].type = "singleton" => L(r[j]) < L(r[i])
  BY <1>1 DEF Nested, L
<1>5. \A i, j \in DOMAIN r :
        j = i + 1 /\ r[i].op = "make" => r[j].op # "make" /\ r[j].of = h[r[i].at].concrete
  BY DEF Nested
<1> QED
  BY <1>2, <1>3, <1>4, <1>5 DEF Nested, L

\* Bindings are added, and their objects change: not what they are for.
Extends(g, h) ==
    \A b \in DOMAIN h : b \in DOMAIN g /\ g[b].concrete = h[b].concrete /\ g[b].type = h[b].type

LEMMA NestedElsewhere ==
    ASSUME NEW rank, NEW h, NEW g, Extends(g, h), NEW s \in Seq(Frame), Nested(rank, h, s)
    PROVE  Nested(rank, g, s)
<1>1. \A i \in DOMAIN s : s[i].op = "make" =>
        s[i].at \in DOMAIN g /\ g[s[i].at].concrete = h[s[i].at].concrete /\ g[s[i].at].type = h[s[i].at].type
  BY DEF Nested, Extends
<1>2. \A i \in DOMAIN s : Level(rank, g, s[i]) = Level(rank, h, s[i])
  BY <1>1 DEF Level
<1> QED
  BY <1>1, <1>2 DEF Nested

LEMMA ExpectedElsewhere ==
    ASSUME NEW h, NEW g, Extends(g, h), NEW s \in Seq(Frame), NEW sig, Expected(h, s, sig),
           s # << >> /\ Last(s).op = "make" => Last(s).at \in DOMAIN h
    PROVE  Expected(g, s, sig)
  BY DEF Expected, Extends

\* A step of task t, which leaves the other tasks' calls alone.
LEMMA ChainTask ==
    ASSUME NEW rank, TypeOK, ChainInv(rank), NEW t \in Tasks,
           Extends(heap', heap), SharedAreKnown(heap'), BoundAsRegistered',
           Nested(rank, heap', frames'[t]), Expected(heap', frames'[t], signal'[t]),
           \A u \in Tasks \ {t} : frames'[u] = frames[u] /\ signal'[u] = signal[u]
    PROVE  ChainInv(rank)'
<1>1. ASSUME NEW u \in Tasks \ {t}
      PROVE  Nested(rank, heap', frames'[u]) /\ Expected(heap', frames'[u], signal'[u])
  <2>1. frames[u] \in Seq(Frame) /\ Nested(rank, heap, frames[u]) /\ Expected(heap, frames[u], signal[u])
    BY DEF TypeOK, ChainInv
  <2>2. frames[u] # << >> /\ Last(frames[u]).op = "make" => Last(frames[u]).at \in DOMAIN heap
    BY <2>1, LastFrame DEF Nested
  <2> QED
    BY <2>1, <2>2, NestedElsewhere, ExpectedElsewhere
<1> QED
  BY <1>1 DEF ChainInv

\* A step that registers nothing.
LEMMA ChainTaskOnly ==
    ASSUME NEW rank, TypeOK, ChainInv(rank), NEW t \in Tasks, UNCHANGED <<bindings, heap>>,
           Nested(rank, heap, frames'[t]), Expected(heap, frames'[t], signal'[t]),
           \A u \in Tasks \ {t} : frames'[u] = frames[u] /\ signal'[u] = signal[u]
    PROVE  ChainInv(rank)'
<1>1. Extends(heap', heap) /\ SharedAreKnown(heap') /\ BoundAsRegistered'
  BY DEF Extends, ChainInv, BoundAsRegistered
<1> QED
  BY <1>1, ChainTask

\* The next parameter of the innermost call.
LEMMA AdvancedFrames ==
    ASSUME TypeOK, NEW t \in Tasks, frames[t] # << >>, Top(t).op \in {"resolve", "factory"}, Advances(t),
           NEW rank, NEW h, Nested(rank, h, frames[t])
    PROVE  /\ Nested(rank, h, frames'[t])
           /\ \A u \in Tasks \ {t} : frames'[u] = frames[u]
<1> DEFINE s == frames[t]
           n == Len(s)
           r == [s EXCEPT ![n].at = @ + 1]
<1>1. s \in Seq(Frame) /\ n \in DOMAIN s /\ Top(t) = s[n]
  BY TopFrame
<1>2. frames' = [frames EXCEPT ![t] = r] /\ DOMAIN frames = Tasks
  BY DEF Advances, TypeOK
<1>3. frames'[t] = r /\ \A u \in Tasks \ {t} : frames'[u] = frames[u]
  BY <1>2
<1>4. DOMAIN r = DOMAIN s /\ \A i \in DOMAIN s \ {n} : r[i] = s[i]
  OBVIOUS
<1>5. r[n] = [s[n] EXCEPT !.at = @ + 1]
  BY <1>1
<1>6. r[n].op = s[n].op /\ r[n].of = s[n].of
  <2>1. s[n] \in Frame
    BY <1>1, ElementOfSeq
  <2> QED
    BY <1>5, <2>1 DEF Frame
<1> HIDE DEF r
<1>7. /\ \A i \in DOMAIN s : r[i].op = s[i].op /\ r[i].of = s[i].of
      /\ \A i \in DOMAIN s : s[i].op = "make" => r[i].at = s[i].at
  BY <1>1, <1>4, <1>6
<1>8. Nested(rank, h, r)
  BY <1>1, <1>4, <1>7, NestedAdvances
<1> QED
  BY <1>3, <1>8

\* The steps of a task keep its calls nested.
LEMMA ChainTaskStep ==
    ASSUME NEW rank, Descends(rank), TypeOK, ChainInv(rank), NEW t \in Tasks, TaskStep(t)
    PROVE  ChainInv(rank)'
<1> USE DEF KeepsRegistry, KeepsLoop
<1> DEFINE s == frames[t]
           sig == signal[t]
<1>0. /\ s \in Seq(Frame) /\ sig \in Signal /\ DOMAIN frames = Tasks /\ DOMAIN signal = Tasks
      /\ Nested(rank, heap, s) /\ Expected(heap, s, sig)
  BY DEF TypeOK, ChainInv
<1>a. SharedAreKnown(heap) /\ \A b \in DOMAIN heap : heap[b].concrete \in Callables
  <2>1. heap \in Seq(Binding) /\ DOMAIN heap = 1 .. Len(heap)
    BY LenProperties DEF TypeOK
  <2>2. \A b \in DOMAIN heap : heap[b] \in Binding
    BY <2>1, ElementOfSeq
  <2> QED
    BY <2>2 DEF ChainInv, Binding
<1>b. ASSUME NEW new, Signals(t, new)
      PROVE  signal'[t] = new /\ \A u \in Tasks \ {t} : signal'[u] = signal[u]
  BY <1>0, <1>b DEF Signals
<1>c. ASSUME NEW g \in Frame, Pushes(t, g)
      PROVE  frames'[t] = Append(s, g) /\ \A u \in Tasks \ {t} : frames'[u] = frames[u]
  BY <1>0, <1>c DEF Pushes
<1>d. ASSUME Pops(t), s # << >>
      PROVE  /\ frames'[t] = Front(s) /\ \A u \in Tasks \ {t} : frames'[u] = frames[u]
             /\ Nested(rank, heap, frames'[t])
  BY <1>0, <1>d, NestedFront DEF Pops
<1>e. \A f : \A o \in {"go", "suspended", "raise"} : \A x : Expected(heap, f, [op |-> o, of |-> x])
  BY DEF Expected
<1>f. \A f : \A x : x # 0 => Expected(heap, f, [op |-> "return", of |-> x])
  BY DEF Expected
<1> USE DEF Sig, Does
<1>1. ASSUME NEW k \in Keys, MakeCached(t, k) PROVE ChainInv(rank)'
  <2>1. /\ Signals(t, [op |-> "return", of |-> heap[bindings[k]].instance])
        /\ heap[bindings[k]].instance # 0 /\ UNCHANGED <<bindings, heap, frames>>
    BY <1>1 DEF MakeCached, IsCached
  <2> QED
    BY <1>0, <1>b, <1>f, <2>1, ChainTaskOnly
<1>2. ASSUME NEW k \in Keys, MakeBound(t, k) PROVE ChainInv(rank)'
  <2> DEFINE b == bindings[k]
             g == [op |-> "make", of |-> k, at |-> b]
             c == heap[b].concrete
             o == IF c \in Classes THEN "resolve" ELSE "call"
  <2>1. /\ Pushes(t, g) /\ Signals(t, [op |-> o, of |-> c])
        /\ sig.op = "make" /\ sig.of = k /\ b # 0 /\ UNCHANGED <<bindings, heap>>
    BY <1>2 DEF MakeBound, Doing
  <2>2. b \in DOMAIN heap /\ b \in Nat
    BY <2>1, FoundBinding
  <2>3. g \in Frame /\ g.op = "make" /\ g.at = b
    BY <2>2 DEF Frame
  <2>4. s # << >> => Asking(s) /\ c \in Targets(Asked(s))
    <3>1. s # << >> => Asking(s) /\ Asked(s).given = NoClass /\ Asked(s).key = k
      BY <1>0, <2>1 DEF Expected
    <3>2. \E r \in Registrations : r.key = k /\ r.concrete = c
      BY <2>1 DEF ChainInv, BoundAsRegistered
    <3> QED
      BY <3>1, <3>2 DEF Targets
  <2> HIDE DEF g
  <2>5. Nested(rank, heap, Append(s, g))
    BY <1>0, <1>a, <2>2, <2>3, <2>4, NestedAppend
  <2>6. Expected(heap, Append(s, g), [op |-> o, of |-> c])
    <3>1. Last(Append(s, g)) = g /\ Append(s, g) # << >>
      BY <1>0, <2>3, AppendedFrames
    <3> QED
      BY <2>3, <3>1 DEF Expected
  <2>7. frames'[t] = Append(s, g) /\ \A u \in Tasks \ {t} : frames'[u] = frames[u]
    BY <1>c, <2>1, <2>3
  <2>8. signal'[t] = [op |-> o, of |-> c] /\ \A u \in Tasks \ {t} : signal'[u] = signal[u]
    BY <1>b, <2>1
  <2> QED
    BY <2>1, <2>5, <2>6, <2>7, <2>8, ChainTaskOnly
<1>3. ASSUME NEW k \in Keys, MakeUnbound(t, k) PROVE ChainInv(rank)'
  <2>1. /\ Signals(t, IF k \in Classes THEN [op |-> "resolve", of |-> k]
                      ELSE [op |-> "raise", of |-> "BindingNotFound"])
        /\ sig.op = "make" /\ sig.of = k /\ UNCHANGED <<bindings, heap, frames>>
    BY <1>3 DEF MakeUnbound, Doing
  <2>2. CASE k \in Classes
    <3>1. s # << >> => Asking(s) /\ k \in Targets(Asked(s))
      BY <1>0, <2>1, <2>2 DEF Expected, Targets
    <3>2. Expected(heap, s, [op |-> "resolve", of |-> k])
      BY <3>1 DEF Expected
    <3> QED
      BY <1>0, <1>b, <2>1, <2>2, <3>2, ChainTaskOnly
  <2>3. CASE k \notin Classes
    BY <1>0, <1>b, <1>e, <2>1, <2>3, ChainTaskOnly
  <2> QED
    BY <2>2, <2>3
<1>4. ASSUME NEW c \in Classes, ResolveCircular(t, c) PROVE ChainInv(rank)'
  <2>1. /\ Signals(t, [op |-> "raise", of |-> "CircularDependency"])
        /\ UNCHANGED <<bindings, heap, frames>>
    BY <1>4 DEF ResolveCircular
  <2> QED
    BY <1>0, <1>b, <1>e, <2>1, ChainTaskOnly
<1>5. ASSUME NEW c \in Callables, NEW g \in Frame, Pushes(t, g), g.op # "make", g.of = c,
             sig.op \in {"resolve", "call"}, sig.of = c, Signals(t, [op |-> "go", of |-> 0]),
             UNCHANGED <<bindings, heap>>
      PROVE  ChainInv(rank)'
  <2>1. s # << >> =>
            \/ Last(s).op = "make" /\ c = heap[Last(s).at].concrete
            \/ Asking(s) /\ c \in Targets(Asked(s))
    BY <1>0, <1>5 DEF Expected
  <2>2. Nested(rank, heap, Append(s, g))
    BY <1>0, <1>a, <1>5, <2>1, NestedAppend
  <2>3. frames'[t] = Append(s, g) /\ \A u \in Tasks \ {t} : frames'[u] = frames[u]
    BY <1>c, <1>5
  <2>4. signal'[t] = [op |-> "go", of |-> 0] /\ \A u \in Tasks \ {t} : signal'[u] = signal[u]
    BY <1>b, <1>5
  <2>5. Expected(heap, Append(s, g), [op |-> "go", of |-> 0])
    BY <1>e
  <2> QED
    BY <1>5, <2>2, <2>3, <2>4, <2>5, ChainTaskOnly
<1>6. ASSUME NEW c \in Classes, ResolveEnter(t, c) PROVE ChainInv(rank)'
  <2> DEFINE g == [op |-> "resolve", of |-> c, at |-> 1]
  <2>1. g \in Frame /\ g.op = "resolve" /\ g.of = c /\ c \in Callables
    BY DEF Frame, Callables
  <2>2. /\ Pushes(t, g) /\ Signals(t, [op |-> "go", of |-> 0]) /\ sig.op = "resolve" /\ sig.of = c
        /\ UNCHANGED <<bindings, heap>>
    BY <1>6 DEF ResolveEnter, Doing
  <2> HIDE DEF g
  <2> QED
    BY <1>5, <2>1, <2>2
<1>7. ASSUME NEW f \in Factories, FactoryEnter(t, f) PROVE ChainInv(rank)'
  <2> DEFINE g == [op |-> "factory", of |-> f, at |-> 1]
  <2>1. g \in Frame /\ g.op = "factory" /\ g.of = f /\ f \in Callables
    BY DEF Frame, Callables
  <2>2. /\ Pushes(t, g) /\ Signals(t, [op |-> "go", of |-> 0]) /\ sig.op = "call" /\ sig.of = f
        /\ UNCHANGED <<bindings, heap>>
    BY <1>7 DEF FactoryEnter, Doing
  <2> HIDE DEF g
  <2> QED
    BY <1>5, <2>1, <2>2
<1>8. ASSUME AskParam(t) PROVE ChainInv(rank)'
  <2>1. /\ Signals(t, IF ParamAt(t).given = NoClass THEN [op |-> "make", of |-> ParamAt(t).key]
                      ELSE [op |-> "resolve", of |-> ParamAt(t).given])
        /\ InBody(t, {"resolve", "factory"}) /\ HasParam(t) /\ UNCHANGED <<bindings, heap, frames>>
    BY <1>8 DEF AskParam
  <2>2. Asking(s) /\ Asked(s) = ParamAt(t)
    BY <2>1 DEF Asking, Asked, ParamAt, HasParam, InBody, Top
  <2>3. CASE ParamAt(t).given = NoClass
    <3>1. Expected(heap, s, [op |-> "make", of |-> ParamAt(t).key])
      BY <2>2, <2>3 DEF Expected
    <3> QED
      BY <1>0, <1>b, <2>1, <2>3, <3>1, ChainTaskOnly
  <2>4. CASE ParamAt(t).given # NoClass
    <3>1. Expected(heap, s, [op |-> "resolve", of |-> ParamAt(t).given])
      BY <2>2, <2>4 DEF Expected, Targets
    <3> QED
      BY <1>0, <1>b, <2>1, <2>4, <3>1, ChainTaskOnly
  <2> QED
    BY <2>3, <2>4
<1>9. ASSUME ParamMade(t) \/ ParamDefault(t) PROVE ChainInv(rank)'
  <2>1. /\ Advances(t) /\ Signals(t, [op |-> "go", of |-> 0]) /\ UNCHANGED <<bindings, heap>>
        /\ s # << >> /\ Top(t).op \in {"resolve", "factory"}
    BY <1>9 DEF ParamMade, ParamDefault, InBody
  <2> QED
    BY <1>0, <1>b, <1>e, <2>1, AdvancedFrames, ChainTaskOnly
<1>10. ASSUME ResolveFails(t) \/ Construct(t) \/ FactoryResumes(t) \/ FrameFails(t)
       PROVE  ChainInv(rank)'
  <2>1. s # << >> /\ Pops(t) /\ UNCHANGED <<bindings, heap>>
    BY <1>10 DEF ResolveFails, Construct, FactoryResumes, FrameFails, InBody
  <2>2. /\ Expected(heap, frames'[t], signal'[t])
        /\ \A u \in Tasks \ {t} : signal'[u] = signal[u]
    <3>1. built + 1 # 0
      BY DEF TypeOK
    <3>2. \E x : sig = [op |-> sig.op, of |-> x]
      BY <1>0 DEF Signal
    <3>3. CASE ResolveFails(t)
      <4>1. \E x : Signals(t, [op |-> "raise", of |-> x])
        BY <3>2, <3>3 DEF ResolveFails, Doing
      <4> QED
        BY <1>b, <1>e, <4>1
    <3>4. CASE Construct(t)
      <4>1. Signals(t, [op |-> "return", of |-> built + 1])
        BY <3>4 DEF Construct
      <4> QED
        BY <1>b, <1>f, <3>1, <4>1
    <3>5. CASE FactoryResumes(t)
      <4>1. \/ Signals(t, [op |-> "return", of |-> built + 1])
            \/ Signals(t, [op |-> "raise", of |-> "FactoryError"])
        BY <3>5 DEF FactoryResumes
      <4> QED
        BY <1>b, <1>e, <1>f, <3>1, <4>1
    <3>6. CASE FrameFails(t)
      <4>1. signal' = signal /\ sig.op = "raise"
        BY <3>6 DEF FrameFails, Doing
      <4> QED
        BY <1>e, <3>2, <4>1
    <3> QED
      BY <1>10, <3>3, <3>4, <3>5, <3>6
  <2> QED
    BY <1>d, <2>1, <2>2, ChainTaskOnly
<1>11. ASSUME FactorySuspends(t) PROVE ChainInv(rank)'
  <2>1. Signals(t, [op |-> "suspended", of |-> 0]) /\ UNCHANGED <<bindings, heap, frames>>
    BY <1>11 DEF FactorySuspends
  <2> QED
    BY <1>0, <1>b, <1>e, <2>1, ChainTaskOnly
<1>12. ASSUME MakeReturns(t) PROVE ChainInv(rank)'
  <2>1. /\ s # << >> /\ Pops(t) /\ UNCHANGED <<bindings, signal>> /\ sig.op = "return"
        /\ heap' = Stored(Top(t).at, sig.of)
    BY <1>12 DEF MakeReturns, InBody, Doing
  <2>2. Extends(heap', heap) /\ DOMAIN heap' = DOMAIN heap
    <3> DEFINE b == Top(t).at
               new == [heap[b] EXCEPT !.instance = IF heap[b].type = "singleton" THEN sig.of ELSE @]
    <3>1. heap' = [heap EXCEPT ![b] = new]
      BY <2>1 DEF Stored
    <3>2. ASSUME b \in DOMAIN heap PROVE new.concrete = heap[b].concrete /\ new.type = heap[b].type
      <4>1. heap[b] \in Binding
        BY <3>2, ElementOfSeq, LenProperties DEF TypeOK
      <4> QED
        BY <4>1 DEF Binding
    <3> HIDE DEF new, b
    <3> QED
      BY <3>1, <3>2 DEF Extends
  <2>3. SharedAreKnown(heap') /\ BoundAsRegistered'
    <3>1. \A k \in Keys : bindings[k] # 0 => bindings[k] \in DOMAIN heap
      BY FoundBinding
    <3> QED
      BY <2>1, <2>2, <3>1 DEF ChainInv, SharedAreKnown, BoundAsRegistered, Extends
  <2>4. Nested(rank, heap', frames'[t])
    <3>1. Front(s) \in Seq(Frame)
      BY <1>0, <2>1, FrontLast
    <3> QED
      BY <1>d, <2>1, <2>2, <3>1, NestedElsewhere
  <2>5. Expected(heap', frames'[t], signal'[t])
    BY <1>0, <2>1 DEF Expected
  <2> QED
    BY <1>d, <2>1, <2>2, <2>3, <2>4, <2>5, ChainTask
<1>13. ASSUME Finish(t) PROVE ChainInv(rank)'
  <2>1. Signals(t, [op |-> "idle", of |-> 0]) /\ s = << >> /\ UNCHANGED <<bindings, heap, frames>>
    BY <1>13 DEF Finish, IsOver
  <2>2. Expected(heap, s, [op |-> "idle", of |-> 0])
    BY <2>1 DEF Expected
  <2> QED
    BY <1>0, <1>b, <2>1, <2>2, ChainTaskOnly
<1> QED
  BY <1>1, <1>2, <1>3, <1>4, <1>6, <1>7, <1>8, <1>9, <1>10, <1>11, <1>12, <1>13 DEF TaskStep

\* A call from outside finds no call of the task in flight.
LEMMA ChainCall ==
    ASSUME NEW rank, TypeOK, ChainInv(rank), NEW t \in Tasks, NEW k \in Keys, Call(t, k)
    PROVE  ChainInv(rank)'
<1>1. /\ signal' = [signal EXCEPT ![t] = [op |-> "make", of |-> k]] /\ DOMAIN signal = Tasks
      /\ signal[t].op = "idle" /\ UNCHANGED <<bindings, heap, frames>>
  BY DEF Call, Signals, Does, Sig, KeepsRegistry, TypeOK
<1>2. frames[t] = << >>
  BY <1>1 DEF ChainInv, Expected
<1>3. Expected(heap, frames[t], [op |-> "make", of |-> k])
  BY <1>2 DEF Expected
<1>4. Nested(rank, heap, frames[t])
  BY DEF ChainInv
<1> QED
  BY <1>1, <1>3, <1>4, ChainTaskOnly

\* Registrations leave the bindings that calls in flight have found.
LEMMA ChainRegistration ==
    ASSUME NEW rank, TypeOK, ChainInv(rank), Registration
    PROVE  ChainInv(rank)'
<1>1. UNCHANGED <<frames, signal>>
  BY DEF Registration, Register, Unbind, ForgetInstances, Flush, taskVars
<1>2. heap \in Seq(Binding) /\ Len(heap) \in Nat /\ DOMAIN heap = 1 .. Len(heap)
  BY LenProperties DEF TypeOK
<1>3. \A b \in DOMAIN heap : heap[b] \in Binding
  BY <1>2, ElementOfSeq
<1>4. \A k \in Keys : bindings[k] # 0 => bindings[k] \in DOMAIN heap
  BY FoundBinding
<1>5. Extends(heap', heap) /\ SharedAreKnown(heap') /\ BoundAsRegistered'
  <2>1. CASE \E r \in Registrations : Register(r)
    <3> PICK r \in Registrations : Register(r)
      BY <2>1
    <3> DEFINE new == [concrete |-> r.concrete, type |-> r.type, instance |-> 0]
    <3>1. new \in Binding /\ r.key \in Keys /\ new.concrete = r.concrete /\ new.type = r.type
      BY RegistrationsAssumption DEF Binding
    <3>2. heap' = Append(heap, new) /\ bindings' = [bindings EXCEPT ![r.key] = Len(heap) + 1]
      BY DEF Register, NewBinding
    <3>3. new.type = "singleton" => new.concrete \in Shared
      BY <3>1 DEF Shared
    <3> HIDE DEF new
    <3>4. /\ DOMAIN heap' = DOMAIN heap \cup {Len(heap) + 1} /\ heap'[Len(heap) + 1] = new
          /\ \A b \in DOMAIN heap : heap'[b] = heap[b]
      <4>1. /\ Len(heap') = Len(heap) + 1 /\ heap' \in Seq(Binding)
            /\ \A i \in 1 .. Len(heap) : heap'[i] = heap[i] /\ heap'[Len(heap) + 1] = new
        BY <1>2, <3>1, <3>2, AppendProperties
      <4>2. heap'[Len(heap) + 1] = new
        BY <1>2, <3>1, <3>2, AppendProperties
      <4>3. DOMAIN heap' = 1 .. Len(heap) + 1
        BY <4>1, LenProperties
      <4> QED
        BY <1>2, <4>1, <4>2, <4>3
    <3>5. SharedAreKnown(heap')
      BY <3>3, <3>4 DEF ChainInv, SharedAreKnown
    <3>6. BoundAsRegistered'
      <4> SUFFICES ASSUME NEW k \in Keys, bindings'[k] # 0
                   PROVE  \E q \in Registrations : q.key = k /\ q.concrete = heap'[bindings'[k]].concrete
        BY DEF BoundAsRegistered
      <4>1. CASE k = r.key
        <5>1. bindings'[k] = Len(heap) + 1
          BY <3>2, <4>1 DEF TypeOK
        <5> QED
          BY <3>1, <3>4, <4>1, <5>1
      <4>2. CASE k # r.key
        <5>1. bindings'[k] = bindings[k]
          BY <3>2, <4>2 DEF TypeOK
        <5> QED
          BY <1>4, <3>4, <5>1 DEF ChainInv, BoundAsRegistered
      <4> QED
        BY <4>1, <4>2
    <3> QED
      BY <3>4, <3>5, <3>6 DEF Extends
  <2>2. CASE (\E k \in Keys : Unbind(k)) \/ Flush
    <3>1. heap' = heap /\ \A k \in Keys : bindings'[k] = 0 \/ bindings'[k] = bindings[k]
      BY <2>2 DEF Unbind, Flush, TypeOK
    <3> QED
      BY <3>1 DEF ChainInv, SharedAreKnown, BoundAsRegistered, Extends
  <2>3. CASE ForgetInstances
    <3>1. bindings' = bindings /\ DOMAIN heap' = DOMAIN heap
      BY <2>3 DEF ForgetInstances
    <3>2. ASSUME NEW b \in DOMAIN heap
          PROVE  heap'[b].concrete = heap[b].concrete /\ heap'[b].type = heap[b].type
      <4>1. heap'[b] = IF b \in Registered THEN [heap[b] EXCEPT !.instance = 0] ELSE heap[b]
        BY <2>3 DEF ForgetInstances
      <4> QED
        BY <1>3, <4>1 DEF Binding
    <3> QED
      BY <1>4, <3>1, <3>2 DEF ChainInv, SharedAreKnown, BoundAsRegistered, Extends
  <2> QED
    BY <2>1, <2>2, <2>3 DEF Registration
<1>6. ASSUME NEW t \in Tasks
      PROVE  Nested(rank, heap', frames[t]) /\ Expected(heap', frames[t], signal[t])
  <2>1. /\ frames[t] \in Seq(Frame) /\ Nested(rank, heap, frames[t])
        /\ Expected(heap, frames[t], signal[t])
    BY DEF TypeOK, ChainInv
  <2>2. frames[t] # << >> /\ Last(frames[t]).op = "make" => Last(frames[t]).at \in DOMAIN heap
    BY <2>1, LastFrame DEF Nested
  <2> QED
    BY <1>5, <2>1, <2>2, NestedElsewhere, ExpectedElsewhere
<1> QED
  BY <1>1, <1>5, <1>6 DEF ChainInv

-----------------------------------------------------------------------------
\* The objects that make() returned for a binding, and the tasks that make one.

Handed(b) == {h \in handed : h[1] = b}

MadeBy(b) ==
    /\ heap[b].instance = 0 => Handed(b) = {}
    /\ heap[b].instance # 0 => <<b, heap[b].instance>> \in handed
    /\ IsFiniteSet(Handed(b))
    /\ Cardinality(Handed(b)) + Cardinality(MakesOf(b)) <= Cardinality(Tasks)

CountInv ==
    /\ \A h \in handed : h[1] \in DOMAIN heap
    /\ \A b \in DOMAIN heap : heap[b].type = "singleton" => MadeBy(b)
    /\ \A b \in DOMAIN heap : heap[b].type # "singleton" => Handed(b) = {}

\* The tasks that make a binding are tasks.
LEMMA MakesAreTasks ==
    /\ IsFiniteSet(Tasks)
    /\ \A S \in SUBSET Tasks : IsFiniteSet(S) /\ Cardinality(S) \in Nat
    /\ \A S \in SUBSET Tasks : Cardinality(S) <= Cardinality(Tasks)
    /\ \A S, T \in SUBSET Tasks : S \subseteq T => Cardinality(S) <= Cardinality(T)
    /\ \A b : MakesOf(b) \in SUBSET Tasks
<1>1. IsFiniteSet(Tasks)
  BY FiniteAssumption
<1>2. \A S \in SUBSET Tasks : IsFiniteSet(S) /\ Cardinality(S) \in Nat
  BY <1>1, FS_Subset, FS_CardinalityType
<1>3. \A S, T \in SUBSET Tasks : S \subseteq T => Cardinality(S) <= Cardinality(T)
  BY <1>2, FS_Subset
<1> QED
  BY <1>1, <1>2, <1>3, FS_Subset DEF MakesOf

\* How a task's calls change what it makes.
LEMMA MakesPush ==
    ASSUME TypeOK, NEW t \in Tasks, NEW g \in Frame, Pushes(t, g)
    PROVE  \A b : MakesOf(b)' \subseteq MakesOf(b) \cup {u \in {t} : g.op = "make" /\ g.at = b}
<1>1. frames[t] \in Seq(Frame) /\ DOMAIN frames = Tasks
  BY DEF TypeOK
<1>2. frames'[t] = Append(frames[t], g) /\ \A u \in Tasks \ {t} : frames'[u] = frames[u]
  BY <1>1 DEF Pushes
<1>3. /\ DOMAIN frames'[t] = DOMAIN frames[t] \cup {Len(frames[t]) + 1}
      /\ \A i \in DOMAIN frames[t] : frames'[t][i] = frames[t][i]
      /\ frames'[t][Len(frames[t]) + 1] = g
  BY <1>1, <1>2, AppendedFrames
<1> QED
  BY <1>2, <1>3 DEF MakesOf

LEMMA MakesPop ==
    ASSUME TypeOK, NEW t \in Tasks, frames[t] # << >>, Pops(t)
    PROVE  /\ \A b : MakesOf(b)' \subseteq MakesOf(b)
           /\ frames'[t] = Front(frames[t])
           /\ \A i \in DOMAIN frames'[t] :
                i < Len(frames[t]) /\ i \in DOMAIN frames[t] /\ frames'[t][i] = frames[t][i]
<1>1. frames[t] \in Seq(Frame) /\ DOMAIN frames = Tasks
  BY DEF TypeOK
<1>2. frames'[t] = Front(frames[t]) /\ \A u \in Tasks \ {t} : frames'[u] = frames[u]
  BY <1>1 DEF Pops
<1>3. DOMAIN Front(frames[t]) = 1 .. Len(frames[t]) - 1 /\ DOMAIN frames[t] = 1 .. Len(frames[t])
      /\ Len(frames[t]) \in Nat \ {0}
  BY <1>1, FrontLast, LenProperties
<1>4. \A i \in DOMAIN frames'[t] :
        i < Len(frames[t]) /\ i \in DOMAIN frames[t] /\ frames'[t][i] = frames[t][i]
  BY <1>1, <1>2, <1>3, FrontLast
<1> QED
  BY <1>2, <1>4 DEF MakesOf

LEMMA MakesAdvance ==
    ASSUME TypeOK, NEW t \in Tasks, frames[t] # << >>, Top(t).op # "make", Advances(t)
    PROVE  \A b : MakesOf(b)' \subseteq MakesOf(b)
<1> DEFINE s == frames[t]
           n == Len(s)
           r == [s EXCEPT ![n].at = @ + 1]
<1>1. s \in Seq(Frame) /\ n \in DOMAIN s /\ Top(t) = s[n] /\ s[n] \in Frame
  BY TopFrame
<1>2. frames'[t] = r /\ \A u \in Tasks \ {t} : frames'[u] = frames[u]
  BY DEF Advances, TypeOK
<1>3. DOMAIN r = DOMAIN s /\ \A i \in DOMAIN s \ {n} : r[i] = s[i]
  OBVIOUS
<1>4. r[n].op = s[n].op
  BY <1>1 DEF Frame
<1> HIDE DEF r
<1>5. \A i \in DOMAIN frames'[t] : i \in DOMAIN s /\ (r[i].op = "make" => r[i] = s[i])
  BY <1>1, <1>2, <1>3, <1>4
<1> QED
  BY <1>2, <1>5 DEF MakesOf

\* A step that hands out nothing and starts to make nothing.
LEMMA CountKept ==
    ASSUME CountInv, UNCHANGED <<heap, handed>>, \A b : MakesOf(b)' \subseteq MakesOf(b)
    PROVE  CountInv'
<1>1. \A b : Handed(b)' = Handed(b)
  BY DEF Handed
<1>2. ASSUME NEW b \in DOMAIN heap, heap[b].type = "singleton" PROVE MadeBy(b)'
  <2>1. /\ IsFiniteSet(Handed(b))
        /\ Cardinality(Handed(b)) + Cardinality(MakesOf(b)) <= Cardinality(Tasks)
    BY <1>2 DEF CountInv, MadeBy
  <2>2. MakesOf(b)' \in SUBSET Tasks /\ MakesOf(b) \in SUBSET Tasks
    BY MakesAreTasks DEF MakesOf
  <2>3. Cardinality(MakesOf(b)') <= Cardinality(MakesOf(b))
    BY <2>2, MakesAreTasks
  <2>4. /\ Cardinality(Handed(b)) \in Nat /\ Cardinality(Tasks) \in Nat
        /\ Cardinality(MakesOf(b)') \in Nat /\ Cardinality(MakesOf(b)) \in Nat
    BY <2>1, <2>2, MakesAreTasks, FS_CardinalityType
  <2>5. Cardinality(Handed(b)) + Cardinality(MakesOf(b)') <= Cardinality(Tasks)
    BY <2>1, <2>3, <2>4
  <2> QED
    BY <1>1, <1>2, <2>1, <2>5 DEF CountInv, MadeBy
<1> QED
  BY <1>1, <1>2 DEF CountInv

\* A binding that nobody was given an object of.
LEMMA MadeByNobody ==
    ASSUME NEW b \in DOMAIN heap', heap'[b].instance = 0, Handed(b)' = {}
    PROVE  MadeBy(b)'
<1>1. MakesOf(b)' \in SUBSET Tasks
  BY DEF MakesOf
<1>2. /\ Cardinality(MakesOf(b)') <= Cardinality(Tasks) /\ Cardinality({}) = 0 /\ IsFiniteSet({})
      /\ Cardinality(MakesOf(b)') \in Nat
  BY <1>1, MakesAreTasks, FS_EmptySet
<1>3. 0 + Cardinality(MakesOf(b)') <= Cardinality(Tasks)
  BY <1>2
<1> QED
  BY <1>2, <1>3 DEF MadeBy

\* make() awaits the binding it found, which holds no object.
LEMMA CountMakeBound ==
    ASSUME TypeOK, CountInv, NEW t \in Tasks, NEW k \in Keys, MakeBound(t, k)
    PROVE  CountInv'
<1> DEFINE a == bindings[k]
           g == [op |-> "make", of |-> k, at |-> a]
<1>1. Pushes(t, g) /\ a # 0 /\ ~ IsCached(a) /\ UNCHANGED <<heap, handed>>
  BY DEF MakeBound, KeepsRegistry
<1>2. a \in DOMAIN heap /\ a \in Nat
  BY <1>1, FoundBinding
<1>3. g \in Frame
  BY <1>2 DEF Frame
<1>4. \A b : b # a => MakesOf(b)' \subseteq MakesOf(b)
  BY <1>1, <1>3, MakesPush
<1>5. \A b : Handed(b)' = Handed(b)
  BY <1>1 DEF Handed
<1>6. ASSUME NEW b \in DOMAIN heap, heap[b].type = "singleton" PROVE MadeBy(b)'
  <2>1. CASE b = a
    <3>1. heap[b].instance = 0
      BY <1>1, <1>6, <2>1 DEF IsCached
    <3>2. Handed(b)' = {}
      BY <1>5, <1>6, <3>1 DEF CountInv, MadeBy
    <3>3. b \in DOMAIN heap' /\ heap'[b].instance = 0
      BY <1>1, <3>1
    <3> QED
      BY <3>2, <3>3, MadeByNobody
  <2>2. CASE b # a
    <3>1. /\ IsFiniteSet(Handed(b))
          /\ Cardinality(Handed(b)) + Cardinality(MakesOf(b)) <= Cardinality(Tasks)
      BY <1>6 DEF CountInv, MadeBy
    <3>2. /\ MakesOf(b)' \in SUBSET Tasks /\ MakesOf(b) \in SUBSET Tasks
          /\ MakesOf(b)' \subseteq MakesOf(b)
      BY <1>4, <2>2, MakesAreTasks DEF MakesOf
    <3>3. Cardinality(MakesOf(b)') <= Cardinality(MakesOf(b))
      BY <3>2, MakesAreTasks
    <3>4. /\ Cardinality(Handed(b)) \in Nat /\ Cardinality(Tasks) \in Nat
          /\ Cardinality(MakesOf(b)') \in Nat /\ Cardinality(MakesOf(b)) \in Nat
      BY <3>1, <3>2, MakesAreTasks, FS_CardinalityType
    <3>5. Cardinality(Handed(b)) + Cardinality(MakesOf(b)') <= Cardinality(Tasks)
      BY <3>1, <3>3, <3>4
    <3> QED
      BY <1>1, <1>5, <1>6, <3>1, <3>5 DEF CountInv, MadeBy
  <2> QED
    BY <2>1, <2>2
<1> QED
  BY <1>1, <1>5, <1>6 DEF CountInv

\* make() stores the object it got and returns it: the task makes the binding
\* no more, since nothing it was in the middle of can have asked for it.
LEMMA CountMakeReturns ==
    ASSUME NEW rank, Descends(rank), TypeOK, ChainInv(rank), CountInv, NEW t \in Tasks, MakeReturns(t)
    PROVE  CountInv'
<1> DEFINE s == frames[t]
           n == Len(s)
<1> PICK a : a = Top(t).at
  OBVIOUS
<1> PICK o : o = signal[t].of
  OBVIOUS
<1>1. /\ s # << >> /\ Top(t).op = "make" /\ Pops(t) /\ signal[t].op = "return"
      /\ heap' = Stored(a, o)
      /\ handed' = IF heap[a].type = "singleton" THEN handed \cup {<<a, o>>} ELSE handed
  BY DEF MakeReturns, InBody, Doing
<1>2. /\ s \in Seq(Frame) /\ n \in DOMAIN s /\ s[n] = Top(t) /\ s[n] \in Frame
      /\ DOMAIN s = 1 .. n /\ n \in Nat
  BY <1>1, TopFrame, LenProperties
<1>3. Nested(rank, heap, s) /\ o # 0
  BY <1>1 DEF ChainInv, Expected
<1>4. a \in DOMAIN heap /\ heap[a] \in Binding /\ a \in Nat
  <2>1. a \in DOMAIN heap
    BY <1>1, <1>2, <1>3 DEF Nested
  <2>2. heap \in Seq(Binding) /\ DOMAIN heap = 1 .. Len(heap) /\ Len(heap) \in Nat
    BY LenProperties DEF TypeOK
  <2> QED
    BY <2>1, <2>2, ElementOfSeq
<1>5. \A b : MakesOf(b)' \subseteq MakesOf(b)
  BY <1>1, MakesPop
<1>6. t \in MakesOf(a)
  BY <1>1, <1>2 DEF MakesOf
<1>7. heap[a].type = "singleton" => t \notin MakesOf(a)'
  <2> SUFFICES ASSUME heap[a].type = "singleton", t \in MakesOf(a)' PROVE FALSE
    OBVIOUS
  <2>1. PICK i \in DOMAIN frames'[t] : frames'[t][i].op = "make" /\ frames'[t][i].at = a
    BY DEF MakesOf
  <2>2. i \in DOMAIN s /\ i < n /\ s[i].op = "make" /\ s[i].at = a
    BY <1>1, <2>1, MakesPop
  <2>3. s[n].op = "make"
    BY <1>1, <1>2
  <2>4. i + 1 # n
    BY <1>2, <1>3, <2>2, <2>3 DEF Nested
  <2>5. i + 1 < n
    BY <1>2, <2>2, <2>4
  <2>6. Level(rank, heap, s[n]) < Level(rank, heap, s[i])
    BY <1>2, <1>3, <2>2, <2>5 DEF Nested
  <2>7. /\ Level(rank, heap, s[n]) = rank[heap[a].concrete]
        /\ Level(rank, heap, s[i]) = rank[heap[a].concrete]
    BY <1>2, <2>2, <2>3 DEF Level
  <2>8. rank[heap[a].concrete] \in Nat
    BY <1>4 DEF Binding, Descends
  <2> QED
    BY <2>6, <2>7, <2>8
<1> DEFINE new == [heap[a] EXCEPT !.instance = IF heap[a].type = "singleton" THEN o ELSE @]
<1>8. heap' = [heap EXCEPT ![a] = new]
  BY <1>1 DEF Stored
<1>9. /\ new.type = heap[a].type
      /\ new.instance = IF heap[a].type = "singleton" THEN o ELSE heap[a].instance
  BY <1>4 DEF Binding
<1> HIDE DEF new, s, n
<1>10. /\ DOMAIN heap' = DOMAIN heap /\ heap'[a] = new
       /\ \A b \in DOMAIN heap : b # a => heap'[b] = heap[b]
  BY <1>4, <1>8
<1>11. \A b : b # a => Handed(b)' = Handed(b)
  BY <1>1 DEF Handed
<1>12. ASSUME NEW b \in DOMAIN heap', heap'[b].type = "singleton" PROVE MadeBy(b)'
  <2>0. b \in DOMAIN heap /\ heap[b].type = "singleton" /\ MadeBy(b)
    BY <1>9, <1>10, <1>12 DEF CountInv
  <2>1. /\ IsFiniteSet(Handed(b))
        /\ Cardinality(Handed(b)) + Cardinality(MakesOf(b)) <= Cardinality(Tasks)
    BY <2>0 DEF MadeBy
  <2>2. MakesOf(b)' \in SUBSET Tasks /\ MakesOf(b) \in SUBSET Tasks
    BY MakesAreTasks DEF MakesOf
  <2>3. /\ Cardinality(Handed(b)) \in Nat /\ Cardinality(Tasks) \in Nat
        /\ Cardinality(MakesOf(b)') \in Nat /\ Cardinality(MakesOf(b)) \in Nat
    BY <2>1, <2>2, MakesAreTasks, FS_CardinalityType
  <2>4. CASE b = a
    <3>0. handed' = handed \cup {<<a, o>>}
      BY <1>1, <2>0, <2>4
    <3>1. Handed(b)' = Handed(b) \cup {<<a, o>>}
      BY <2>4, <3>0 DEF Handed
    <3>2. IsFiniteSet(Handed(b)') /\ Cardinality(Handed(b)') <= Cardinality(Handed(b)) + 1
      <4> HIDE DEF Handed
      <4>1. /\ IsFiniteSet(Handed(b) \cup {<<a, o>>})
            /\ \/ Cardinality(Handed(b) \cup {<<a, o>>}) = Cardinality(Handed(b))
               \/ Cardinality(Handed(b) \cup {<<a, o>>}) = Cardinality(Handed(b)) + 1
        BY <2>1, FS_AddElement
      <4> QED
        BY <2>3, <3>1, <4>1
    <3>3. MakesOf(b)' \subseteq MakesOf(b) \ {t} /\ MakesOf(b) \ {t} \in SUBSET Tasks
      BY <1>5, <1>7, <2>0, <2>2, <2>4
    <3>4. Cardinality(MakesOf(b) \ {t}) = Cardinality(MakesOf(b)) - 1
      BY <1>6, <2>2, <2>4, MakesAreTasks, FS_RemoveElement
    <3>5. Cardinality(MakesOf(b)') <= Cardinality(MakesOf(b)) - 1
      BY <2>2, <3>3, <3>4, MakesAreTasks
    <3>6. Cardinality(Handed(b)') \in Nat
      BY <3>2, FS_CardinalityType
    <3>7. Cardinality(Handed(b)') + Cardinality(MakesOf(b)') <= Cardinality(Tasks)
      BY <2>1, <2>3, <3>2, <3>5, <3>6
    <3>8. heap'[b].instance = o /\ <<b, o>> \in handed'
      BY <1>1, <1>9, <1>10, <2>0, <2>4
    <3> QED
      BY <1>3, <3>2, <3>7, <3>8 DEF MadeBy
  <2>5. CASE b # a
    <3>1. Cardinality(MakesOf(b)') <= Cardinality(MakesOf(b))
      BY <1>5, <2>2, MakesAreTasks
    <3>2. Cardinality(Handed(b)) + Cardinality(MakesOf(b)') <= Cardinality(Tasks)
      BY <2>1, <2>3, <3>1
    <3>3. heap'[b] = heap[b] /\ Handed(b)' = Handed(b) /\ handed \subseteq handed'
      BY <1>1, <1>10, <1>11, <2>0, <2>5
    <3> QED
      BY <2>0, <2>1, <3>2, <3>3 DEF MadeBy
  <2> QED
    BY <2>4, <2>5
<1>13. \A h \in handed' : h[1] \in DOMAIN heap'
  BY <1>1, <1>4, <1>10 DEF CountInv
<1>14. ASSUME NEW b \in DOMAIN heap', heap'[b].type # "singleton" PROVE Handed(b)' = {}
  <2>1. b \in DOMAIN heap /\ heap[b].type # "singleton"
    BY <1>9, <1>10, <1>14
  <2>2. Handed(b) = {}
    BY <2>1 DEF CountInv
  <2> QED
    BY <1>1, <1>11, <2>1, <2>2 DEF Handed
<1> QED
  BY <1>12, <1>13, <1>14 DEF CountInv

\* The steps of a task.
LEMMA CountTaskStep ==
    ASSUME NEW rank, Descends(rank), TypeOK, ChainInv(rank), CountInv, NEW t \in Tasks, TaskStep(t)
    PROVE  CountInv'
<1> USE DEF KeepsRegistry
<1>1. ASSUME NEW k \in Keys, MakeCached(t, k) PROVE CountInv'
  <2>1. /\ bindings[k] # 0 /\ IsCached(bindings[k]) /\ UNCHANGED <<heap, frames>>
        /\ handed' = handed \cup {<<bindings[k], heap[bindings[k]].instance>>}
    BY <1>1 DEF MakeCached
  <2>2. bindings[k] \in DOMAIN heap
    BY <2>1, FoundBinding
  <2>3. handed' = handed
    BY <2>1, <2>2 DEF IsCached, CountInv, MadeBy
  <2>4. \A b : MakesOf(b)' \subseteq MakesOf(b)
    BY <2>1 DEF MakesOf
  <2> QED
    BY <2>1, <2>3, <2>4, CountKept
<1>2. ASSUME UNCHANGED <<heap, handed, frames>> PROVE CountInv'
  <2>1. \A b : MakesOf(b)' \subseteq MakesOf(b)
    BY <1>2 DEF MakesOf
  <2> QED
    BY <1>2, <2>1, CountKept
<1>3. ASSUME NEW g \in Frame, g.op # "make", Pushes(t, g), UNCHANGED <<heap, handed>> PROVE CountInv'
  <2>1. \A b : MakesOf(b)' \subseteq MakesOf(b)
    BY <1>3, MakesPush
  <2> QED
    BY <1>3, <2>1, CountKept
<1>4. ASSUME NEW c \in Classes, ResolveEnter(t, c) PROVE CountInv'
  <2> DEFINE g == [op |-> "resolve", of |-> c, at |-> 1]
  <2>1. g \in Frame /\ g.op # "make" /\ Pushes(t, g) /\ UNCHANGED <<heap, handed>>
    BY <1>4 DEF ResolveEnter, Frame
  <2> HIDE DEF g
  <2> QED
    BY <1>3, <2>1
<1>5. ASSUME NEW f \in Factories, FactoryEnter(t, f) PROVE CountInv'
  <2> DEFINE g == [op |-> "factory", of |-> f, at |-> 1]
  <2>1. g \in Frame /\ g.op # "make" /\ Pushes(t, g) /\ UNCHANGED <<heap, handed>>
    BY <1>5 DEF FactoryEnter, Frame
  <2> HIDE DEF g
  <2> QED
    BY <1>3, <2>1
<1>6. ASSUME ParamMade(t) \/ ParamDefault(t) PROVE CountInv'
  <2>1. frames[t] # << >> /\ Top(t).op # "make" /\ Advances(t) /\ UNCHANGED <<heap, handed>>
    BY <1>6 DEF ParamMade, ParamDefault, InBody
  <2> QED
    BY <2>1, MakesAdvance, CountKept
<1>7. ASSUME ResolveFails(t) \/ Construct(t) \/ FactoryResumes(t) \/ FrameFails(t) PROVE CountInv'
  <2>1. frames[t] # << >> /\ Pops(t) /\ UNCHANGED <<heap, handed>>
    BY <1>7 DEF ResolveFails, Construct, FactoryResumes, FrameFails, InBody
  <2> QED
    BY <2>1, MakesPop, CountKept
<1>8. ASSUME \/ \E k \in Keys : MakeUnbound(t, k)
             \/ \E c \in Classes : ResolveCircular(t, c)
             \/ AskParam(t) \/ FactorySuspends(t) \/ Finish(t)
      PROVE  CountInv'
  BY <1>2, <1>8 DEF MakeUnbound, ResolveCircular, AskParam, FactorySuspends, Finish
<1> QED
  BY <1>1, <1>4, <1>5, <1>6, <1>7, <1>8, CountMakeBound, CountMakeReturns DEF TaskStep

\* Registrations: a new binding has no object, forgotten ones have none any more.
LEMMA CountRegistration ==
    ASSUME TypeOK, CountInv, Registration
    PROVE  CountInv'
<1>1. UNCHANGED frames /\ \A b : MakesOf(b)' = MakesOf(b)
  BY DEF Registration, Register, Unbind, ForgetInstances, Flush, taskVars, MakesOf
<1>2. heap \in Seq(Binding) /\ Len(heap) \in Nat /\ DOMAIN heap = 1 .. Len(heap)
  BY LenProperties DEF TypeOK
<1>3. CASE \E r \in Registrations : Register(r)
  <2> PICK r \in Registrations : Register(r)
    BY <1>3
  <2> DEFINE new == [concrete |-> r.concrete, type |-> r.type, instance |-> 0]
  <2> PICK n : n = Len(heap) + 1
    OBVIOUS
  <2>1. new \in Binding /\ new.instance = 0
    BY RegistrationsAssumption DEF Binding
  <2>2. heap' = Append(heap, new) /\ handed' = handed
    BY DEF Register
  <2> HIDE DEF new
  <2>3. /\ DOMAIN heap' = DOMAIN heap \cup {n} /\ heap'[n] = new /\ n \notin DOMAIN heap
        /\ \A b \in DOMAIN heap : heap'[b] = heap[b]
    <3>1. /\ Len(heap') = n /\ heap' \in Seq(Binding) /\ heap'[n] = new
          /\ \A i \in 1 .. Len(heap) : heap'[i] = heap[i]
      BY <1>2, <2>1, <2>2, AppendProperties
    <3>2. DOMAIN heap' = 1 .. n
      BY <3>1, LenProperties
    <3> QED
      BY <1>2, <3>1, <3>2
  <2>4. \A b : Handed(b)' = Handed(b)
    BY <2>2 DEF Handed
  <2>5. Handed(n) = {}
    BY <2>3 DEF CountInv, Handed
  <2>6. MadeBy(n)'
    BY <2>1, <2>3, <2>4, <2>5, MadeByNobody
  <2>7. ASSUME NEW b \in DOMAIN heap, MadeBy(b) PROVE MadeBy(b)'
    BY <1>1, <2>2, <2>3, <2>4, <2>7 DEF MadeBy
  <2> QED
    BY <2>2, <2>3, <2>4, <2>5, <2>6, <2>7 DEF CountInv
<1>4. CASE (\E k \in Keys : Unbind(k)) \/ Flush
  <2>1. UNCHANGED <<heap, handed>>
    BY <1>4 DEF Unbind, Flush
  <2> QED
    BY <1>1, <2>1, CountKept
<1>5. CASE ForgetInstances
  <2>1. /\ DOMAIN heap' = DOMAIN heap
        /\ \A b \in DOMAIN heap :
              heap'[b] = IF b \in Registered THEN [heap[b] EXCEPT !.instance = 0] ELSE heap[b]
        /\ handed' = {h \in handed : h[1] \notin Registered}
    BY <1>5 DEF ForgetInstances
  <2>2. \A b \in DOMAIN heap : b \in Registered =>
            heap'[b].instance = 0 /\ heap'[b].type = heap[b].type
    <3> SUFFICES ASSUME NEW b \in DOMAIN heap, b \in Registered
                 PROVE  heap'[b].instance = 0 /\ heap'[b].type = heap[b].type
      OBVIOUS
    <3>1. heap[b] \in Binding
      BY <1>2, ElementOfSeq
    <3> QED
      BY <2>1, <3>1 DEF Binding
  <2>3. \A b : IF b \in Registered THEN Handed(b)' = {} ELSE Handed(b)' = Handed(b)
    BY <2>1 DEF Handed
  <2>4. ASSUME NEW b \in DOMAIN heap, b \in Registered PROVE MadeBy(b)'
    BY <2>1, <2>2, <2>3, <2>4, MadeByNobody
  <2>5. ASSUME NEW b \in DOMAIN heap, b \notin Registered, MadeBy(b) PROVE MadeBy(b)'
    BY <1>1, <2>1, <2>3, <2>5 DEF MadeBy, Handed
  <2>6. \A b \in DOMAIN heap' : heap'[b].type = "singleton" => MadeBy(b)'
    BY <2>1, <2>2, <2>4, <2>5 DEF CountInv
  <2>7. \A b \in DOMAIN heap' : heap'[b].type # "singleton" => Handed(b)' = {}
    BY <2>1, <2>2, <2>3 DEF CountInv
  <2> QED
    BY <2>1, <2>6, <2>7 DEF CountInv
<1> QED
  BY <1>3, <1>4, <1>5 DEF Registration

\* The objects of a binding that were handed out are at most one per task.
LEMMA CountMeans == ASSUME TypeOK, CountInv PROVE SingletonsPerTask
<1> SUFFICES ASSUME NEW b \in DOMAIN heap
             PROVE  Cardinality({h \in handed : h[1] = b} \cup (MakesOf(b) \X {0})) <= Cardinality(Tasks)
  BY DEF SingletonsPerTask
<1> DEFINE H == {h \in handed : h[1] = b}
           M == MakesOf(b)
           P == M \X {0}
<1>1. M \in SUBSET Tasks /\ IsFiniteSet(M) /\ Cardinality(M) \in Nat /\ Cardinality(M) <= Cardinality(Tasks)
      /\ Cardinality(Tasks) \in Nat
  BY MakesAreTasks
<1>2. IsFiniteSet(H) /\ Cardinality(H) \in Nat /\ Cardinality(H) + Cardinality(M) <= Cardinality(Tasks)
  <2>1. CASE heap[b].type = "singleton"
    BY <2>1, FS_CardinalityType DEF CountInv, MadeBy, Handed
  <2>2. CASE heap[b].type # "singleton"
    <3>1. H = {}
      BY <2>2 DEF CountInv, Handed
    <3>2. IsFiniteSet({}) /\ Cardinality({}) = 0
      BY FS_EmptySet
    <3>3. IsFiniteSet(H) /\ Cardinality(H) = 0
      BY <3>1, <3>2
    <3> HIDE DEF H, M
    <3> QED
      BY <1>1, <3>3
  <2> QED
    BY <2>1, <2>2
<1>3. IsFiniteSet(P) /\ Cardinality(P) \in Nat /\ Cardinality(P) <= Cardinality(M)
  <2> DEFINE f == [x \in M |-> <<x, 0>>]
  <2>1. f \in [M -> P] /\ \A x, y \in M : f[x] = f[y] => x = y
    OBVIOUS
  <2>2. \A p \in P : \E x \in M : f[x] = p
    OBVIOUS
  <2> HIDE DEF f, M, P
  <2>3. f \in Surjection(M, P)
    BY <2>1, <2>2 DEF Surjection
  <2>4. IsFiniteSet(M)
    BY <1>1
  <2>5. IsFiniteSet(P) /\ Cardinality(P) <= Cardinality(M)
    BY <2>3, <2>4, FS_Surjection
  <2> QED
    BY <2>5, FS_CardinalityType
<1>4. Cardinality(H \cup P) = Cardinality(H) + Cardinality(P) - Cardinality(H \cap P)
  BY <1>2, <1>3, FS_Union
<1>5. Cardinality(H \cap P) \in Nat
  BY <1>2, FS_Intersection, FS_CardinalityType
<1> HIDE DEF H, M, P
<1> QED
  BY <1>1, <1>2, <1>3, <1>4, <1>5 DEF H, M, P

SingletonInv(rank) == IInv /\ ChainInv(rank) /\ CountInv

\* An empty container has made nothing.
LEMMA SingletonStarts == ASSUME NEW rank, Init PROVE SingletonInv(rank)
<1>1. IInv
  BY InitInv
<1>2. DOMAIN heap = {} /\ handed = {} /\ \A k \in Keys : bindings[k] = 0
  BY DEF Init
<1>3. \A t \in Tasks : frames[t] = << >> /\ signal[t].op = "idle"
  BY DEF Init, Sig
<1>4. \A t \in Tasks : Nested(rank, heap, frames[t]) /\ Expected(heap, frames[t], signal[t])
  BY <1>3 DEF Nested, Expected
<1> QED
  BY <1>1, <1>2, <1>4 DEF SingletonInv, ChainInv, CountInv, SharedAreKnown, BoundAsRegistered

LEMMA SingletonStep ==
    ASSUME NEW rank, Descends(rank), SingletonInv(rank), [Next]_vars
    PROVE  SingletonInv(rank)'
<1>1. IInv /\ TypeOK /\ ChainInv(rank) /\ CountInv
  BY DEF SingletonInv, IInv
<1>2. IInv'
  <2>1. CASE UNCHANGED vars
    <3>1. TypeOK' /\ Resolves' = Resolves /\ UNCHANGED stack
      BY <1>1, <2>1 DEF TypeOK, Resolves, vars
    <3> QED
      BY <1>1, <3>1, StackKept DEF IInv
  <2> QED
    BY <1>1, <2>1, TaskStepInv, CallInv, RegistrationInv DEF Next
<1>3. ChainInv(rank)'
  <2>1. CASE UNCHANGED vars
    BY <1>1, <2>1 DEF vars, ChainInv, BoundAsRegistered
  <2> QED
    BY <1>1, <2>1, ChainTaskStep, ChainCall, ChainRegistration DEF Next
<1>4. CountInv'
  <2>1. ASSUME UNCHANGED <<heap, handed, frames>> PROVE CountInv'
    <3>1. \A b : MakesOf(b)' \subseteq MakesOf(b)
      BY <2>1 DEF MakesOf
    <3> QED
      BY <1>1, <2>1, <3>1, CountKept
  <2>2. CASE UNCHANGED vars
    BY <2>1, <2>2 DEF vars
  <2>3. CASE \E t \in Tasks, k \in Keys : Call(t, k)
    BY <2>1, <2>3 DEF Call, KeepsRegistry
  <2> QED
    BY <1>1, <2>2, <2>3, CountTaskStep, CountRegistration DEF Next
<1> QED
  BY <1>2, <1>3, <1>4 DEF SingletonInv

\* If no singleton needs itself, the objects that were returned for a binding
\* and those being built for it are at most one per task, for any tasks,
\* dependencies and registrations at any time.
THEOREM SingletonsArePerTask == NoSingletonNeedsItself /\ Spec => []SingletonsPerTask
<1> SUFFICES ASSUME NoSingletonNeedsItself PROVE Spec => []SingletonsPerTask
  OBVIOUS
<1> PICK rank : Descends(rank)
  BY DEF NoSingletonNeedsItself
<1>1. Init => SingletonInv(rank)
  BY SingletonStarts
<1>2. SingletonInv(rank) /\ [Next]_vars => SingletonInv(rank)'
  BY SingletonStep
<1>3. SingletonInv(rank) => SingletonsPerTask
  BY CountMeans DEF SingletonInv, IInv
<1> QED
  BY <1>1, <1>2, <1>3, PTL DEF Spec

\* And a task that has the container for itself gets one and the same object of
\* a singleton until it is forgotten.
THEOREM SingletonsAreOne ==
    NoSingletonNeedsItself /\ (\A t, u \in Tasks : t = u) /\ Spec => []SingletonIsOneObject
<1> SUFFICES ASSUME NoSingletonNeedsItself, \A t, u \in Tasks : t = u
             PROVE  Spec => []SingletonIsOneObject
  OBVIOUS
<1> PICK rank : Descends(rank)
  BY DEF NoSingletonNeedsItself
<1>1. Init => SingletonInv(rank)
  BY SingletonStarts
<1>2. SingletonInv(rank) /\ [Next]_vars => SingletonInv(rank)'
  BY SingletonStep
<1>3. Cardinality(Tasks) <= 1
  <2>1. CASE Tasks = {}
    BY <2>1, FS_EmptySet
  <2>2. CASE Tasks # {}
    <3>1. PICK t \in Tasks : Tasks = {t}
      BY <2>2
    <3> QED
      BY <3>1, FS_Singleton
  <2> QED
    BY <2>1, <2>2
<1>4. SingletonInv(rank) => SingletonIsOneObject
  <2> SUFFICES ASSUME SingletonInv(rank), NEW g \in handed, NEW h \in handed, g[1] = h[1] PROVE g = h
    BY DEF SingletonIsOneObject
  <2> DEFINE b == g[1]
  <2>1. b \in DOMAIN heap /\ Handed(b) # {} /\ {g, h} \subseteq Handed(b)
    BY DEF SingletonInv, CountInv, Handed
  <2>2. /\ IsFiniteSet(Handed(b))
        /\ Cardinality(Handed(b)) + Cardinality(MakesOf(b)) <= Cardinality(Tasks)
    BY <2>1 DEF SingletonInv, CountInv, MadeBy
  <2>3. Cardinality(MakesOf(b)) \in Nat /\ Cardinality(Tasks) \in Nat /\ Cardinality(Handed(b)) \in Nat
    BY <2>2, MakesAreTasks, FS_CardinalityType
  <2>4. Cardinality(Handed(b)) # 0
    BY <2>1, <2>2, FS_EmptySet
  <2>5. Cardinality(Handed(b)) = 1
    BY <1>3, <2>2, <2>3, <2>4
  <2>6. PICK x : Handed(b) = {x}
    BY <2>2, <2>5, FS_Singleton
  <2> QED
    BY <2>1, <2>6
<1> QED
  BY <1>1, <1>2, <1>4, PTL DEF Spec

-----------------------------------------------------------------------------
(* One task alone.  Its stack is the classes of its own resolve() calls,   *)
(* in the order of the calls: every pop() takes the entry of the call that *)
(* ends, and what resolve() refuses is a class the task is resolving.      *)

OwnStack(k, s) ==
    /\ \A i \in DOMAIN s : s[i].op = "resolve" => \E j \in DOMAIN k : k[j] = s[i].of
    /\ \A j \in DOMAIN k : \E i \in DOMAIN s : s[i].op = "resolve" /\ s[i].of = k[j]
    /\ \A i, m \in DOMAIN s : \A j, l \in DOMAIN k :
        s[i].op = "resolve" /\ s[m].op = "resolve" /\ k[j] = s[i].of /\ k[l] = s[m].of
            => (i < m => j < l)

AloneInv == \A t \in Tasks : OwnStack(stack, frames[t])

\* The same calls of resolve() have the same stack.
LEMMA OwnKept ==
    ASSUME NEW k, NEW s, NEW z, OwnStack(k, s),
           \A i \in DOMAIN s : s[i].op = "resolve" =>
               i \in DOMAIN z /\ z[i].op = "resolve" /\ z[i].of = s[i].of,
           \A i \in DOMAIN z : z[i].op = "resolve" =>
               i \in DOMAIN s /\ s[i].op = "resolve" /\ s[i].of = z[i].of
    PROVE  OwnStack(k, z)
<1>1. \A i \in DOMAIN z : z[i].op = "resolve" => \E j \in DOMAIN k : k[j] = z[i].of
  BY DEF OwnStack
<1>2. \A j \in DOMAIN k : \E i \in DOMAIN z : z[i].op = "resolve" /\ z[i].of = k[j]
  BY DEF OwnStack
<1>3. ASSUME NEW i \in DOMAIN z, NEW m \in DOMAIN z, NEW j \in DOMAIN k, NEW l \in DOMAIN k,
             z[i].op = "resolve", z[m].op = "resolve", k[j] = z[i].of, k[l] = z[m].of, i < m
      PROVE  j < l
  BY <1>3 DEF OwnStack
<1> QED
  BY <1>1, <1>2, <1>3 DEF OwnStack

\* A call of resolve() starts for a class that is not on the stack.
LEMMA OwnEntered ==
    ASSUME NEW S, NEW k \in Seq(S), NEW s \in Seq(Frame), OwnStack(k, s),
           NEW c \in S, c \notin ToSet(k), NEW f \in Frame, f.op = "resolve", f.of = c
    PROVE  OwnStack(Append(k, c), Append(s, f))
<1> DEFINE p == Append(k, c)
           z == Append(s, f)
           L == Len(k)
           n == Len(s)
<1>1. /\ DOMAIN z = DOMAIN s \cup {n + 1} /\ z[n + 1] = f /\ n \in Nat
      /\ \A i \in DOMAIN s : z[i] = s[i] /\ i < n + 1
  BY AppendProperties, LenProperties
<1>2. /\ DOMAIN p = DOMAIN k \cup {L + 1} /\ p[L + 1] = c /\ L \in Nat
      /\ \A j \in DOMAIN k : p[j] = k[j] /\ j < L + 1
  BY AppendProperties, LenProperties
<1>3. \A j \in DOMAIN k : k[j] # c
  BY DEF ToSet
<1> HIDE DEF p, z
<1>4. ASSUME NEW i \in DOMAIN z, z[i].op = "resolve" PROVE \E j \in DOMAIN p : p[j] = z[i].of
  <2>1. CASE i = n + 1
    BY <1>1, <1>2, <2>1
  <2>2. CASE i # n + 1
    <3>1. i \in DOMAIN s /\ z[i] = s[i]
      BY <1>1, <2>2
    <3>2. PICK j \in DOMAIN k : k[j] = s[i].of
      BY <1>4, <3>1 DEF OwnStack
    <3> QED
      BY <1>2, <3>1, <3>2
  <2> QED
    BY <2>1, <2>2
<1>5. ASSUME NEW j \in DOMAIN p PROVE \E i \in DOMAIN z : z[i].op = "resolve" /\ z[i].of = p[j]
  <2>1. CASE j = L + 1
    BY <1>1, <1>2, <2>1
  <2>2. CASE j # L + 1
    <3>1. j \in DOMAIN k /\ p[j] = k[j]
      BY <1>2, <2>2
    <3>2. PICK i \in DOMAIN s : s[i].op = "resolve" /\ s[i].of = k[j]
      BY <3>1 DEF OwnStack
    <3> QED
      BY <1>1, <3>1, <3>2
  <2> QED
    BY <2>1, <2>2
<1>6. ASSUME NEW i \in DOMAIN z, NEW m \in DOMAIN z, NEW j \in DOMAIN p, NEW l \in DOMAIN p,
             z[i].op = "resolve", z[m].op = "resolve", p[j] = z[i].of, p[l] = z[m].of, i < m
      PROVE  j < l
  <2>0. DOMAIN s = 1 .. n
    BY LenProperties
  <2>1. i \in DOMAIN s /\ z[i] = s[i] /\ s[i].op = "resolve"
    BY <1>1, <1>6, <2>0
  <2>2. PICK q \in DOMAIN k : k[q] = s[i].of
    BY <2>1 DEF OwnStack
  <2>3. j # L + 1
    BY <1>2, <1>3, <1>6, <2>1, <2>2
  <2>4. j \in DOMAIN k /\ k[j] = s[i].of
    BY <1>2, <1>6, <2>1, <2>3
  <2>5. CASE m = n + 1
    <3>1. l = L + 1
      BY <1>1, <1>2, <1>3, <1>6, <2>5
    <3> QED
      BY <1>2, <2>4, <3>1
  <2>6. CASE m # n + 1
    <3>1. m \in DOMAIN s /\ z[m] = s[m]
      BY <1>1, <2>6
    <3>2. PICK r \in DOMAIN k : k[r] = s[m].of
      BY <1>6, <3>1 DEF OwnStack
    <3>3. l \in DOMAIN k /\ k[l] = s[m].of
      BY <1>2, <1>3, <1>6, <3>1, <3>2
    <3> QED
      BY <1>6, <2>1, <2>4, <3>1, <3>3 DEF OwnStack
  <2> QED
    BY <2>5, <2>6
<1>7. OwnStack(p, z)
  BY <1>4, <1>5, <1>6 DEF OwnStack
<1> QED
  BY <1>7 DEF p, z

\* The innermost call is one of resolve() and ends: the last entry is its own.
LEMMA OwnLeft ==
    ASSUME NEW S, NEW k \in Seq(S), NEW s \in Seq(Frame), OwnStack(k, s),
           IsInjective(k), s # << >>, Last(s).op = "resolve"
    PROVE  OwnStack(Front(k), Front(s))
<1> DEFINE p == Front(k)
           z == Front(s)
           L == Len(k)
           n == Len(s)
<1>1. /\ DOMAIN z = 1 .. n - 1 /\ n \in Nat \ {0} /\ DOMAIN s = 1 .. n /\ s[n] = Last(s)
      /\ \A i \in 1 .. n - 1 : z[i] = s[i]
  BY FrontLast, LenProperties DEF Last
<1>2. PICK e \in DOMAIN k : k[e] = s[n].of
  BY <1>1 DEF OwnStack
<1>3. k # << >> /\ L \in Nat \ {0}
  BY <1>2, EmptySeq, LenProperties
<1>4. /\ DOMAIN p = 1 .. L - 1 /\ DOMAIN k = 1 .. L
      /\ \A j \in 1 .. L - 1 : p[j] = k[j]
  BY <1>3, FrontLast, LenProperties
<1> HIDE DEF p, z, L, n
<1>5. n \in DOMAIN s /\ s[n].op = "resolve" /\ L \in DOMAIN k
  BY <1>1, <1>3, <1>4
<1>6. k[L] = s[n].of
  <2>1. PICK i \in DOMAIN s : s[i].op = "resolve" /\ s[i].of = k[L]
    BY <1>5 DEF OwnStack
  <2>2. CASE i = n
    BY <2>1, <2>2
  <2>3. CASE i # n
    <3>1. i < n
      BY <1>1, <2>3
    <3>2. L < e
      BY <1>2, <1>5, <2>1, <3>1 DEF OwnStack
    <3> QED
      BY <1>3, <1>4, <1>2, <3>2
  <2> QED
    BY <2>2, <2>3
<1>7. \A i \in DOMAIN z : z[i].op = "resolve" => \E j \in DOMAIN p : p[j] = z[i].of
  <2> SUFFICES ASSUME NEW i \in DOMAIN z, z[i].op = "resolve" PROVE \E j \in DOMAIN p : p[j] = z[i].of
    OBVIOUS
  <2>1. i \in DOMAIN s /\ i < n /\ s[i] = z[i]
    BY <1>1
  <2>2. PICK j \in DOMAIN k : k[j] = s[i].of
    BY <2>1 DEF OwnStack
  <2>3. j < L
    BY <1>5, <1>6, <2>1, <2>2 DEF OwnStack
  <2>4. j \in DOMAIN p /\ p[j] = k[j]
    BY <1>3, <1>4, <2>3
  <2> QED
    BY <2>1, <2>2, <2>4
<1>8. \A j \in DOMAIN p : \E i \in DOMAIN z : z[i].op = "resolve" /\ z[i].of = p[j]
  <2> SUFFICES ASSUME NEW j \in DOMAIN p PROVE \E i \in DOMAIN z : z[i].op = "resolve" /\ z[i].of = p[j]
    OBVIOUS
  <2>1. j \in DOMAIN k /\ j < L /\ p[j] = k[j]
    BY <1>3, <1>4
  <2>2. PICK i \in DOMAIN s : s[i].op = "resolve" /\ s[i].of = k[j]
    BY <2>1 DEF OwnStack
  <2>3. CASE i # n
    BY <1>1, <2>1, <2>2, <2>3
  <2>4. i # n
    <3> SUFFICES ASSUME i = n PROVE FALSE
      OBVIOUS
    <3>1. k[j] = k[L]
      BY <1>6, <2>2
    <3>2. j = L
      BY <1>5, <2>1, <3>1 DEF IsInjective
    <3> QED
      BY <1>3, <2>1, <3>2
  <2> QED
    BY <2>3, <2>4
<1>9. ASSUME NEW i \in DOMAIN z, NEW m \in DOMAIN z, NEW j \in DOMAIN p, NEW l \in DOMAIN p,
             z[i].op = "resolve", z[m].op = "resolve", p[j] = z[i].of, p[l] = z[m].of, i < m
      PROVE  j < l
  <2>1. i \in DOMAIN s /\ m \in DOMAIN s /\ z[i] = s[i] /\ z[m] = s[m]
    BY <1>1
  <2>2. j \in DOMAIN k /\ l \in DOMAIN k /\ p[j] = k[j] /\ p[l] = k[l]
    BY <1>3, <1>4
  <2> QED
    BY <1>9, <2>1, <2>2 DEF OwnStack
<1>10. OwnStack(p, z)
  BY <1>7, <1>8, <1>9 DEF OwnStack
<1> QED
  BY <1>10 DEF p, z

\* The steps of a task that is alone.
LEMMA AloneTaskStep ==
    ASSUME \A u, v \in Tasks : u = v, IInv, AloneInv, NEW t \in Tasks, TaskStep(t)
    PROVE  AloneInv'
<1> DEFINE s == frames[t]
<1>1. /\ TypeOK /\ IsInjective(stack) /\ stack \in Seq(Classes)
      /\ s \in Seq(Frame) /\ OwnStack(stack, s) /\ DOMAIN frames = Tasks
  BY DEF IInv, TypeOK, StackInv, StackHasNoDuplicates, AloneInv
<1>2. SUFFICES OwnStack(stack', frames'[t])
  BY DEF AloneInv
<1>3. ASSUME UNCHANGED <<stack, frames>> PROVE OwnStack(stack', frames'[t])
  BY <1>1, <1>3
<1>4. ASSUME UNCHANGED stack, NEW f \in Frame, f.op # "resolve", Pushes(t, f)
      PROVE  OwnStack(stack', frames'[t])
  <2>1. frames'[t] = Append(s, f)
    BY <1>1, <1>4 DEF Pushes
  <2>2. /\ DOMAIN frames'[t] = DOMAIN s \cup {Len(s) + 1}
        /\ \A i \in DOMAIN s : frames'[t][i] = s[i]
        /\ frames'[t][Len(s) + 1] = f
    BY <1>1, <2>1, AppendedFrames
  <2>3. OwnStack(stack, frames'[t])
    BY <1>1, <1>4, <2>2, OwnKept
  <2> QED
    BY <1>4, <2>3
<1>5. ASSUME UNCHANGED stack, s # << >>, Top(t).op # "resolve", Pops(t)
      PROVE  OwnStack(stack', frames'[t])
  <2>1. \A i \in DOMAIN frames'[t] :
            i < Len(s) /\ i \in DOMAIN s /\ frames'[t][i] = s[i]
    BY <1>1, <1>5, MakesPop
  <2>2. frames'[t] = Front(s) /\ DOMAIN s = 1 .. Len(s) /\ s[Len(s)] = Top(t)
    BY <1>1, <1>5, MakesPop, TopFrame, LenProperties
  <2>3. DOMAIN frames'[t] = 1 .. Len(s) - 1 /\ Len(s) \in Nat \ {0}
    BY <1>1, <1>5, <2>2, FrontLast, LenProperties
  <2>4. \A i \in DOMAIN s : s[i].op = "resolve" => i \in DOMAIN frames'[t]
    BY <1>5, <2>2, <2>3
  <2>5. OwnStack(stack, frames'[t])
    BY <1>1, <2>1, <2>4, OwnKept
  <2> QED
    BY <1>5, <2>5
<1>6. ASSUME stack' = Front(stack), s # << >>, Top(t).op = "resolve", Pops(t)
      PROVE  OwnStack(stack', frames'[t])
  <2>1. frames'[t] = Front(s) /\ Last(s).op = "resolve"
    BY <1>1, <1>6, MakesPop DEF Top
  <2>2. OwnStack(Front(stack), Front(s))
    BY <1>1, <1>6, <2>1, OwnLeft
  <2> QED
    BY <1>6, <2>1, <2>2
<1>7. ASSUME UNCHANGED stack, s # << >>, Advances(t)
      PROVE  OwnStack(stack', frames'[t])
  <2> DEFINE r == [s EXCEPT ![Len(s)].at = @ + 1]
  <2>1. frames'[t] = r
    BY <1>1, <1>7 DEF Advances
  <2>2. Len(s) \in DOMAIN s /\ s[Len(s)] \in Frame
    BY <1>1, <1>7, TopFrame
  <2>3. DOMAIN r = DOMAIN s /\ \A i \in DOMAIN s \ {Len(s)} : r[i] = s[i]
    OBVIOUS
  <2>4. r[Len(s)].op = s[Len(s)].op /\ r[Len(s)].of = s[Len(s)].of
    BY <2>2 DEF Frame
  <2> HIDE DEF r
  <2>5. \A i \in DOMAIN s : r[i].op = s[i].op /\ r[i].of = s[i].of
    BY <2>3, <2>4
  <2>6. OwnStack(stack, r)
    BY <1>1, <2>3, <2>5, OwnKept
  <2> QED
    BY <1>7, <2>1, <2>6
<1> USE DEF KeepsRegistry, KeepsLoop
<1>8. ASSUME NEW k \in Keys, MakeBound(t, k) PROVE OwnStack(stack', frames'[t])
  <2> DEFINE f == [op |-> "make", of |-> k, at |-> bindings[k]]
  <2>1. f \in Frame /\ f.op # "resolve"
    BY <1>1 DEF Frame, TypeOK
  <2>2. Pushes(t, f) /\ UNCHANGED stack
    BY <1>8 DEF MakeBound
  <2> HIDE DEF f
  <2> QED
    BY <1>4, <2>1, <2>2
<1>9. ASSUME NEW c \in Factories, FactoryEnter(t, c) PROVE OwnStack(stack', frames'[t])
  <2> DEFINE f == [op |-> "factory", of |-> c, at |-> 1]
  <2>1. f \in Frame /\ f.op # "resolve"
    BY DEF Frame
  <2>2. Pushes(t, f) /\ UNCHANGED stack
    BY <1>9 DEF FactoryEnter
  <2> HIDE DEF f
  <2> QED
    BY <1>4, <2>1, <2>2
<1>10. ASSUME NEW c \in Classes, ResolveEnter(t, c) PROVE OwnStack(stack', frames'[t])
  <2> DEFINE f == [op |-> "resolve", of |-> c, at |-> 1]
  <2>1. f \in Frame /\ f.op = "resolve" /\ f.of = c
    BY DEF Frame
  <2>2. Pushes(t, f) /\ stack' = Append(stack, c) /\ c \notin ToSet(stack)
    BY <1>10 DEF ResolveEnter, OnStack
  <2> HIDE DEF f
  <2>3. frames'[t] = Append(s, f)
    BY <1>1, <2>2 DEF Pushes
  <2>4. OwnStack(Append(stack, c), Append(s, f))
    BY <1>1, <2>1, <2>2, OwnEntered
  <2> QED
    BY <2>2, <2>3, <2>4
<1>11. ASSUME ParamMade(t) \/ ParamDefault(t) PROVE OwnStack(stack', frames'[t])
  BY <1>7, <1>11 DEF ParamMade, ParamDefault, InBody
<1>12. ASSUME Construct(t) \/ ResolveFails(t) PROVE OwnStack(stack', frames'[t])
  BY <1>6, <1>12 DEF Construct, ResolveFails, InBody, LeaveStack
<1>13. ASSUME FactoryResumes(t) \/ MakeReturns(t) \/ FrameFails(t) PROVE OwnStack(stack', frames'[t])
  BY <1>5, <1>13 DEF FactoryResumes, MakeReturns, FrameFails, InBody
<1>14. ASSUME \/ \E k \in Keys : MakeCached(t, k) \/ MakeUnbound(t, k)
              \/ \E c \in Classes : ResolveCircular(t, c)
              \/ AskParam(t) \/ FactorySuspends(t) \/ Finish(t)
       PROVE  OwnStack(stack', frames'[t])
  BY <1>3, <1>14 DEF MakeCached, MakeUnbound, ResolveCircular, AskParam, FactorySuspends, Finish
<1> QED
  BY <1>8, <1>9, <1>10, <1>11, <1>12, <1>13, <1>14 DEF TaskStep

\* While one task uses the container, a circular dependency is reported only
\* for a class that task is in the middle of resolving, whatever is registered.
THEOREM CircularIsRealAlone == (\A t, u \in Tasks : t = u) /\ Spec => CircularIsReal
<1> SUFFICES ASSUME \A t, u \in Tasks : t = u PROVE Spec => CircularIsReal
  OBVIOUS
<1>1. Init => AloneInv
  BY DEF Init, AloneInv, OwnStack
<1>2. IInv /\ AloneInv /\ [Next]_vars => AloneInv'
  <2> SUFFICES ASSUME IInv, AloneInv, [Next]_vars PROVE AloneInv'
    OBVIOUS
  <2>1. ASSUME UNCHANGED <<stack, frames>> PROVE AloneInv'
    BY <2>1 DEF AloneInv
  <2>2. CASE UNCHANGED vars
    BY <2>1, <2>2 DEF vars
  <2>3. CASE \E t \in Tasks, k \in Keys : Call(t, k)
    BY <2>1, <2>3 DEF Call
  <2>4. CASE Registration
    BY <2>1, <2>4 DEF Registration, Register, Unbind, ForgetInstances, Flush, taskVars
  <2> QED
    BY <2>2, <2>3, <2>4, AloneTaskStep DEF Next
<1>3. IInv /\ AloneInv => \A t \in Tasks, c \in Classes : ResolveCircular(t, c) => c \in OwnClasses(t)
  <2> SUFFICES ASSUME IInv, AloneInv, NEW t \in Tasks, NEW c \in Classes, ResolveCircular(t, c)
               PROVE  c \in OwnClasses(t)
    OBVIOUS
  <2>1. PICK j \in DOMAIN stack : stack[j] = c
    BY DEF ResolveCircular, OnStack, ToSet
  <2>2. PICK i \in DOMAIN frames[t] : frames[t][i].op = "resolve" /\ frames[t][i].of = stack[j]
    BY DEF AloneInv, OwnStack
  <2> QED
    BY <2>1, <2>2 DEF OwnClasses
<1> QED
  BY <1>1, <1>2, <1>3, Invariance, PTL DEF Spec, CircularIsReal
=============================================================================
