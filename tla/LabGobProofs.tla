------------------------------ MODULE LabGobProofs -----------------------------
(***************************************************************************)
(* Proofs about LabGob, for any types, however they refer to each other,   *)
(* and any number of goroutines.                                           *)
(***************************************************************************)
EXTENDS LabGob, FiniteSetTheorems, SequenceTheorems, TLAPS

\* Zenon is quicker on most steps; what needs arithmetic is left to the solver.
USE ZenonT(10), SMTT(20)

AllTypes == DOMAIN Parts
Frame    == [type : AllTypes, next : Nat]

WalkTypeOK ==
  /\ checked \subseteq AllTypes /\ asked \subseteq AllTypes
  /\ stack \in [Goroutines -> Seq(Frame)]

\* Whoever walks a type has marked it.
Marked ==
  \A g \in Goroutines : \A k \in DOMAIN stack[g] :
    stack[g][k].next > 0 => stack[g][k].type \in checked

\* A call for type t is at part x or has yet to come to it.
Walking(t, x) ==
  \E g \in Goroutines : \E k \in DOMAIN stack[g] :
    stack[g][k].type = t /\ stack[g][k].next > 0 /\ stack[g][k].next <= x

\* Type t is looked at, or will be by a call that has been made.
Awaited(t) ==
  t \in checked \/ \E g \in Goroutines : \E k \in DOMAIN stack[g] : stack[g][k] = Fresh(t)

\* No part of a type that is looked at is forgotten, and no type that was sent.
Kept ==
  /\ \A t \in checked : \A x \in DOMAIN Parts[t] : Walking(t, x) \/ Awaited(Parts[t][x].type)
  /\ \A t \in asked : Awaited(t)

\* Nothing else is looked at.
Sought ==
  /\ checked \subseteq Reachable(asked)
  /\ \A g \in Goroutines : \A k \in DOMAIN stack[g] : stack[g][k].type \in Reachable(asked)

WalkInv == WalkTypeOK /\ Marked /\ WalkedOnce /\ Kept /\ Sought

-----------------------------------------------------------------------------
(* How a step changes the stack of its goroutine                           *)

Others(g) == \A h \in Goroutines \ {g} : stack'[h] = stack[h]

Began(g, t) == stack[g] = <<>> /\ stack'[g] = <<Fresh(t)>>

\* The calls below the innermost stay as they are.
Below(g) == \A k \in 1 .. (Len(stack[g]) - 1) : k \in DOMAIN stack'[g] /\ stack'[g][k] = stack[g][k]

Popped(g) ==
  /\ Below(g) /\ DOMAIN stack'[g] = 1 .. (Len(stack[g]) - 1)
  /\ stack'[g] \in Seq(Frame)

Advanced(g, n) ==
  /\ Below(g) /\ DOMAIN stack[g] \subseteq DOMAIN stack'[g]
  /\ stack'[g][Len(stack[g])] = [type |-> Top(g).type, next |-> n]
  /\ stack'[g] \in Seq(Frame)

\* The types and the parts are what they are assumed to be.
LEMMA PartsFacts ==
  ASSUME NEW t \in AllTypes
  PROVE  /\ Len(Parts[t]) \in Nat /\ DOMAIN Parts[t] = 1 .. Len(Parts[t])
         /\ \A x \in DOMAIN Parts[t] : Parts[t][x].type \in AllTypes /\ Parts[t][x].lower \in BOOLEAN
<1> DEFINE Part == [lower : BOOLEAN, type : AllTypes]
<1>1. Parts[t] \in Seq(Part)
  BY LabGobAssumption DEF AllTypes
<1> HIDE DEF Part
<1>2. Len(Parts[t]) \in Nat /\ DOMAIN Parts[t] = 1 .. Len(Parts[t])
  BY <1>1
<1>3. \A x \in DOMAIN Parts[t] : Parts[t][x] \in Part
  BY <1>1
<1> QED
  BY <1>2, <1>3 DEF Part

\* The innermost call of a goroutine.
LEMMA TopFacts ==
  ASSUME WalkTypeOK, NEW g \in Goroutines, stack[g] # <<>>
  PROVE  /\ stack[g] \in Seq(Frame) /\ Len(stack[g]) \in Nat /\ Len(stack[g]) > 0
         /\ DOMAIN stack[g] = 1 .. Len(stack[g]) /\ Len(stack[g]) \in DOMAIN stack[g]
         /\ Top(g) = stack[g][Len(stack[g])]
         /\ Top(g) \in Frame /\ Top(g).type \in AllTypes /\ Top(g).next \in Nat
<1>1. stack[g] \in Seq(Frame)
  BY DEF WalkTypeOK
<1>2. Len(stack[g]) \in Nat /\ Len(stack[g]) > 0 /\ DOMAIN stack[g] = 1 .. Len(stack[g])
  BY <1>1
<1>3. Len(stack[g]) \in DOMAIN stack[g]
  BY <1>2
<1>4. Top(g) = stack[g][Len(stack[g])]
  BY DEF Top, Last
<1>5. Top(g) \in Frame
  BY <1>1, <1>3, <1>4
<1> QED
  BY <1>1, <1>2, <1>3, <1>4, <1>5 DEF Frame

\* An operation begins with one call (labgob.go:68-70).
LEMMA BeginStack ==
  ASSUME WalkTypeOK, NEW g \in Goroutines, NEW t \in AllTypes, checkValue(g, t)
  PROVE  Others(g) /\ Began(g, t) /\ asked' = asked \cup {t} /\ stack' \in [Goroutines -> Seq(Frame)]
<1>1. Fresh(t) \in Frame
  BY DEF Fresh, Frame
<1>2. <<Fresh(t)>> \in Seq(Frame)
  BY <1>1
<1>3. /\ stack' = [stack EXCEPT ![g] = <<Fresh(t)>>] /\ stack[g] = <<>> /\ asked' = asked \cup {t}
      /\ stack \in [Goroutines -> Seq(Frame)]
  BY DEF checkValue, Idle, WalkTypeOK
<1> QED
  BY <1>2, <1>3 DEF Others, Began

\* A call returns.
LEMMA ReturnStack ==
  ASSUME WalkTypeOK, NEW g \in Goroutines, stack[g] # <<>>, Return(g)
  PROVE  Others(g) /\ Popped(g) /\ stack' \in [Goroutines -> Seq(Frame)]
<1> DEFINE s == stack[g]
           n == Len(s) - 1
<1>1. s \in Seq(Frame) /\ Len(s) \in Nat /\ Len(s) > 0
  BY TopFacts
<1>2. stack' = [stack EXCEPT ![g] = SubSeq(s, 1, n)] /\ stack \in [Goroutines -> Seq(Frame)]
  BY DEF Return, Front, WalkTypeOK
<1> HIDE DEF s
<1>3. /\ SubSeq(s, 1, n) \in Seq(Frame) /\ DOMAIN SubSeq(s, 1, n) = 1 .. n
      /\ \A k \in 1 .. n : SubSeq(s, 1, n)[k] = s[k]
  BY <1>1
<1> HIDE DEF n
<1>4. stack'[g] = SubSeq(s, 1, n) /\ Others(g) /\ stack' \in [Goroutines -> Seq(Frame)]
  BY <1>2, <1>3 DEF Others
<1> QED
  BY <1>3, <1>4 DEF Popped, Below, s, n

\* The innermost call goes on, and may make another.
LEMMA AdvanceStack ==
  ASSUME WalkTypeOK, NEW g \in Goroutines, stack[g] # <<>>, NEW n \in Nat, NEW u \in AllTypes,
         NEW s, s = [stack[g] EXCEPT ![Len(stack[g])].next = n]
  PROVE  /\ stack' = [stack EXCEPT ![g] = s] =>
              /\ Others(g) /\ Advanced(g, n) /\ stack' \in [Goroutines -> Seq(Frame)]
              /\ DOMAIN stack'[g] = DOMAIN stack[g]
         /\ stack' = [stack EXCEPT ![g] = Append(s, Fresh(u))] =>
              /\ Others(g) /\ Advanced(g, n) /\ stack' \in [Goroutines -> Seq(Frame)]
              /\ DOMAIN stack'[g] = 1 .. (Len(stack[g]) + 1)
              /\ stack'[g][Len(stack[g]) + 1] = Fresh(u)
<1> DEFINE q == stack[g]
           f == [type |-> Top(g).type, next |-> n]
           m == Len(q)
<1>1. /\ q \in Seq(Frame) /\ m \in Nat /\ m > 0 /\ DOMAIN q = 1 .. m /\ m \in DOMAIN q
      /\ Top(g) = q[m] /\ Top(g) \in Frame
  BY TopFacts
<1>2. f \in Frame /\ [Top(g) EXCEPT !.next = n] = f
  <2>1. \A w \in Frame : [w EXCEPT !.next = n] = [type |-> w.type, next |-> n] /\ w.type \in AllTypes
    BY DEF Frame
  <2>2. \A t \in AllTypes : [type |-> t, next |-> n] \in Frame
    BY DEF Frame
  <2> QED
    BY <1>1, <2>1, <2>2
<1>3. s = [q EXCEPT ![m] = f]
  BY <1>1, <1>2
<1>4. Fresh(u) \in Frame
  BY DEF Fresh, Frame
<1> HIDE DEF f, q
<1>5. s \in Seq(Frame) /\ DOMAIN s = 1 .. m /\ Len(s) = m /\ s[m] = f /\ \A k \in 1 .. (m - 1) : s[k] = q[k]
  <2>1. DOMAIN s = 1 .. m /\ s[m] = f /\ \A k \in 1 .. m : k # m => s[k] = q[k]
    BY <1>1, <1>3
  <2>2. s \in Seq(Frame) /\ Len(s) = m
    <3>1. \A i \in 1 .. Len(q), e \in Frame :
            [q EXCEPT ![i] = e] \in Seq(Frame) /\ Len([q EXCEPT ![i] = e]) = Len(q)
      BY <1>1, ExceptSeq
    <3>2. m \in 1 .. Len(q) /\ f \in Frame
      BY <1>1, <1>2
    <3>3. [q EXCEPT ![m] = f] \in Seq(Frame) /\ Len([q EXCEPT ![m] = f]) = m
      BY <3>1, <3>2
    <3> QED
      BY <1>3, <3>3
  <2> QED
    BY <1>1, <2>1, <2>2
<1>6. LET a == Append(s, Fresh(u)) IN
      a \in Seq(Frame) /\ DOMAIN a = 1 .. (m + 1) /\ a[m + 1] = Fresh(u) /\ \A k \in 1 .. m : a[k] = s[k]
  BY <1>1, <1>4, <1>5
<1>7. stack \in [Goroutines -> Seq(Frame)]
  BY DEF WalkTypeOK
<1>8. ASSUME NEW a \in Seq(Frame), stack' = [stack EXCEPT ![g] = a], 1 .. m \subseteq DOMAIN a,
             \A k \in 1 .. m : a[k] = s[k]
      PROVE  Others(g) /\ Advanced(g, n) /\ stack' \in [Goroutines -> Seq(Frame)] /\ stack'[g] = a
  <2>1. stack'[g] = a /\ Others(g) /\ stack' \in [Goroutines -> Seq(Frame)]
    BY <1>7, <1>8 DEF Others
  <2>2. \A k \in 1 .. (m - 1) : k \in 1 .. m
    BY <1>1
  <2>3. Below(g)
    BY <1>5, <1>8, <2>1, <2>2 DEF Below, q
  <2>4. a[m] = f
    BY <1>1, <1>5, <1>8
  <2> QED
    BY <1>1, <1>8, <2>1, <2>3, <2>4 DEF Advanced, q, f
<1>9. 1 .. m \subseteq 1 .. (m + 1)
  BY <1>1
<1> QED
  BY <1>1, <1>5, <1>6, <1>8, <1>9 DEF q

-----------------------------------------------------------------------------
(* The types that a set of types is made of                                *)

LEMMA ReachableFacts ==
  ASSUME NEW S \in SUBSET AllTypes
  PROVE  /\ S \subseteq Reachable(S) /\ Reachable(S) \subseteq AllTypes /\ Closed(Reachable(S))
         /\ \A C \in SUBSET AllTypes : S \subseteq C /\ Closed(C) => Reachable(S) \subseteq C
<1>1. S \subseteq Reachable(S) /\ Reachable(S) \subseteq AllTypes
  BY DEF Reachable, AllTypes
<1>2. \A C \in SUBSET AllTypes : S \subseteq C /\ Closed(C) => Reachable(S) \subseteq C
  BY DEF Reachable, AllTypes
<1>3. ASSUME NEW t \in Reachable(S), NEW x \in DOMAIN Parts[t] PROVE Parts[t][x].type \in Reachable(S)
  <2>1. Parts[t][x].type \in AllTypes
    BY <1>1, PartsFacts
  <2>2. ASSUME NEW C \in SUBSET AllTypes, S \subseteq C, Closed(C) PROVE Parts[t][x].type \in C
    BY <1>2, <2>2 DEF Closed
  <2> QED
    BY <2>1, <2>2 DEF Reachable, AllTypes
<1> QED
  BY <1>1, <1>2, <1>3 DEF Closed

LEMMA ReachableMore ==
  ASSUME NEW S \in SUBSET AllTypes, NEW T \in SUBSET AllTypes, S \subseteq T
  PROVE  Reachable(S) \subseteq Reachable(T)
<1>1. S \subseteq Reachable(T) /\ Reachable(T) \in SUBSET AllTypes /\ Closed(Reachable(T))
  BY ReachableFacts
<1> QED
  BY <1>1, ReachableFacts

-----------------------------------------------------------------------------
(* The walk                                                                *)

\* The beginning of an operation.
LEMMA WalkBegin ==
  ASSUME WalkInv, NEW g \in Goroutines, NEW t \in AllTypes, checkValue(g, t), checked' = checked
  PROVE  WalkInv' /\ \A u, x : Walking(u, x)' <=> Walking(u, x)
<1>1. /\ WalkTypeOK /\ Marked /\ WalkedOnce /\ Kept /\ Sought
      /\ Others(g) /\ Began(g, t) /\ asked' = asked \cup {t} /\ stack' \in [Goroutines -> Seq(Frame)]
  BY BeginStack DEF WalkInv
<1>2. WalkTypeOK'
  BY <1>1 DEF WalkTypeOK
<1>3. /\ DOMAIN stack'[g] = {1} /\ stack'[g][1] = Fresh(t) /\ Fresh(t).next = 0 /\ Fresh(t).type = t
      /\ DOMAIN stack[g] = {}
  BY <1>1 DEF Began, Fresh
<1>4. \A h \in Goroutines : \A k \in DOMAIN stack[h] : k \in DOMAIN stack'[h] /\ stack'[h][k] = stack[h][k]
  BY <1>1, <1>3 DEF Others
<1>5. \A h \in Goroutines : \A k \in DOMAIN stack'[h] :
        \/ k \in DOMAIN stack[h] /\ stack'[h][k] = stack[h][k]
        \/ h = g /\ k = 1
  BY <1>1, <1>3 DEF Others
<1>6. \A h \in Goroutines : \A k \in DOMAIN stack'[h] :
        stack'[h][k].next > 0 => k \in DOMAIN stack[h] /\ stack'[h][k] = stack[h][k]
  BY <1>3, <1>5
<1>7. Marked' /\ WalkedOnce'
  <2>1. Marked'
    BY <1>1, <1>6 DEF Marked
  <2>2. WalkedOnce'
    BY <1>1, <1>6 DEF WalkedOnce
  <2> QED
    BY <2>1, <2>2
<1>8. \A u : Awaited(u) => Awaited(u)'
  BY <1>4 DEF Awaited
<1>9. \A u, x : Walking(u, x)' <=> Walking(u, x)
  BY <1>4, <1>6 DEF Walking
<1>10. Awaited(t)'
  BY <1>3 DEF Awaited
<1>11. Kept'
  BY <1>1, <1>8, <1>9, <1>10 DEF Kept
<1>12. Reachable(asked) \subseteq Reachable(asked') /\ t \in Reachable(asked')
  BY <1>1, <1>2, ReachableMore, ReachableFacts DEF WalkTypeOK
<1>13. Sought'
  <2>1. checked' \subseteq Reachable(asked')
    BY <1>1, <1>12 DEF Sought
  <2>2. ASSUME NEW h \in Goroutines, NEW k \in DOMAIN stack'[h]
        PROVE  stack'[h][k].type \in Reachable(asked')
    <3>1. CASE k \in DOMAIN stack[h] /\ stack'[h][k] = stack[h][k]
      BY <1>1, <1>12, <3>1 DEF Sought
    <3>2. CASE h = g /\ k = 1
      BY <1>3, <1>12, <3>2
    <3> QED
      BY <1>5, <2>2, <3>1, <3>2
  <2> QED
    BY <2>1, <2>2 DEF Sought
<1> QED
  BY <1>2, <1>7, <1>9, <1>11, <1>13 DEF WalkInv

\* A call finds the type marked, or has come to the end of it, and returns.
LEMMA WalkReturn ==
  ASSUME WalkInv, NEW g \in Goroutines, stack[g] # <<>>, Return(g),
         UNCHANGED <<checked, asked>>,
         \/ Top(g).next = 0 /\ Top(g).type \in checked
         \/ Top(g).next > Len(Parts[Top(g).type])
  PROVE  WalkInv' /\ \A t \in AllTypes : \A x \in DOMAIN Parts[t] : Walking(t, x)' <=> Walking(t, x)
<1> DEFINE n == Len(stack[g])
<1>1. /\ WalkTypeOK /\ Marked /\ WalkedOnce /\ Kept /\ Sought
      /\ Others(g) /\ Popped(g) /\ stack' \in [Goroutines -> Seq(Frame)]
  BY ReturnStack DEF WalkInv
<1>2. WalkTypeOK'
  BY <1>1 DEF WalkTypeOK
<1>3. /\ n \in Nat /\ DOMAIN stack[g] = 1 .. n /\ Top(g) = stack[g][n]
      /\ DOMAIN stack'[g] = 1 .. (n - 1) /\ \A k \in 1 .. (n - 1) : stack'[g][k] = stack[g][k]
      /\ Top(g).type \in AllTypes /\ Top(g).next \in Nat
  BY <1>1, TopFacts DEF Popped, Below
<1> HIDE DEF n
<1>4. \A h \in Goroutines : \A k \in DOMAIN stack'[h] : k \in DOMAIN stack[h] /\ stack'[h][k] = stack[h][k]
  <2>1. \A k \in 1 .. (n - 1) : k \in 1 .. n
    BY <1>3
  <2> QED
    BY <1>1, <1>3, <2>1 DEF Others
<1>5. \A h \in Goroutines : \A k \in DOMAIN stack[h] :
        \/ k \in DOMAIN stack'[h] /\ stack'[h][k] = stack[h][k]
        \/ h = g /\ k = n
  <2>1. \A k \in 1 .. n : k \in 1 .. (n - 1) \/ k = n
    BY <1>3
  <2> QED
    BY <1>1, <1>3, <2>1 DEF Others
<1>6. Marked' /\ WalkedOnce' /\ Sought'
  <2>1. Marked'
    BY <1>1, <1>4 DEF Marked
  <2>2. WalkedOnce'
    BY <1>1, <1>4 DEF WalkedOnce
  <2>3. Sought'
    BY <1>1, <1>4 DEF Sought
  <2> QED
    BY <2>1, <2>2, <2>3
<1>7. ASSUME NEW u, Awaited(u) PROVE Awaited(u)'
  <2>1. SUFFICES ASSUME u \notin checked PROVE Awaited(u)'
    BY DEF Awaited
  <2>2. PICK h \in Goroutines : \E k \in DOMAIN stack[h] : stack[h][k] = Fresh(u)
    BY <1>7, <2>1 DEF Awaited
  <2>3. PICK k \in DOMAIN stack[h] : stack[h][k] = Fresh(u)
    BY <2>2
  <2>4. CASE h = g /\ k = n
    <3>1. Top(g).next = 0 /\ Top(g).type = u
      BY <1>3, <2>3, <2>4 DEF Fresh
    <3>2. u \in AllTypes /\ ~(0 > Len(Parts[u]))
      BY <1>3, <3>1, PartsFacts
    <3> QED
      BY <2>1, <3>1, <3>2
  <2> QED
    BY <1>5, <2>3, <2>4 DEF Awaited
<1>8. ASSUME NEW t \in AllTypes, NEW x \in DOMAIN Parts[t], Walking(t, x) PROVE Walking(t, x)'
  <2>1. PICK h \in Goroutines : \E k \in DOMAIN stack[h] :
               stack[h][k].type = t /\ stack[h][k].next > 0 /\ stack[h][k].next <= x
    BY <1>8 DEF Walking
  <2>2. PICK k \in DOMAIN stack[h] : stack[h][k].type = t /\ stack[h][k].next > 0 /\ stack[h][k].next <= x
    BY <2>1
  <2>3. CASE h = g /\ k = n
    <3>1. Top(g).type = t /\ Top(g).next > 0 /\ Top(g).next <= x /\ Top(g).next \in Nat
      BY <1>3, <2>2, <2>3
    <3>2. x \in Nat /\ x <= Len(Parts[t]) /\ Len(Parts[t]) \in Nat
      BY PartsFacts
    <3>3. Top(g).next # 0 /\ ~(Top(g).next > Len(Parts[t]))
      BY <3>1, <3>2
    <3> QED
      BY <3>1, <3>3
  <2> QED
    BY <1>5, <2>2, <2>3 DEF Walking
<1>9. Kept'
  BY <1>1, <1>7, <1>8 DEF Kept, WalkTypeOK
<1>10. \A t, x : Walking(t, x)' => Walking(t, x)
  BY <1>4 DEF Walking
<1> QED
  BY <1>2, <1>6, <1>8, <1>9, <1>10 DEF WalkInv

\* A call marks its type and begins to walk it.
LEMMA WalkEnter ==
  ASSUME WalkInv, NEW g \in Goroutines, stack[g] # <<>>, Top(g).next = 0, Top(g).type \notin checked,
         stack' = [stack EXCEPT ![g][Len(stack[g])].next = 1],
         checked' = checked \cup {Top(g).type}, asked' = asked
  PROVE  /\ WalkInv'
         /\ \A t \in checked : \A x : Walking(t, x)' <=> Walking(t, x)
         /\ \A t \in checked' \ checked : \A x \in DOMAIN Parts[t] : Walking(t, x)'
<1> DEFINE n == Len(stack[g])
<1>0. PICK T : T = Top(g).type
  OBVIOUS
<1>1. WalkTypeOK /\ Marked /\ WalkedOnce /\ Kept /\ Sought
  BY DEF WalkInv
<1>2. /\ n \in Nat /\ n > 0 /\ DOMAIN stack[g] = 1 .. n /\ n \in DOMAIN stack[g] /\ Top(g) = stack[g][n]
      /\ T \in AllTypes /\ stack[g] \in Seq(Frame)
  BY <1>0, <1>1, TopFacts
<1>3. /\ Others(g) /\ Advanced(g, 1) /\ stack' \in [Goroutines -> Seq(Frame)]
      /\ DOMAIN stack'[g] = DOMAIN stack[g]
  <2>1. stack' = [stack EXCEPT ![g] = [stack[g] EXCEPT ![n].next = 1]]
    BY <1>1, <1>2 DEF WalkTypeOK
  <2> QED
    BY <1>0, <1>1, <1>2, <2>1, AdvanceStack
<1>4. /\ stack'[g][n] = [type |-> T, next |-> 1] /\ \A k \in 1 .. (n - 1) : stack'[g][k] = stack[g][k]
  BY <1>0, <1>3 DEF Advanced, Below
<1> HIDE DEF n
<1>5. WalkTypeOK'
  BY <1>0, <1>1, <1>2, <1>3 DEF WalkTypeOK
<1>6. \A h \in Goroutines : /\ DOMAIN stack'[h] = DOMAIN stack[h]
                            /\ \A k \in DOMAIN stack[h] : (h = g /\ k = n) \/ stack'[h][k] = stack[h][k]
  <2>1. \A k \in 1 .. n : k \in 1 .. (n - 1) \/ k = n
    BY <1>2
  <2> QED
    BY <1>2, <1>3, <1>4, <2>1 DEF Others
<1>7. /\ stack[g][n].next = 0 /\ stack[g][n].type = T /\ T \notin checked /\ checked' = checked \cup {T}
      /\ stack'[g][n].next = 1 /\ stack'[g][n].type = T /\ n \in DOMAIN stack[g]
  BY <1>0, <1>2, <1>4
<1>8. Marked'
  BY <1>1, <1>6, <1>7 DEF Marked
<1>9. WalkedOnce'
  <2> SUFFICES ASSUME NEW h \in Goroutines, NEW j \in Goroutines,
                      NEW x \in DOMAIN stack'[h], NEW y \in DOMAIN stack'[j],
                      stack'[h][x].next > 0, stack'[j][y].next > 0,
                      stack'[h][x].type = stack'[j][y].type
               PROVE  h = j /\ x = y
    BY DEF WalkedOnce
  <2>1. CASE ~(h = g /\ x = n) /\ ~(j = g /\ y = n)
    <3>1. /\ x \in DOMAIN stack[h] /\ stack[h][x].next > 0 /\ y \in DOMAIN stack[j] /\ stack[j][y].next > 0
          /\ stack[h][x].type = stack[j][y].type
      BY <1>6, <2>1
    <3> QED
      BY <1>1, <3>1 DEF WalkedOnce
  <2>2. CASE h = g /\ x = n /\ ~(j = g /\ y = n)
    BY <1>1, <1>6, <1>7, <2>2 DEF Marked
  <2>3. CASE ~(h = g /\ x = n) /\ j = g /\ y = n
    BY <1>1, <1>6, <1>7, <2>3 DEF Marked
  <2> QED
    BY <2>1, <2>2, <2>3
<1>10. ASSUME NEW u, Awaited(u) PROVE Awaited(u)'
  <2>1. SUFFICES ASSUME u \notin checked' PROVE Awaited(u)'
    BY DEF Awaited
  <2>2. PICK h \in Goroutines : \E k \in DOMAIN stack[h] : stack[h][k] = Fresh(u)
    BY <1>7, <1>10, <2>1 DEF Awaited
  <2>3. PICK k \in DOMAIN stack[h] : stack[h][k] = Fresh(u)
    BY <2>2
  <2>4. ~(h = g /\ k = n)
    BY <1>7, <2>1, <2>3 DEF Fresh
  <2> QED
    BY <1>6, <2>3, <2>4 DEF Awaited
<1>11. ASSUME NEW t, NEW x, Walking(t, x) PROVE Walking(t, x)'
  <2>1. PICK h \in Goroutines : \E k \in DOMAIN stack[h] :
               stack[h][k].type = t /\ stack[h][k].next > 0 /\ stack[h][k].next <= x
    BY <1>11 DEF Walking
  <2>2. PICK k \in DOMAIN stack[h] : stack[h][k].type = t /\ stack[h][k].next > 0 /\ stack[h][k].next <= x
    BY <2>1
  <2>3. ~(0 > 0)
    OBVIOUS
  <2>4. ~(h = g /\ k = n)
    BY <1>7, <2>2, <2>3
  <2> QED
    BY <1>6, <2>2, <2>4 DEF Walking
<1>12. \A x \in DOMAIN Parts[T] : Walking(T, x)'
  <2> SUFFICES ASSUME NEW x \in DOMAIN Parts[T] PROVE Walking(T, x)'
    OBVIOUS
  <2>1. x \in Nat /\ 1 > 0 /\ 1 <= x
    BY <1>2, PartsFacts
  <2> QED
    BY <1>6, <1>7, <2>1 DEF Walking
<1>13. Kept'
  BY <1>1, <1>7, <1>10, <1>11, <1>12 DEF Kept
<1>14. T \in Reachable(asked)
  BY <1>1, <1>7 DEF Sought
<1>15. \A h \in Goroutines : \A k \in DOMAIN stack'[h] : stack'[h][k].type = stack[h][k].type
  BY <1>6, <1>7
<1>16. Sought'
  BY <1>1, <1>6, <1>7, <1>14, <1>15 DEF Sought
<1>17. ASSUME NEW t \in checked, NEW x, Walking(t, x)' PROVE Walking(t, x)
  <2>1. PICK h \in Goroutines : \E k \in DOMAIN stack'[h] :
               stack'[h][k].type = t /\ stack'[h][k].next > 0 /\ stack'[h][k].next <= x
    BY <1>17 DEF Walking
  <2>2. PICK k \in DOMAIN stack'[h] : stack'[h][k].type = t /\ stack'[h][k].next > 0 /\ stack'[h][k].next <= x
    BY <2>1
  <2>3. k \in DOMAIN stack[h] /\ stack'[h][k] = stack[h][k]
    BY <1>6, <1>7, <2>2
  <2> QED
    BY <2>2, <2>3 DEF Walking
<1> QED
  BY <1>5, <1>7, <1>8, <1>9, <1>11, <1>12, <1>13, <1>16, <1>17 DEF WalkInv

\* A call comes to the next part and makes a call for it.
LEMMA WalkVisit ==
  ASSUME WalkInv, NEW g \in Goroutines, Visit(g), NEW T, NEW i, T = Top(g).type, i = Top(g).next
  PROVE  /\ WalkInv'
         /\ Walking(T, i) /\ ~Walking(T, i)'
         /\ \A t \in AllTypes : \A x \in DOMAIN Parts[t] :
              t # T \/ x # i => (Walking(t, x)' <=> Walking(t, x))
<1> DEFINE n == Len(stack[g])
<1>1. WalkTypeOK /\ Marked /\ WalkedOnce /\ Kept /\ Sought /\ stack[g] # <<>> /\ i \in DOMAIN Parts[T]
      /\ UNCHANGED <<checked, asked>>
  BY DEF WalkInv, Visit, history
<1>2. /\ n \in Nat /\ n > 0 /\ DOMAIN stack[g] = 1 .. n /\ n \in DOMAIN stack[g] /\ Top(g) = stack[g][n]
      /\ T \in AllTypes /\ i \in Nat /\ stack[g] \in Seq(Frame)
  BY <1>1, TopFacts
<1>3. PICK u \in AllTypes : u = Parts[T][i].type
  BY <1>1, <1>2, PartsFacts
<1>4. /\ Others(g) /\ Advanced(g, i + 1) /\ stack' \in [Goroutines -> Seq(Frame)]
      /\ DOMAIN stack'[g] = 1 .. (n + 1) /\ stack'[g][n + 1] = Fresh(u)
  <2>1. stack' = [stack EXCEPT ![g] = Append([stack[g] EXCEPT ![n].next = i + 1], Fresh(u))]
    BY <1>3 DEF Visit
  <2>2. i + 1 \in Nat
    BY <1>2
  <2> QED
    BY <1>1, <2>1, <2>2, AdvanceStack
<1>5. /\ stack'[g][n] = [type |-> T, next |-> i + 1] /\ \A k \in 1 .. (n - 1) : stack'[g][k] = stack[g][k]
  BY <1>4 DEF Advanced, Below
<1> HIDE DEF n
<1>6. WalkTypeOK'
  BY <1>1, <1>4 DEF WalkTypeOK
<1>7. \A h \in Goroutines : \A k \in DOMAIN stack[h] :
        k \in DOMAIN stack'[h] /\ ((h = g /\ k = n) \/ stack'[h][k] = stack[h][k])
  <2>1. \A k \in 1 .. n : k \in 1 .. (n + 1) /\ (k \in 1 .. (n - 1) \/ k = n)
    BY <1>2
  <2> QED
    BY <1>2, <1>4, <1>5, <2>1 DEF Others
<1>8. \A h \in Goroutines : \A k \in DOMAIN stack'[h] : k \in DOMAIN stack[h] \/ (h = g /\ k = n + 1)
  <2>1. \A k \in 1 .. (n + 1) : k \in 1 .. n \/ k = n + 1
    BY <1>2
  <2> QED
    BY <1>2, <1>4, <2>1 DEF Others
<1>9. i > 0 /\ i + 1 > 0 /\ ~(0 > 0)
  BY <1>1, <1>2, PartsFacts
<1>10. /\ stack[g][n].next = i /\ stack[g][n].type = T /\ n \in DOMAIN stack[g]
       /\ stack'[g][n].next = i + 1 /\ stack'[g][n].type = T
       /\ stack'[g][n + 1].next = 0 /\ stack'[g][n + 1].type = u
  BY <1>2, <1>4, <1>5 DEF Fresh
<1>11. ASSUME NEW h \in Goroutines, NEW k \in DOMAIN stack'[h], stack'[h][k].next > 0
       PROVE  k \in DOMAIN stack[h] /\ stack[h][k].next > 0 /\ stack[h][k].type = stack'[h][k].type
  <2>1. k \in DOMAIN stack[h]
    BY <1>8, <1>9, <1>10, <1>11
  <2> QED
    BY <1>7, <1>9, <1>10, <1>11, <2>1
<1>12. Marked'
  BY <1>1, <1>11 DEF Marked
<1>13. WalkedOnce'
  <2> SUFFICES ASSUME NEW h \in Goroutines, NEW j \in Goroutines,
                      NEW x \in DOMAIN stack'[h], NEW y \in DOMAIN stack'[j],
                      stack'[h][x].next > 0, stack'[j][y].next > 0,
                      stack'[h][x].type = stack'[j][y].type
               PROVE  h = j /\ x = y
    BY DEF WalkedOnce
  <2>1. /\ x \in DOMAIN stack[h] /\ stack[h][x].next > 0 /\ y \in DOMAIN stack[j] /\ stack[j][y].next > 0
        /\ stack[h][x].type = stack[j][y].type
    BY <1>11
  <2> QED
    BY <1>1, <2>1 DEF WalkedOnce
<1>14. ASSUME NEW v, Awaited(v) PROVE Awaited(v)'
  <2>1. SUFFICES ASSUME v \notin checked PROVE Awaited(v)'
    BY <1>1 DEF Awaited
  <2>2. PICK h \in Goroutines : \E k \in DOMAIN stack[h] : stack[h][k] = Fresh(v)
    BY <1>14, <2>1 DEF Awaited
  <2>3. PICK k \in DOMAIN stack[h] : stack[h][k] = Fresh(v)
    BY <2>2
  <2>4. ~(h = g /\ k = n)
    BY <1>9, <1>10, <2>3 DEF Fresh
  <2> QED
    BY <1>7, <2>3, <2>4 DEF Awaited
<1>15. Awaited(u)'
  <2>1. n + 1 \in DOMAIN stack'[g]
    BY <1>2, <1>4
  <2> QED
    BY <1>4, <2>1 DEF Awaited
<1>16. ASSUME NEW t \in AllTypes, NEW x \in DOMAIN Parts[t], Walking(t, x), t # T \/ x # i
       PROVE  Walking(t, x)'
  <2>1. PICK h \in Goroutines : \E k \in DOMAIN stack[h] :
               stack[h][k].type = t /\ stack[h][k].next > 0 /\ stack[h][k].next <= x
    BY <1>16 DEF Walking
  <2>2. PICK k \in DOMAIN stack[h] : stack[h][k].type = t /\ stack[h][k].next > 0 /\ stack[h][k].next <= x
    BY <2>1
  <2>3. CASE h = g /\ k = n
    <3>1. t = T /\ i <= x
      BY <1>10, <2>2, <2>3
    <3>2. i + 1 <= x
      <4>1. x \in Nat /\ x # i
        BY <1>16, <3>1, PartsFacts
      <4> QED
        BY <1>2, <3>1, <4>1
    <3> QED
      BY <1>7, <1>9, <1>10, <3>1, <3>2 DEF Walking
  <2> QED
    BY <1>7, <2>2, <2>3 DEF Walking
<1>17. Kept'
  BY <1>1, <1>3, <1>14, <1>15, <1>16 DEF Kept, WalkTypeOK
<1>18. T \in Reachable(asked) /\ Closed(Reachable(asked))
  BY <1>1, <1>10, ReachableFacts DEF Sought, WalkTypeOK
<1>19. u \in Reachable(asked)
  BY <1>1, <1>3, <1>18 DEF Closed
<1>20. \A h \in Goroutines : \A k \in DOMAIN stack'[h] : stack'[h][k].type \in Reachable(asked)
  BY <1>1, <1>7, <1>8, <1>10, <1>18, <1>19 DEF Sought
<1>21. Sought'
  BY <1>1, <1>20 DEF Sought
<1>22. ASSUME NEW t \in AllTypes, NEW x \in DOMAIN Parts[t], Walking(t, x)' PROVE Walking(t, x) /\ (t # T \/ x # i)
  <2>1. PICK h \in Goroutines : \E k \in DOMAIN stack'[h] :
               stack'[h][k].type = t /\ stack'[h][k].next > 0 /\ stack'[h][k].next <= x
    BY <1>22 DEF Walking
  <2>2. PICK k \in DOMAIN stack'[h] : stack'[h][k].type = t /\ stack'[h][k].next > 0 /\ stack'[h][k].next <= x
    BY <2>1
  <2>3. k \in DOMAIN stack[h] /\ stack[h][k].next > 0 /\ stack[h][k].type = t
    BY <1>11, <2>2
  <2>4. CASE h = g /\ k = n
    <3>1. t = T /\ i + 1 <= x /\ x \in Nat
      BY <1>10, <2>2, <2>4, PartsFacts
    <3>2. i <= x /\ x # i
      BY <1>2, <3>1
    <3> QED
      BY <1>9, <1>10, <2>4, <3>1, <3>2 DEF Walking
  <2>5. CASE ~(h = g /\ k = n)
    <3>1. stack'[h][k] = stack[h][k]
      BY <1>7, <2>3, <2>5
    <3>2. t # T
      BY <1>1, <1>9, <1>10, <2>3, <2>5 DEF WalkedOnce
    <3> QED
      BY <2>2, <2>3, <3>1, <3>2 DEF Walking
  <2> QED
    BY <2>4, <2>5
<1>23. Walking(T, i)
  <2>1. i <= i
    BY <1>2
  <2> QED
    BY <1>9, <1>10, <2>1 DEF Walking
<1> QED
  BY <1>1, <1>2, <1>6, <1>12, <1>13, <1>16, <1>17, <1>21, <1>22, <1>23 DEF WalkInv

\* Every step of the checks keeps the walk in order.
LEMMA StepWalk == WalkInv /\ [GobNext]_gobVars => WalkInv'
<1> SUFFICES ASSUME WalkInv, [GobNext]_gobVars PROVE WalkInv'
  OBVIOUS
<1>1. Types \subseteq AllTypes /\ \A d \in Targets : d.type \in AllTypes
  BY LabGobAssumption DEF AllTypes
<1>2. ASSUME UNCHANGED <<checked, stack, asked>> PROVE WalkInv'
  BY <1>2 DEF WalkInv, WalkTypeOK, Marked, WalkedOnce, Kept, Sought, Walking, Awaited
<1>3. ASSUME NEW g \in Goroutines, NEW t \in Types, Encode(g, t) PROVE WalkInv'
  BY <1>1, <1>3, WalkBegin DEF Encode
<1>4. ASSUME NEW g \in Goroutines, NEW d \in Targets, Decode(g, d) PROVE WalkInv'
  BY <1>1, <1>4, WalkBegin DEF Decode
<1>5. ASSUME NEW g \in Goroutines, Enter(g) PROVE WalkInv'
  <2>1. /\ stack[g] # <<>> /\ Top(g).next = 0 /\ asked' = asked /\ checked' = checked \cup {Top(g).type}
        /\ IF Top(g).type \in checked THEN Return(g)
           ELSE stack' = [stack EXCEPT ![g][Len(stack[g])].next = 1]
    BY <1>5 DEF Enter, history
  <2>2. CASE Top(g).type \in checked
    <3>1. checked' = checked /\ Return(g)
      BY <2>1, <2>2
    <3> QED
      BY <2>1, <2>2, <3>1, WalkReturn
  <2>3. CASE Top(g).type \notin checked
    BY <2>1, <2>3, WalkEnter
  <2> QED
    BY <2>2, <2>3
<1>6. ASSUME NEW g \in Goroutines, Visit(g) PROVE WalkInv'
  BY <1>6, WalkVisit
<1>7. ASSUME NEW g \in Goroutines, Leave(g) PROVE WalkInv'
  BY <1>7, WalkReturn DEF Leave, history
<1>8. ASSUME NEW g \in Goroutines, Report(g) PROVE WalkInv'
  BY <1>2, <1>8 DEF Report, history
<1>9. UNCHANGED gobVars => WalkInv'
  BY <1>2 DEF gobVars, history
<1> QED
  BY <1>3, <1>4, <1>5, <1>6, <1>7, <1>8, <1>9 DEF GobNext, GobStep, checkType

LEMMA InitWalk == GobInit => WalkInv
<1> SUFFICES ASSUME GobInit PROVE WalkInv
  OBVIOUS
<1>1. /\ checked = {} /\ asked = {} /\ stack = [g \in Goroutines |-> <<>>]
      /\ \A g \in Goroutines : stack[g] = <<>> /\ DOMAIN stack[g] = {}
  BY DEF GobInit
<1>2. WalkTypeOK
  <2>1. <<>> \in Seq(Frame)
    OBVIOUS
  <2> QED
    BY <1>1, <2>1 DEF WalkTypeOK
<1> QED
  BY <1>1, <1>2 DEF WalkInv, Marked, WalkedOnce, Kept, Sought

\* No two calls of checkType walk the same type at the same time, in one goroutine
\* or in two (labgob.go:75-85).
THEOREM TypesWalkedOnce == GobSpec => []WalkedOnce
<1>1. WalkInv => WalkedOnce
  BY DEF WalkInv
<1> QED
  BY <1>1, InitWalk, StepWalk, PTL DEF GobSpec

\* When no check is under way the types looked at are those that were sent, with
\* all they are made of: whoever returned early because another goroutine was at
\* a type has left the rest to it (labgob.go:75-108).
AllChecked == (\A g \in Goroutines : Idle(g)) => checked = Reachable(asked)

LEMMA WalkCovers == WalkInv => AllChecked
<1> SUFFICES ASSUME WalkInv, \A g \in Goroutines : Idle(g) PROVE checked = Reachable(asked)
  BY DEF AllChecked
<1>1. \A g \in Goroutines : DOMAIN stack[g] = {}
  BY DEF Idle
<1>2. Closed(checked) /\ asked \subseteq checked /\ checked \in SUBSET AllTypes /\ asked \in SUBSET AllTypes
  BY <1>1 DEF WalkInv, WalkTypeOK, Kept, Closed, Walking, Awaited
<1>3. Reachable(asked) \subseteq checked
  BY <1>2, ReachableFacts
<1> QED
  BY <1>3 DEF WalkInv, Sought

\* Every type sent is looked at with all it is made of, and nothing else is,
\* however the goroutines share the walk (labgob.go:75-108).
THEOREM TypesAllChecked == GobSpec => []AllChecked
BY InitWalk, StepWalk, WalkCovers, PTL DEF GobSpec

-----------------------------------------------------------------------------
(* What is counted                                                         *)

\* What checkDefault1 reports of a value is its non-zero leaves, each once.
CountsLeaves ==
  \A d \in Targets : /\ IsFiniteSet(NonZero(d.value))
                     /\ checkDefault1(d.value) = Cardinality(NonZero(d.value))

\* The lower-case fields that were come to, the reports still to be made and
\* the leaves to report of all the values.
Said   == {p \in LowerCase(checked) : ~Walking(p[1], p[2])}
Owed   == UNION {{g} \X (1 .. todo[g]) : g \in Goroutines}
Leaves == UNION {{n} \X NonZero(decoded[n]) : n \in DOMAIN decoded}

Values == {d.value : d \in Targets}

CountTypeOK ==
  /\ errorCount \in Nat /\ warnings \in Nat /\ todo \in [Goroutines -> Nat] /\ decoded \in Seq(Values)
  /\ IsFiniteSet(Said) /\ IsFiniteSet(Owed) /\ IsFiniteSet(Leaves)

CountInv ==
  /\ CountTypeOK
  /\ errorCount + Cardinality(Owed) = Cardinality(Said) + Cardinality(Leaves)
  /\ warnings <= 1 /\ (errorCount = 0 => warnings = 0)

LEMMA LowerCaseFacts ==
  ASSUME NEW S \in SUBSET AllTypes
  PROVE  \A p : p \in LowerCase(S) <=>
           \E t \in S : \E x \in DOMAIN Parts[t] : p = <<t, x>> /\ Parts[t][x].lower
<1> SUFFICES ASSUME NEW p
             PROVE  p \in LowerCase(S) <=>
                      \E t \in S : \E x \in DOMAIN Parts[t] : p = <<t, x>> /\ Parts[t][x].lower
  OBVIOUS
<1>1. \A t, x : p = <<t, x>> => p[1] = t /\ p[2] = x
  OBVIOUS
<1>2. \A t : p \in {t} \X DOMAIN Parts[t] <=> \E x \in DOMAIN Parts[t] : p = <<t, x>>
  OBVIOUS
<1>3. p \in LowerCase(S) <=>
        (\E t \in S : p \in {t} \X DOMAIN Parts[t]) /\ Parts[p[1]][p[2]].lower
  BY DEF LowerCase
<1> QED
  BY <1>1, <1>2, <1>3

\* A set of pairs that one more first component is added to.
LEMMA AddPairs ==
  ASSUME NEW S, IsFiniteSet(S), NEW a, NEW T, IsFiniteSet(T), \A x : <<a, x>> \notin S
  PROVE  /\ IsFiniteSet(S \cup ({a} \X T))
         /\ Cardinality(S \cup ({a} \X T)) = Cardinality(S) + Cardinality(T)
<1>1. IsFiniteSet({a}) /\ Cardinality({a}) = 1
  BY FS_Singleton
<1>2. IsFiniteSet({a} \X T) /\ Cardinality({a} \X T) = 1 * Cardinality(T)
  BY <1>1, FS_Product
<1>3. S \cap ({a} \X T) = {}
  OBVIOUS
<1>4. /\ IsFiniteSet(S \cup ({a} \X T))
      /\ Cardinality(S \cup ({a} \X T)) = Cardinality(S) + Cardinality({a} \X T) - Cardinality({})
  BY <1>2, <1>3, FS_Union
<1>5. Cardinality({}) = 0 /\ Cardinality(S) \in Nat /\ Cardinality(T) \in Nat
  BY FS_EmptySet, FS_CardinalityType
<1> QED
  BY <1>2, <1>4, <1>5

LEMMA OwedFacts ==
  ASSUME todo \in [Goroutines -> Nat]
  PROVE  \A g, x : <<g, x>> \in Owed <=> g \in Goroutines /\ x \in 1 .. todo[g]
BY DEF Owed

\* The walk goes on and nothing is complained of.
LEMMA CountSame ==
  ASSUME CountInv, Said' = Said, UNCHANGED <<errorCount, warnings, todo, decoded>>
  PROVE  CountInv'
<1>1. Owed' = Owed /\ Leaves' = Leaves
  BY DEF Owed, Leaves
<1> QED
  BY <1>1 DEF CountInv, CountTypeOK

LEMMA SaidSame ==
  ASSUME checked \subseteq AllTypes, checked' = checked,
         \A t \in AllTypes : \A x \in DOMAIN Parts[t] : Walking(t, x)' <=> Walking(t, x)
  PROVE  Said' = Said
<1>1. ASSUME NEW p \in LowerCase(checked) PROVE Walking(p[1], p[2])' <=> Walking(p[1], p[2])
  <2>1. PICK t \in checked : \E x \in DOMAIN Parts[t] : p = <<t, x>> /\ Parts[t][x].lower
    BY <1>1, LowerCaseFacts
  <2>2. PICK x \in DOMAIN Parts[t] : p = <<t, x>>
    BY <2>1
  <2>3. p[1] = t /\ p[2] = x
    BY <2>2
  <2> QED
    BY <2>1, <2>2, <2>3
<1>2. LowerCase(checked') = LowerCase(checked)
  OBVIOUS
<1> QED
  BY <1>1, <1>2 DEF Said

\* A type is marked: its lower-case fields are all still to come.
LEMMA SaidEnter ==
  ASSUME WalkInv, NEW g \in Goroutines, stack[g] # <<>>, Top(g).next = 0, Top(g).type \notin checked,
         stack' = [stack EXCEPT ![g][Len(stack[g])].next = 1],
         checked' = checked \cup {Top(g).type}, asked' = asked
  PROVE  Said' = Said
<1>1. /\ \A t \in checked : \A x : Walking(t, x)' <=> Walking(t, x)
      /\ \A t \in checked' \ checked : \A x \in DOMAIN Parts[t] : Walking(t, x)'
      /\ checked' \subseteq AllTypes /\ checked \subseteq AllTypes /\ checked \subseteq checked'
  BY WalkEnter DEF WalkInv, WalkTypeOK
<1>2. ASSUME NEW p \in LowerCase(checked) PROVE p \in LowerCase(checked') /\ p[1] \in checked
  <2>1. PICK t \in checked : \E x \in DOMAIN Parts[t] : p = <<t, x>> /\ Parts[t][x].lower
    BY <1>1, <1>2, LowerCaseFacts
  <2>2. t \in checked' /\ p[1] = t
    BY <1>1, <2>1
  <2> QED
    BY <1>1, <2>1, <2>2, LowerCaseFacts
<1>3. ASSUME NEW p \in LowerCase(checked'), ~Walking(p[1], p[2])' PROVE p \in LowerCase(checked)
  <2>1. PICK t \in checked' : \E x \in DOMAIN Parts[t] : p = <<t, x>> /\ Parts[t][x].lower
    BY <1>1, <1>3, LowerCaseFacts
  <2>2. PICK x \in DOMAIN Parts[t] : p = <<t, x>> /\ Parts[t][x].lower
    BY <2>1
  <2>3. p[1] = t /\ p[2] = x
    BY <2>2
  <2>4. t \in checked
    BY <1>1, <1>3, <2>3
  <2> QED
    BY <1>1, <2>2, <2>4, LowerCaseFacts
<1>4. \A p : p \in Said' <=> p \in LowerCase(checked') /\ ~Walking(p[1], p[2])'
  BY DEF Said
<1>5. \A p : p \in Said <=> p \in LowerCase(checked) /\ ~Walking(p[1], p[2])
  BY DEF Said
<1>6. \A p : p \in Said' <=> p \in Said
  BY <1>1, <1>2, <1>3, <1>4, <1>5
<1> QED
  BY <1>6

\* A call comes to a part: that one is said now, if it is lower-case.
LEMMA SaidVisit ==
  ASSUME WalkInv, NEW g \in Goroutines, Visit(g), NEW T, NEW i, T = Top(g).type, i = Top(g).next
  PROVE  /\ <<T, i>> \notin Said
         /\ Parts[T][i].lower \in BOOLEAN
         /\ Parts[T][i].lower => Said' = Said \cup {<<T, i>>}
         /\ ~Parts[T][i].lower => Said' = Said
<1>1. /\ Walking(T, i) /\ ~Walking(T, i)' /\ checked' = checked /\ checked \subseteq AllTypes
      /\ \A t \in AllTypes : \A x \in DOMAIN Parts[t] :
           t # T \/ x # i => (Walking(t, x)' <=> Walking(t, x))
  BY WalkVisit DEF WalkInv, WalkTypeOK, Visit
<1>2. i \in DOMAIN Parts[T] /\ stack[g] # <<>>
  BY DEF Visit
<1>3. T \in checked
  <2>1. /\ WalkTypeOK /\ Marked
    BY DEF WalkInv
  <2>2. /\ Len(stack[g]) \in DOMAIN stack[g] /\ Top(g) = stack[g][Len(stack[g])]
        /\ T \in AllTypes
    BY <1>2, <2>1, TopFacts
  <2>3. i > 0
    BY <1>2, <2>2, PartsFacts
  <2> QED
    BY <2>1, <2>2, <2>3 DEF Marked
<1>4. Parts[T][i].lower \in BOOLEAN
  BY <1>1, <1>2, <1>3, PartsFacts
<1>5. <<T, i>> \in LowerCase(checked) <=> Parts[T][i].lower
  <2>1. Parts[T][i].lower => <<T, i>> \in LowerCase(checked)
    BY <1>1, <1>2, <1>3, LowerCaseFacts
  <2>2. \A t, x : <<T, i>> = <<t, x>> => T = t /\ i = x
    OBVIOUS
  <2>3. <<T, i>> \in LowerCase(checked) => Parts[T][i].lower
    BY <1>1, <2>2, LowerCaseFacts
  <2> QED
    BY <2>1, <2>3
<1>6. LowerCase(checked') = LowerCase(checked)
  BY <1>1
<1>7. ASSUME NEW p \in LowerCase(checked), p # <<T, i>> PROVE Walking(p[1], p[2])' <=> Walking(p[1], p[2])
  <2>1. PICK t \in checked : \E x \in DOMAIN Parts[t] : p = <<t, x>> /\ Parts[t][x].lower
    BY <1>1, <1>7, LowerCaseFacts
  <2>2. PICK x \in DOMAIN Parts[t] : p = <<t, x>>
    BY <2>1
  <2>3. p[1] = t /\ p[2] = x /\ (t # T \/ x # i)
    BY <1>7, <2>2
  <2> QED
    BY <1>1, <2>3
<1>8. \A p : p \in Said' <=> p \in LowerCase(checked) /\ ~Walking(p[1], p[2])'
  BY <1>6 DEF Said
<1>9. \A p : p \in Said <=> p \in LowerCase(checked) /\ ~Walking(p[1], p[2])
  BY DEF Said
<1>10. <<T, i>>[1] = T /\ <<T, i>>[2] = i
  OBVIOUS
<1>11. <<T, i>> \notin Said /\ (<<T, i>> \in Said' <=> Parts[T][i].lower)
  <2>1. <<T, i>> \notin Said
    BY <1>1, <1>9, <1>10
  <2>2. <<T, i>> \in Said' <=> Parts[T][i].lower
    BY <1>1, <1>5, <1>8, <1>10
  <2> QED
    BY <2>1, <2>2
<1>12. \A p : p # <<T, i>> => (p \in Said' <=> p \in Said)
  BY <1>7, <1>8, <1>9
<1> QED
  BY <1>4, <1>11, <1>12

LEMMA CountVisit ==
  ASSUME WalkInv, CountInv, NEW g \in Goroutines, Visit(g)
  PROVE  CountInv'
<1>0. PICK T, i : T = Top(g).type /\ i = Top(g).next
  OBVIOUS
<1>1. /\ <<T, i>> \notin Said /\ Parts[T][i].lower \in BOOLEAN
      /\ Parts[T][i].lower => Said' = Said \cup {<<T, i>>}
      /\ ~Parts[T][i].lower => Said' = Said
  BY <1>0, SaidVisit
<1>2. /\ errorCount' = errorCount + (IF Parts[T][i].lower THEN 1 ELSE 0)
      /\ UNCHANGED <<warnings, todo, decoded>>
  BY <1>0 DEF Visit, history
<1>3. /\ errorCount \in Nat /\ warnings \in Nat /\ IsFiniteSet(Said) /\ IsFiniteSet(Owed) /\ IsFiniteSet(Leaves)
      /\ errorCount + Cardinality(Owed) = Cardinality(Said) + Cardinality(Leaves)
      /\ warnings <= 1 /\ (errorCount = 0 => warnings = 0)
      /\ todo \in [Goroutines -> Nat] /\ decoded \in Seq(Values)
  BY DEF CountInv, CountTypeOK
<1>4. CASE ~Parts[T][i].lower
  <2>1. errorCount' = errorCount
    BY <1>2, <1>3, <1>4
  <2> QED
    BY <1>1, <1>2, <1>4, <2>1, CountSame
<1>5. CASE Parts[T][i].lower
  <2>1. Owed' = Owed /\ Leaves' = Leaves
    BY <1>2 DEF Owed, Leaves
  <2>2. IsFiniteSet(Said') /\ Cardinality(Said') = Cardinality(Said) + 1
    BY <1>1, <1>3, <1>5, FS_AddElement
  <2>3. Cardinality(Said) \in Nat /\ Cardinality(Owed) \in Nat /\ Cardinality(Leaves) \in Nat
    BY <1>3, FS_CardinalityType
  <2>4. errorCount' = errorCount + 1
    BY <1>2, <1>5
  <2>5. errorCount' \in Nat /\ errorCount' # 0
    BY <1>3, <2>4
  <2>6. errorCount' + Cardinality(Owed) = (Cardinality(Said) + 1) + Cardinality(Leaves)
    BY <1>3, <2>3, <2>4
  <2>7. CountTypeOK'
    BY <1>2, <1>3, <2>1, <2>2, <2>5 DEF CountTypeOK
  <2> QED
    BY <1>2, <1>3, <2>1, <2>2, <2>5, <2>6, <2>7 DEF CountInv
<1> QED
  BY <1>1, <1>4, <1>5

LEMMA CountReport ==
  ASSUME WalkInv, CountInv, NEW g \in Goroutines, Report(g)
  PROVE  CountInv'
<1>1. /\ todo[g] > 0 /\ warnings' = warnings + (IF errorCount < 1 THEN 1 ELSE 0)
      /\ errorCount' = errorCount + 1 /\ todo' = [todo EXCEPT ![g] = todo[g] - 1]
      /\ UNCHANGED <<checked, stack, decoded>>
  BY DEF Report, history
<1>2. /\ errorCount \in Nat /\ warnings \in Nat /\ IsFiniteSet(Said) /\ IsFiniteSet(Owed) /\ IsFiniteSet(Leaves)
      /\ errorCount + Cardinality(Owed) = Cardinality(Said) + Cardinality(Leaves)
      /\ warnings <= 1 /\ (errorCount = 0 => warnings = 0)
      /\ todo \in [Goroutines -> Nat] /\ decoded \in Seq(Values)
  BY DEF CountInv, CountTypeOK
<1>3. PICK k : k = todo[g]
  OBVIOUS
<1>4. k \in Nat /\ k > 0 /\ k - 1 \in Nat /\ k \in 1 .. k /\ 1 .. (k - 1) = (1 .. k) \ {k}
  BY <1>1, <1>2, <1>3
<1>5. todo' \in [Goroutines -> Nat] /\ todo'[g] = k - 1 /\ \A h \in Goroutines \ {g} : todo'[h] = todo[h]
  BY <1>1, <1>2, <1>3, <1>4
<1>6. \A h, x : <<h, x>> \in Owed <=> h \in Goroutines /\ x \in 1 .. todo[h]
  BY <1>2, OwedFacts
<1>7. Owed' = Owed \ {<<g, k>>}
  <2>1. \A h, x : <<h, x>> \in Owed' <=> h \in Goroutines /\ x \in 1 .. todo'[h]
    BY <1>5 DEF Owed
  <2>2. \A h, x : <<h, x>> \in Owed' <=> <<h, x>> \in Owed /\ ~(h = g /\ x = k)
    BY <1>3, <1>4, <1>5, <1>6, <2>1
  <2>3. \A p \in Owed : \E h, x : p = <<h, x>>
    BY DEF Owed
  <2>4. \A p \in Owed' : \E h, x : p = <<h, x>>
    BY DEF Owed
  <2>5. \A h, x : <<h, x>> = <<g, k>> <=> h = g /\ x = k
    OBVIOUS
  <2>6. \A p \in Owed' : p \in Owed \ {<<g, k>>}
    BY <2>2, <2>4, <2>5
  <2>7. \A p \in Owed \ {<<g, k>>} : p \in Owed'
    BY <2>2, <2>3, <2>5
  <2> QED
    BY <2>6, <2>7
<1>8. <<g, k>> \in Owed
  BY <1>3, <1>4, <1>6
<1>9. IsFiniteSet(Owed') /\ Cardinality(Owed') = Cardinality(Owed) - 1
  BY <1>2, <1>7, <1>8, FS_RemoveElement
<1>10. Said' = Said /\ Leaves' = Leaves
  BY <1>1 DEF Said, Leaves, Walking
<1>11. Cardinality(Said) \in Nat /\ Cardinality(Owed) \in Nat /\ Cardinality(Leaves) \in Nat
  BY <1>2, FS_CardinalityType
<1>12. errorCount' \in Nat /\ errorCount' # 0 /\ warnings' \in Nat /\ warnings' <= 1
  BY <1>1, <1>2
<1>13. errorCount' + (Cardinality(Owed) - 1) = Cardinality(Said) + Cardinality(Leaves)
  BY <1>1, <1>2, <1>11
<1>14. CountTypeOK'
  BY <1>1, <1>2, <1>5, <1>9, <1>10, <1>12 DEF CountTypeOK
<1> QED
  BY <1>9, <1>10, <1>12, <1>13, <1>14 DEF CountInv

LEMMA CountDecode ==
  ASSUME CountsLeaves, WalkInv, CountInv, NEW g \in Goroutines, NEW d \in Targets, Decode(g, d)
  PROVE  CountInv'
<1>1. /\ todo[g] = 0 /\ checkValue(g, d.type) /\ todo' = [todo EXCEPT ![g] = checkDefault1(d.value)]
      /\ decoded' = Append(decoded, d.value) /\ UNCHANGED <<checked, errorCount, warnings>>
  BY DEF Decode, checkValue, Idle
<1>2. /\ errorCount \in Nat /\ warnings \in Nat /\ IsFiniteSet(Said) /\ IsFiniteSet(Owed) /\ IsFiniteSet(Leaves)
      /\ errorCount + Cardinality(Owed) = Cardinality(Said) + Cardinality(Leaves)
      /\ warnings <= 1 /\ (errorCount = 0 => warnings = 0)
      /\ todo \in [Goroutines -> Nat] /\ decoded \in Seq(Values)
  BY DEF CountInv, CountTypeOK
<1>3. PICK N, v : N = NonZero(v) /\ v = d.value
  OBVIOUS
<1>4. IsFiniteSet(N) /\ checkDefault1(v) = Cardinality(N) /\ v \in Values
  BY <1>3 DEF CountsLeaves, Values
<1>5. Cardinality(N) \in Nat
  BY <1>4, FS_CardinalityType
<1>6. PICK k : k = Cardinality(N)
  OBVIOUS
<1>7. /\ todo' \in [Goroutines -> Nat] /\ todo'[g] = k /\ \A h \in Goroutines \ {g} : todo'[h] = todo[h]
  BY <1>1, <1>2, <1>3, <1>4, <1>5, <1>6
<1>8. Owed' = Owed \cup ({g} \X (1 .. k)) /\ \A x : <<g, x>> \notin Owed
  <2>1. \A h, x : <<h, x>> \in Owed <=> h \in Goroutines /\ x \in 1 .. todo[h]
    BY <1>2, OwedFacts
  <2>2. \A x : <<g, x>> \notin Owed
    <3>1. 1 .. 0 = {}
      OBVIOUS
    <3> QED
      BY <1>1, <2>1, <3>1
  <2>3. \A h \in Goroutines \ {g} : {h} \X (1 .. todo'[h]) = {h} \X (1 .. todo[h])
    BY <1>7
  <2>4. {g} \X (1 .. todo[g]) = {} /\ {g} \X (1 .. todo'[g]) = {g} \X (1 .. k)
    BY <1>1, <1>7
  <2>5. \A p : p \in Owed <=> \E h \in Goroutines : p \in {h} \X (1 .. todo[h])
    BY DEF Owed
  <2>6. \A p : p \in Owed' <=> \E h \in Goroutines : p \in {h} \X (1 .. todo'[h])
    BY DEF Owed
  <2>7. \A p : p \in Owed' <=> p \in Owed \/ p \in {g} \X (1 .. k)
    BY <2>3, <2>4, <2>5, <2>6
  <2> QED
    BY <2>2, <2>7
<1>9. IsFiniteSet(1 .. k) /\ Cardinality(1 .. k) = k
  <2>1. k \in Nat /\ k \in Int /\ 1 \in Int
    BY <1>5, <1>6
  <2>2. IsFiniteSet(1 .. k) /\ Cardinality(1 .. k) = IF 1 > k THEN 0 ELSE k - 1 + 1
    BY <2>1, FS_Interval
  <2> QED
    BY <2>1, <2>2
<1>10. IsFiniteSet(Owed') /\ Cardinality(Owed') = Cardinality(Owed) + k
  <2>1. /\ IsFiniteSet(Owed \cup ({g} \X (1 .. k)))
        /\ Cardinality(Owed \cup ({g} \X (1 .. k))) = Cardinality(Owed) + Cardinality(1 .. k)
    <3>1. PICK I : I = 1 .. k
      OBVIOUS
    <3>2. IsFiniteSet(Owed) /\ IsFiniteSet(I) /\ \A x : <<g, x>> \notin Owed
      BY <1>2, <1>8, <1>9, <3>1
    <3>3. IsFiniteSet(Owed \cup ({g} \X I)) /\ Cardinality(Owed \cup ({g} \X I)) = Cardinality(Owed) + Cardinality(I)
      BY <3>2, AddPairs
    <3> QED
      BY <3>1, <3>3
  <2> QED
    BY <1>8, <1>9, <2>1
<1>11. PICK m : m = Len(decoded) + 1
  OBVIOUS
<1>12. /\ decoded' \in Seq(Values) /\ DOMAIN decoded' = DOMAIN decoded \cup {m} /\ m \notin DOMAIN decoded
       /\ decoded'[m] = v /\ \A n \in DOMAIN decoded : decoded'[n] = decoded[n]
  <2>1. DOMAIN decoded = 1 .. Len(decoded) /\ Len(decoded) \in Nat /\ v \in Values /\ decoded' = Append(decoded, v)
    BY <1>1, <1>2, <1>3, <1>4
  <2>2. /\ Append(decoded, v) \in Seq(Values) /\ DOMAIN Append(decoded, v) = 1 .. m
        /\ Append(decoded, v)[m] = v /\ \A n \in 1 .. Len(decoded) : Append(decoded, v)[n] = decoded[n]
    BY <1>2, <1>11, <2>1
  <2>3. 1 .. m = (1 .. Len(decoded)) \cup {m} /\ m \notin 1 .. Len(decoded)
    BY <1>11, <2>1
  <2> QED
    BY <2>1, <2>2, <2>3
<1>13. Leaves' = Leaves \cup ({m} \X N) /\ \A x : <<m, x>> \notin Leaves
  <2>1. \A p : p \in Leaves <=> \E n \in DOMAIN decoded : p \in {n} \X NonZero(decoded[n])
    BY DEF Leaves
  <2>2. \A p : p \in Leaves' <=> \E n \in DOMAIN decoded' : p \in {n} \X NonZero(decoded'[n])
    BY DEF Leaves
  <2>3. \A p : p \in Leaves' <=> p \in Leaves \/ p \in {m} \X N
    BY <1>3, <1>12, <2>1, <2>2
  <2>4. \A n, x : <<m, x>> \in {n} \X NonZero(decoded[n]) => m = n
    OBVIOUS
  <2>5. \A x : <<m, x>> \notin Leaves
    BY <1>12, <2>1, <2>4
  <2> QED
    BY <2>3, <2>5
<1>14. IsFiniteSet(Leaves') /\ Cardinality(Leaves') = Cardinality(Leaves) + k
  <2>1. /\ IsFiniteSet(Leaves \cup ({m} \X N))
        /\ Cardinality(Leaves \cup ({m} \X N)) = Cardinality(Leaves) + Cardinality(N)
    <3>1. IsFiniteSet(Leaves) /\ IsFiniteSet(N) /\ \A x : <<m, x>> \notin Leaves
      BY <1>2, <1>4, <1>13
    <3> QED
      BY <3>1, AddPairs
  <2> QED
    BY <1>6, <1>13, <2>1
<1>15. Said' = Said
  <2>1. d.type \in AllTypes /\ checked \subseteq AllTypes
    BY LabGobAssumption DEF AllTypes, WalkInv, WalkTypeOK
  <2> QED
    BY <1>1, <2>1, WalkBegin, SaidSame
<1>16. Cardinality(Said) \in Nat /\ Cardinality(Owed) \in Nat /\ Cardinality(Leaves) \in Nat
  BY <1>2, FS_CardinalityType
<1>17. errorCount + (Cardinality(Owed) + k) = Cardinality(Said) + (Cardinality(Leaves) + k)
  <2>1. k \in Nat
    BY <1>5, <1>6
  <2> QED
    BY <1>2, <1>16, <2>1
<1>18. CountTypeOK'
  BY <1>1, <1>2, <1>7, <1>10, <1>12, <1>14, <1>15 DEF CountTypeOK
<1> QED
  BY <1>1, <1>2, <1>10, <1>14, <1>15, <1>17, <1>18 DEF CountInv

LEMMA StepCount ==
  ASSUME CountsLeaves
  PROVE  WalkInv /\ CountInv /\ [GobNext]_gobVars => CountInv'
<1> SUFFICES ASSUME WalkInv, CountInv, [GobNext]_gobVars PROVE CountInv'
  OBVIOUS
<1>1. checked \subseteq AllTypes /\ Types \subseteq AllTypes
  BY LabGobAssumption DEF WalkInv, WalkTypeOK, AllTypes
<1>2. ASSUME NEW g \in Goroutines, NEW t \in Types, Encode(g, t) PROVE CountInv'
  <2>1. /\ checkValue(g, t) /\ checked' = checked /\ t \in AllTypes
        /\ UNCHANGED <<errorCount, warnings, todo, decoded>>
    BY <1>1, <1>2 DEF Encode
  <2>2. \A u, x : Walking(u, x)' <=> Walking(u, x)
    BY <2>1, WalkBegin
  <2> QED
    BY <1>1, <2>1, <2>2, SaidSame, CountSame
<1>3. ASSUME NEW g \in Goroutines, Enter(g) PROVE CountInv'
  <2>1. /\ stack[g] # <<>> /\ Top(g).next = 0 /\ asked' = asked /\ checked' = checked \cup {Top(g).type}
        /\ IF Top(g).type \in checked THEN Return(g)
           ELSE stack' = [stack EXCEPT ![g][Len(stack[g])].next = 1]
        /\ UNCHANGED <<errorCount, warnings, todo, decoded>>
    BY <1>3 DEF Enter, history
  <2>2. CASE Top(g).type \in checked
    <3>1. checked' = checked /\ Return(g)
      BY <2>1, <2>2
    <3>2. \A t \in AllTypes : \A x \in DOMAIN Parts[t] : Walking(t, x)' <=> Walking(t, x)
      BY <2>1, <2>2, <3>1, WalkReturn
    <3> QED
      BY <1>1, <2>1, <3>1, <3>2, SaidSame, CountSame
  <2>3. CASE Top(g).type \notin checked
    BY <2>1, <2>3, SaidEnter, CountSame
  <2> QED
    BY <2>2, <2>3
<1>4. ASSUME NEW g \in Goroutines, Leave(g) PROVE CountInv'
  <2>1. UNCHANGED <<checked, asked, errorCount, warnings, todo, decoded>>
    BY <1>4 DEF Leave, history
  <2>2. \A t \in AllTypes : \A x \in DOMAIN Parts[t] : Walking(t, x)' <=> Walking(t, x)
    BY <1>4, <2>1, WalkReturn DEF Leave
  <2> QED
    BY <1>1, <2>1, <2>2, SaidSame, CountSame
<1>5. ASSUME UNCHANGED gobVars PROVE CountInv'
  <2>1. Said' = Said
    BY <1>5 DEF gobVars, history, Said, Walking
  <2> QED
    BY <1>5, <2>1, CountSame DEF gobVars, history
<1> QED
  BY <1>2, <1>3, <1>4, <1>5, CountDecode, CountVisit, CountReport DEF GobNext, GobStep, checkType

LEMMA InitCount == GobInit => CountInv
<1> SUFFICES ASSUME GobInit PROVE CountInv
  OBVIOUS
<1>1. /\ checked = {} /\ errorCount = 0 /\ warnings = 0 /\ todo = [g \in Goroutines |-> 0] /\ decoded = <<>>
  BY DEF GobInit
<1>2. Said = {} /\ Leaves = {}
  BY <1>1 DEF Said, LowerCase, Leaves
<1>3. Owed = {}
  BY <1>1 DEF Owed
<1>4. todo \in [Goroutines -> Nat] /\ decoded \in Seq(Values)
  BY <1>1
<1>5. IsFiniteSet({}) /\ Cardinality({}) = 0
  BY FS_EmptySet
<1>6. 0 \in Nat /\ 0 <= 1 /\ 0 + 0 = 0 + 0
  OBVIOUS
<1> QED
  BY <1>1, <1>2, <1>3, <1>4, <1>5, <1>6 DEF CountInv, CountTypeOK

\* However the goroutines interleave, nothing is complained of twice and nothing
\* is left out: when no check is under way errorCount is the number of the
\* lower-case fields of the types sent, with all they are made of, and of the
\* non-zero leaves of the values decoded into, and one warning at most was printed
\* (labgob.go:72-177).  That checkDefault1 comes to the leaves of one value, each
\* once, is the hypothesis.
THEOREM FaultsComplainedOnce ==
  ASSUME CountsLeaves
  PROVE  GobSpec => []ComplainedOnce
<1>1. ASSUME WalkInv, CountInv PROVE ComplainedOnce
  <2>1. SUFFICES ASSUME \A g \in Goroutines : Idle(g)
                 PROVE  errorCount = Cardinality(LowerCase(Reachable(asked))) + Cardinality(Leaves)
    BY <1>1 DEF ComplainedOnce, CountInv, Leaves
  <2>2. \A g \in Goroutines : DOMAIN stack[g] = {} /\ todo[g] = 0
    BY <2>1 DEF Idle
  <2>3. Said = LowerCase(Reachable(asked))
    <3>1. Said = LowerCase(checked)
      BY <2>2 DEF Said, Walking
    <3>2. checked = Reachable(asked)
      BY <1>1, <2>1, WalkCovers DEF AllChecked
    <3> QED
      BY <3>1, <3>2
  <2>4. Owed = {}
    BY <2>2 DEF Owed
  <2>5. Cardinality(Owed) = 0
    BY <2>4, FS_EmptySet
  <2> QED
    BY <1>1, <2>3, <2>5 DEF CountInv, CountTypeOK
<1>2. CountsLeaves
  OBVIOUS
<1>3. WalkInv /\ CountInv /\ [GobNext]_gobVars => WalkInv' /\ CountInv'
  BY <1>2, StepWalk, StepCount
<1> QED
  BY <1>1, <1>3, InitWalk, InitCount, PTL DEF GobSpec

====
