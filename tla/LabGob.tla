--------------------------------- MODULE LabGob ---------------------------------
(***************************************************************************)
(* The checks that src/labgob/labgob.go makes before it encodes or decodes *)
(* a value: checkType walks the type, once for every type of the program,  *)
(* and complains of lower-case fields; checkDefault walks the value a      *)
(* reply is decoded into and complains of what is not zero.  Goroutines    *)
(* share checked and errorCount, and hold mu for one test or count at a    *)
(* time.  encoding/gob itself, which each of them calls next, is external  *)
(* and leaves both alone.                                                  *)
(***************************************************************************)
EXTENDS Integers, Sequences, FiniteSets, SequencesExt

CONSTANTS
  Goroutines,
  Types,         \* the types that are encoded or registered
  Parts,         \* for each type the sequence of [lower, type] that checkType
                 \*   visits: a struct's fields, or the types of its elements;
                 \*   types may refer to each other and to themselves
  Targets,       \* the [type, value] pairs that are decoded into
  MaxOps         \* bound: operations of each goroutine

\* A value is [kind |-> "struct", fields |-> seq of values],
\* [kind |-> "ptr", elem |-> seq of at most one value],
\* [kind |-> "basic", zero |-> BOOLEAN] or [kind |-> "other"].  No basic one is
\* in a lower-case field at most two levels down: Interface() panics on those.

ASSUME LabGobAssumption ==
  /\ \A t \in DOMAIN Parts : Parts[t] \in Seq([lower : BOOLEAN, type : DOMAIN Parts])
  /\ Types \subseteq DOMAIN Parts
  /\ \A d \in Targets : d.type \in DOMAIN Parts

VARIABLES
  checked,       \* the types seen so far
  errorCount,
  warnings,      \* warnings printed by checkDefault1
  stack,         \* the calls of checkType each goroutine is in
  todo,          \* the non-zero leaves checkDefault1 has still to report
  ops,           \* operations begun so far
  asked,         \* history: the types that were passed to checkValue
  decoded        \* history: the values that were decoded into, in a sequence

history == <<asked, decoded>>
gobVars == <<checked, errorCount, warnings, stack, todo, ops, history>>

Idle(g) == stack[g] = <<>> /\ todo[g] = 0

\* A call of checkType that has not looked at checked yet.
Fresh(t) == [type |-> t, next |-> 0]

-----------------------------------------------------------------------------
(* checkDefault1: the number of non-zero leaves it comes to                *)

\* What a call counts itself, and the values it calls itself for, one level down.
Leaf(v)     == IF v.kind = "basic" /\ ~v.zero THEN 1 ELSE 0
Children(v) == IF v.kind = "struct" THEN v.fields ELSE IF v.kind = "ptr" THEN v.elem ELSE <<>>

AtDepth3Early(v) == 0

\* The calls with depth 3, 2 and 1; one with depth 4 returns at once.
AtDepth3(v) == Leaf(v)
AtDepth2(v) == FoldLeft(LAMBDA sum, f : sum + AtDepth3(f), Leaf(v), Children(v))
checkDefault1(v) == FoldLeft(LAMBDA sum, f : sum + AtDepth2(f), Leaf(v), Children(v))

-----------------------------------------------------------------------------
(* A goroutine encodes, registers or decodes                               *)

checkValue(g, t) ==
  /\ Idle(g) /\ ops[g] < MaxOps
  /\ ops' = [ops EXCEPT ![g] = @ + 1]
  /\ stack' = [stack EXCEPT ![g] = <<Fresh(t)>>]
  /\ asked' = asked \cup {t}

\* Encode, EncodeValue, Register and RegisterName.
Encode(g, t) ==
  /\ checkValue(g, t)
  /\ UNCHANGED <<checked, errorCount, warnings, todo, decoded>>

\* Decode also looks at the value, after the type.
Decode(g, d) ==
  /\ checkValue(g, d.type)
  /\ todo' = [todo EXCEPT ![g] = checkDefault1(d.value)]
  /\ decoded' = Append(decoded, d.value)
  /\ UNCHANGED <<checked, errorCount, warnings>>

Top(g)      == Last(stack[g])
Return(g)   == stack' = [stack EXCEPT ![g] = Front(@)]

EnterUnmarked(g) ==
  /\ stack[g] # <<>> /\ Top(g).next = 0
  /\ IF Top(g).type \in checked THEN Return(g)
     ELSE stack' = [stack EXCEPT ![g][Len(stack[g])].next = 1]
  /\ UNCHANGED <<checked, errorCount, warnings, todo, ops, history>>

EnterWaits(g) ==
  /\ stack[g] # <<>> /\ Top(g).next = 0
  /\ Top(g).type \notin checked
  /\ stack' = [stack EXCEPT ![g][Len(stack[g])].next = 1]
  /\ checked' = checked \cup {Top(g).type}
  /\ UNCHANGED <<errorCount, warnings, todo, ops, history>>

\* checkType begins: the test and the assignment are made under the lock.
Enter(g) ==
  /\ stack[g] # <<>> /\ Top(g).next = 0
  /\ IF Top(g).type \in checked THEN Return(g)
     ELSE stack' = [stack EXCEPT ![g][Len(stack[g])].next = 1]
  /\ checked' = checked \cup {Top(g).type}
  /\ UNCHANGED <<errorCount, warnings, todo, ops, history>>

\* One turn of its loop: complain of the name, go into the type.
Visit(g) ==
  LET f == Top(g)
      p == Parts[f.type][f.next]
  IN
  /\ stack[g] # <<>> /\ f.next \in DOMAIN Parts[f.type]
  /\ errorCount' = errorCount + (IF p.lower THEN 1 ELSE 0)
  /\ stack' = [stack EXCEPT ![g] =
                 Append([stack[g] EXCEPT ![Len(stack[g])].next = f.next + 1], Fresh(p.type))]
  /\ UNCHANGED <<checked, warnings, todo, ops, history>>

Leave(g) ==
  /\ stack[g] # <<>> /\ Top(g).next > Len(Parts[Top(g).type])
  /\ Return(g)
  /\ UNCHANGED <<checked, errorCount, warnings, todo, ops, history>>

checkType(g) == Enter(g) \/ Visit(g) \/ Leave(g)

\* checkDefault1 at a non-zero leaf: it prints only if nothing was ever
\* complained of, and counts in any case.
Report(g) ==
  /\ stack[g] = <<>> /\ todo[g] > 0
  /\ warnings' = warnings + (IF errorCount < 1 THEN 1 ELSE 0)
  /\ errorCount' = errorCount + 1
  /\ todo' = [todo EXCEPT ![g] = @ - 1]
  /\ UNCHANGED <<checked, stack, ops, history>>

GobInit ==
  /\ checked = {}
  /\ errorCount = 0
  /\ warnings = 0
  /\ stack = [g \in Goroutines |-> <<>>]
  /\ todo = [g \in Goroutines |-> 0]
  /\ ops = [g \in Goroutines |-> 0]
  /\ asked = {}
  /\ decoded = <<>>

\* What a goroutine that has begun an operation does next.
GobStep(g) == checkType(g) \/ Report(g)

GobNext ==
  \E g \in Goroutines : \/ \E t \in Types : Encode(g, t)
                        \/ \E d \in Targets : Decode(g, d)
                        \/ GobStep(g)

GobSpec == GobInit /\ [][GobNext]_gobVars

\* Every goroutine is scheduled.
GobFairness == \A g \in Goroutines : WF_gobVars(GobStep(g))

-----------------------------------------------------------------------------

\* The types that those in S are made of: what every set has that has them
\* and, with a type, all its parts.
Closed(C) == \A t \in C : \A x \in DOMAIN Parts[t] : Parts[t][x].type \in C
Reachable(S) ==
  {t \in DOMAIN Parts : \A C \in SUBSET DOMAIN Parts : S \subseteq C /\ Closed(C) => t \in C}

\* The lower-case fields of the types in S.
LowerCase(S) == {p \in UNION {{t} \X DOMAIN Parts[t] : t \in S} : Parts[p[1]][p[2]].lower}

\* The leaves of a value that are at most two levels down and not zero, each
\* by the path to it.
At(v, path) == FoldLeft(LAMBDA u, x : Children(u)[x], v, path)
Places(v) ==
  LET under(p) == {Append(p, x) : x \in DOMAIN Children(At(v, p))} IN
  {<<>>} \cup under(<<>>) \cup UNION {under(p) : p \in under(<<>>)}
NonZero(v) == {p \in Places(v) : At(v, p).kind = "basic" /\ ~At(v, p).zero}

\* No two calls of checkType walk the same type at the same time, in one goroutine
\* or in two, so that a type that refers to itself cannot be walked forever
\* (labgob.go:75-85).
WalkedOnce ==
  \A g, h \in Goroutines : \A x \in DOMAIN stack[g], y \in DOMAIN stack[h] :
    /\ stack[g][x].next > 0 /\ stack[h][y].next > 0
    /\ stack[g][x].type = stack[h][y].type
    => g = h /\ x = y

\* "only complain once" (labgob.go:76), and not less: when no check is under
\* way each lower-case field of each type that was sent, or is a part of one that
\* was, counts once, whoever came to it, and so does each non-zero leaf at most
\* two levels down in each value that was decoded into.  The warning about such
\* leaves is printed once at most (159-172).
ComplainedOnce ==
  /\ warnings <= 1
  /\ (\A g \in Goroutines : Idle(g)) =>
       errorCount = Cardinality(LowerCase(Reachable(asked)))
                    + Cardinality(UNION {{n} \X NonZero(decoded[n]) : n \in DOMAIN decoded})

\* Every check ends (labgob.go:72-177), for types that refer to themselves and
\* for a goroutine that meets a type another one is still walking.
ChecksEnd == \A g \in Goroutines : stack[g] # <<>> ~> Idle(g)
====
