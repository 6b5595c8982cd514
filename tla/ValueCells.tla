----------------------------- MODULE ValueCells -----------------------------
(***************************************************************************)
(* The storage of ValueSlots as the interpreter keeps it: an aggregate     *)
(* lives in a cell of the heap (what a shared_ptr points to), a slot holds *)
(* a scalar or a reference, a path store changes a cell in place, and      *)
(* cloneValue copies exactly where src/interpreter/interpreter.cpp calls   *)
(* it.  Moves copy the reference and drop the slot it came from.           *)
(***************************************************************************)
EXTENDS Values, FiniteSets, SequencesExt

CONSTANTS
  Literals, Shapes, Paths,   \* as in ValueSlots
  MaxSlots,                  \* bounds: operands and locals in all the frames,
  MaxCalls,                  \*   frames of callers,
  MaxCells                   \*   cells alive after a step

ASSUME BoundsAssumption == {MaxSlots, MaxCalls, MaxCells} \subseteq Nat

Scalars == [int : Int] \cup [str : STRING] \cup [bool : BOOLEAN]

\* What IR instructions hold: literals of three types, the kind of an aggregate
\* and the names of its parts, and paths of at least one field or index.
ASSUME DataAssumption ==
  /\ Literals \subseteq Scalars
  /\ Shapes \subseteq [op : {"array", "map", "struct"}, keys : Seq(STRING)]
  /\ Paths \subseteq Seq(Scalars \cup [field : STRING]) \ {<<>>}

VARIABLES
  heap,                             \* the cells: address -> aggregate of scalars and references
  host, stack, locals, callers      \* as in ValueSlots, each slot a handle

vars == <<heap, host, stack, locals, callers>>

-----------------------------------------------------------------------------
(* Cells.                                                                  *)

Ref(c)   == [cell |-> c]
IsRef(h) == DOMAIN h = {"cell"}

Parts(a) == CASE IsArray(a) -> a.array [] IsMap(a) -> a.map [] IsStruct(a) -> a.struct.fields

WithParts(a, f) ==
  CASE IsArray(a) -> ArrayV(f) [] IsMap(a) -> MapV(f) [] IsStruct(a) -> StructV(a.struct.type, f)

\* The parts of the cell at c that are references, and where they lead.
RefsIn(hp, c) == {k \in DOMAIN Parts(hp[c]) : IsRef(Parts(hp[c])[k])}
Target(hp, c, k) == Parts(hp[c])[k].cell

\* The value a handle stands for.
ValueAt(hp) ==
  LET value[c \in DOMAIN hp] ==
        WithParts(hp[c], [k \in DOMAIN Parts(hp[c]) |->
                            IF k \in RefsIn(hp, c) THEN value[Target(hp, c, k)] ELSE Parts(hp[c])[k]])
  IN  value

Value(hp, h) == IF IsRef(h) THEN ValueAt(hp)[h.cell] ELSE h

Values(hp, handles) == [i \in DOMAIN handles |-> Value(hp, handles[i])]

\* An address: nothing in the code depends on it, but that it is new when the
\* n-th clone of a step allocates it.  0 is for the cells of earlier steps.
Address(n, path) == <<n, path>>

\* What a recursion over handles comes to: a node for each way to a cell.
Node(path, cell) == <<path, cell>>

Part(hp, x, k) == Node(Append(x[1], k), Target(hp, x[2], k))

\* The nodes no deeper than n.
UpTo(hp, handles) ==
  LET reach[n \in 0 .. MaxCells] ==
        IF n = 0 THEN {Node(<<i>>, handles[i].cell) : i \in {j \in DOMAIN handles : IsRef(handles[j])}}
        ELSE LET above == reach[n - 1]
             IN  above \cup UNION {{Part(hp, x, k) : k \in RefsIn(hp, x[2])} : x \in above}
  IN  reach

Nodes(hp, handles) == UpTo(hp, handles)[MaxCells]

\* The recursion returns: nothing is left below its nodes (bound: nothing
\* nests deeper than MaxCells).
Returns(hp, nodes) == \A x \in nodes : \A k \in RefsIn(hp, x[2]) : Part(hp, x, k) \in nodes

\* The cells of hp and some new ones.
Extended(hp, new) ==
  [c \in DOMAIN hp \cup DOMAIN new |-> IF c \in DOMAIN hp THEN hp[c] ELSE new[c]]

\* std::make_shared: a new cell.
Allocate(n, hp, a) ==
  LET new == Address(n, <<>>)
  IN  [heap |-> Extended(hp, [c \in {new} |-> a]), to |-> Ref(new)]

\* The handles, with a new cell for each of the nodes.
Cloned(n, hp, handles, nodes) ==
  LET of(c)   == CHOOSE x \in nodes : Address(n, x[1]) = c
      copy(x) == WithParts(hp[x[2]], [k \in DOMAIN Parts(hp[x[2]]) |->
                   IF k \in RefsIn(hp, x[2]) THEN Ref(Address(n, Append(x[1], k)))
                   ELSE Parts(hp[x[2]])[k]])
  IN  [heap |-> Extended(hp, [c \in {Address(n, x[1]) : x \in nodes} |-> copy(of(c))]),
       to   |-> [i \in DOMAIN handles |->
                   IF IsRef(handles[i]) THEN Ref(Address(n, <<i>>)) ELSE handles[i]]]

\* Mutation: the copy of an aggregate shares its parts.
cloneShallow(n, hp, handles) ==
  LET refs == {i \in DOMAIN handles : IsRef(handles[i])}
  IN  {[heap |-> Extended(hp, [c \in {Address(n, <<i>>) : i \in refs} |-> hp[handles[c[2][1]].cell]]),
        to   |-> [i \in DOMAIN handles |-> IF i \in refs THEN Ref(Address(n, <<i>>)) ELSE handles[i]]]}

\* cloneValue of each of several handles, new cells all the way down: the
\* outcome, if the recursion returns.
cloneValues(n, hp, handles) ==
  {Cloned(n, hp, handles, nodes) :
     nodes \in {all \in {Nodes(hp, handles)} : Returns(hp, all)}}

\* cloneValue.
cloneValue(n, hp, h) == {[heap |-> copy.heap, to |-> copy.to[1]] : copy \in cloneValues(n, hp, <<h>>)}

-----------------------------------------------------------------------------
(* Steps.                                                                  *)

\* The slots by name: the host's value, and the operands and locals of each
\* frame, the running one last.
Frames(st, lo, ca) == Append(ca, [stack |-> st, locals |-> lo])

SlotNames(frames) ==
  {<<"host", 0, 0>>}
    \cup (UNION {{<<"stack", f, i>> : i \in DOMAIN frames[f].stack} : f \in DOMAIN frames})
    \cup (UNION {{<<"locals", f, i>> : i \in DOMAIN frames[f].locals} : f \in DOMAIN frames})

Held(ho, frames) ==
  [s \in SlotNames(frames) |->
     CASE s[1] = "host"   -> ho
       [] s[1] = "stack"  -> frames[s[2]].stack[s[3]]
       [] s[1] = "locals" -> frames[s[2]].locals[s[3]]]

Moved(at, h)  == IF IsRef(h) THEN Ref(at[h.cell]) ELSE h
AllMoved(at, handles) == [i \in DOMAIN handles |-> Moved(at, handles[i])]

\* The slots after a step.  What no slot reaches any more is freed; the rest
\* gets the address that says how a slot reaches it.
Becomes(hp, ho, st, lo, ca) ==
  LET held   == Held(ho, Frames(st, lo, ca))
      nodes  == Nodes(hp, held)
      live   == {x[2] : x \in nodes}
      at     == [c \in live |-> Address(0, (CHOOSE x \in nodes : x[2] = c)[1])]
      old(b) == CHOOSE c \in live : at[c] = b
  IN  /\ Len(ca) <= MaxCalls /\ Cardinality(DOMAIN held) - 1 <= MaxSlots
      /\ Returns(hp, nodes) /\ Cardinality(live) <= MaxCells
      /\ heap'    = [b \in {at[c] : c \in live} |-> WithParts(hp[old(b)], AllMoved(at, Parts(hp[old(b)])))]
      /\ host'    = Moved(at, ho)
      /\ stack'   = AllMoved(at, st)
      /\ locals'  = AllMoved(at, lo)
      /\ callers' = [f \in DOMAIN ca |-> [stack  |-> AllMoved(at, ca[f].stack),
                                          locals |-> AllMoved(at, ca[f].locals)]]

Working(hp, st, lo) == Becomes(hp, host, st, lo, callers)

Keep(n)  == SubSeq(stack, 1, Len(stack) - n)
Taken(n) == SubSeq(stack, Len(stack) - n + 1, Len(stack))

\* The handle with the cell's contents put in its place, for one step of a path.
Opened(h) == IF IsRef(h) THEN heap[h.cell] ELSE h

PushLiteral == \E v \in Literals : Working(heap, Append(stack, v), locals)

Pop == stack # <<>> /\ Working(heap, Keep(1), locals)

\* Mutation: a local is loaded by copying the reference.
LoadShared == \E i \in 1 .. Len(locals) : Working(heap, Append(stack, locals[i]), locals)

LoadLocal ==
  \E i \in 1 .. Len(locals) : \E copy \in cloneValue(1, heap, locals[i]) :
    Working(copy.heap, Append(stack, copy.to), locals)

StoreLocal ==
  /\ stack # <<>>
  /\ \E i \in 1 .. Len(locals) + 1 : \E copy \in cloneValue(1, heap, Last(stack)) :
       Working(copy.heap, Keep(1),
               [j \in 1 .. Len(locals) \cup {i} |-> IF j = i THEN copy.to ELSE locals[j]])

Aggregate(shape, parts) ==
  CASE shape.op = "array"  -> ArrayV(parts)
    [] shape.op = "map"    -> BuiltMap(shape.keys, parts)
    [] shape.op = "struct" -> BuiltStruct("T", shape.keys, parts)

\* buildStruct, buildArray, buildMap: a new cell with clones of the operands.
Build ==
  \E shape \in Shapes :
    LET n == Len(shape.keys)
    IN  /\ n <= Len(stack)
        /\ \E copies \in cloneValues(1, heap, Taken(n)) :
           LET made == Allocate(2, copies.heap, Aggregate(shape, copies.to))
           IN  Working(made.heap, Append(Keep(n), made.to), locals)

\* loadField, loadIndex: a clone of the part replaces the whole.
LoadChild ==
  /\ stack # <<>>
  /\ \E k \in {Last(p) : p \in Paths} :
       /\ StepError(Opened(Last(stack)), k, FALSE) = "ok"
       /\ \E copy \in cloneValue(1, heap, Child(Opened(Last(stack)), k)) :
            Working(copy.heap, Append(Keep(1), copy.to), locals)

\* The handles on the way from h along p.
Walked(h, p) ==
  LET at[i \in 0 .. Len(p)] == IF i = 0 THEN h ELSE Child(Opened(at[i - 1]), p[i])
  IN  at

\* storeFieldPath, storeIndexPath: the cell at the end of the path is changed
\* in place to hold a clone of the assigned value, then a clone of the root is
\* pushed.  (The indexes of an index path are scalars: they need no cell.)
StorePath ==
  /\ Len(stack) >= 2
  /\ \E p \in Paths :
       /\ PathError(Value(heap, Last(stack)), p) = "ok"
       /\ \E leaf \in cloneValue(1, heap, stack[Len(stack) - 1]) :
            LET at  == Walked(Last(stack), p)[Len(p) - 1].cell
                set == [leaf.heap EXCEPT ![at] = ReplaceChild(@, Last(p), leaf.to)]
            IN  \E root \in cloneValue(2, set, Last(stack)) :
                  Working(root.heap, Append(Keep(2), root.to), locals)

\* callFunction: the arguments leave the stack and are cloned into the locals.
CallFunction ==
  \E n \in 0 .. Len(stack) : \E args \in cloneValues(1, heap, Taken(n)) :
    Becomes(args.heap, host, <<>>, args.to,
            Append(callers, [stack |-> Keep(n), locals |-> locals]))

Result == IF stack = <<>> THEN DefaultValue ELSE Last(stack)

\* The rest of callFunction: the callee's slots go, a clone of its value stays.
ReturnToCaller ==
  /\ callers # <<>>
  /\ \E copy \in cloneValue(1, heap, Result) :
       Becomes(copy.heap, host, Append(Last(callers).stack, copy.to),
               Last(callers).locals, Front(callers))

\* Return: the host gets a clone; the slots stay until the next call.
Finish ==
  /\ callers = <<>>
  /\ \E copy \in cloneValue(1, heap, Result) : Becomes(copy.heap, copy.to, stack, locals, callers)

\* executeFunction: the host keeps its value, the parameter is a clone.
ExecuteFunction ==
  \E copy \in cloneValue(1, heap, host) : Becomes(copy.heap, host, <<>>, <<copy.to>>, <<>>)

Init ==
  /\ heap = [c \in {} |-> <<>>]
  /\ host = DefaultValue /\ stack = <<>> /\ locals = <<>> /\ callers = <<>>

Next ==
  \/ PushLiteral \/ Pop \/ LoadLocal \/ StoreLocal \/ Build \/ LoadChild \/ StorePath
  \/ CallFunction \/ ReturnToCaller \/ Finish \/ ExecuteFunction

Spec == Init /\ [][Next]_vars

-----------------------------------------------------------------------------

\* Every slot keeps the value it was given until that slot is written: no
\* store through one reference is seen through another local, parameter,
\* return value or field (value.h, cloneValue).
Slots == INSTANCE ValueSlots WITH
  host    <- Value(heap, host),
  stack   <- Values(heap, stack),
  locals  <- Values(heap, locals),
  callers <- [i \in DOMAIN callers |-> [stack  |-> Values(heap, callers[i].stack),
                                        locals |-> Values(heap, callers[i].locals)]]

ImplementsSlots == Slots!Spec

\* Why it is so: a cell has one owner, a slot or a part of another cell, so
\* that an in-place store has nobody else to be seen by.
Owners(c) ==
  LET held == Held(host, Frames(stack, locals, callers))
  IN  {<<"slot", s>> : s \in {t \in DOMAIN held : held[t] = Ref(c)}}
      \cup UNION {{<<"part", <<d, k>>>> : k \in {l \in RefsIn(heap, d) : Target(heap, d, l) = c}}
                   : d \in DOMAIN heap}

OneOwner == \A c \in DOMAIN heap : Cardinality(Owners(c)) = 1
=============================================================================
