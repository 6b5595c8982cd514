# A TLA+ development of velo-lang

Velo is a small statically typed language implemented in C++: a compiler front
end, a stack-based IR with an interpreter, a second stack-based bytecode with a
virtual machine, and a blocking HTTP server that dispatches requests to Velo
functions. This directory specifies the program from its source texts to the
answers its server sends, checks it with TLC on small instances, and proves the
main results about the engines, the storage of values and the server with TLAPS. Paths below are
relative to the repository.

## 1. Inventory

```
text --Lexer--> tokens --Parser--> AST --SemanticAnalyzer--> AST
   AST --Lowerer--> IR module --Interpreter--> ExecutionResult   (velo run, HTTP)
                    IR module --Compiler--> bytecode --VirtualMachine--> ExecutionResult
                                            bytecode <--FileFormat--> text; --Disassembler--> text
   velo serve:  compile once --> HttpServer loop --> pipeline --> router --> handler --> Interpreter
```

The program is sequential: no threads, no callbacks. Concurrency exists only
between the HTTP server and its clients. What is hard to test is elsewhere: state
that outlives a call, stack heights that must agree along every path of compiled
code, two engines kept equal by hand, values that share cells, a parser that goes
on after an error, and byte streams cut in arbitrary places.

| Component | State it keeps | Operations | Talks to | Hard behaviour | What makes it correct |
|---|---|---|---|---|---|
| Lexer (`src/lexer`) | position in the text | next token | parser | literals and comments cut off by the end of the text | every character belongs to one token, the longest there is |
| Parser (`src/parser`) | token index, diagnostics | one function per production, `sync` | AST | recovery after an error | the tree is the file's, grouping included; what is dropped is reported; progress |
| Semantic analyzer (`src/semantic`) | scopes, function and struct tables, imports | declare, check each node, check annotations | diagnostics, module registry | order of lookups, checks that depend on where an expression stands | it accepts the well-typed programs and no others |
| Lowerer (`src/ir/lowerer.cpp`) | scope stack, slot counter, loop stack, code of the current function | lower each statement and expression | interpreter, compiler, router (annotations) | patching of jumps, slots of nested scopes, `&&`/`\|\|` with operands pending, write-back of assigned paths | meaning preserved; one stack height per instruction |
| Interpreter (`src/interpreter`) | `_stack`, `_locals`, `_lastJumpTaken`, native activations | `execute`, `executeFunction`, one handler per opcode | builtins, HTTP handler | failure at depth, reuse of the object | isolation of calls; no structural failures |
| Values (`src/runtime/value.cpp`) | shared cells of aggregates | `cloneValue`, path stores | both engines | aliasing | value semantics |
| Builtins (`src/runtime/runtime.cpp`) | registry name -> function | register, call | both engines, analyzer | arity, void builtins, JSON texts | what is written is read back |
| Bytecode compiler (`bytecode/compiler.h`) | – | map each instruction | VM | operands used for two things | the opcode means on the VM what it meant in the IR |
| VM (`bytecode/vm.h`) | as the interpreter | as the interpreter | builtins | a hand-made copy of the interpreter | conformance with the language |
| File format (`bytecode/file_format.h`) | the function being read | write, read a line | files | strings with line breaks, truncation | round trip, or a refusal |
| HTTP messages (`http/http_message.cpp`) | – | parse, serialize | server | framing on prefixes | the answer does not depend on where the stream was cut |
| Router and handler (`http_router`, `http_handler`) | route table | build, find, validate, execute | lowered annotations | two notions of "a route" | only fitting functions are dispatched |
| HTTP server (`http_server.cpp`) | server and client descriptors, handled count, the request received | compile, listen, accept, recv, send, close | sockets, pipeline | lost clients, partial requests, limits | own answer, whole answer, in order, limits, progress |
| Driver (`src/driver`, `apps/velo`) | mode | run the stages | all | which stage follows which error | no stage after a failed one; every command returns |
| Printers, disassembler, diagnostics, sources, module registry | lists and tables | append, look up, print | all | – | – |

The hazards of this code, each with its line and the properties that watch it,
are listed under `hazards` in `PROJECT.json`.

## 2. The modules

| Module | Models | Notes |
|---|---|---|
| **Engines** | | |
| `Values` | `Value`, integer arithmetic, equality, path loads and stores | pure operators; ints are `MinInt .. MaxInt` and wrap |
| `Runtime`, `StdBuiltins` | the builtin registry as the engines see it; console, string, int, bool, array and map builtins | the second gives the constants of the first |
| `Machine` | the state of an engine and the handlers the two engines write alike | one action per opcode, with every error path |
| `Interpreter` | the IR interpreter: `Machine` plus the handlers only it has | `Spec`, `FairSpec`, `Verified`, `Isolation`, `CallsEnd` |
| `BytecodeVM`, `MCBytecodeVM` | compiler and VM; its instances | `Machine` plus the VM's own handlers; `StepsAlike` relates it to `Interpreter` |
| `StackDiscipline`, `ShapeInference` | the contract between lowerer and engines: shapes of code, `ShapeHolds`, `NoStructuralError`; how TLC finds shapes | `Verified` and `VMVerified` check what `ShapeInference` finds |
| `ValueSlots` | abstract: slots hold values | what the storage of a program promises |
| `ValueCells`, `MCValueCells` | `shared_ptr` cells and `cloneValue` | implements `ValueSlots` |
| **Front end** | | |
| `Syntax` | the AST | shared by parser, analyzer, lowerer |
| `Lexer` | the scanner | recursive, TLC only; with `Covers`, `Longest`, which do not scan |
| `Parser` | every production, the diagnostics, recovery | expressions in one step, declarations and blocks as actions |
| `Printing` | how a tree is written, with the fewest parentheses | what the parser is compared with; maps to no code |
| `MCParser`, `MCParserRecovery` | the files parsed | |
| `Analyzer` | every check of the semantic analyzer | recursive, TLC only |
| `Typing` | abstract: which programs are well typed | maps to no code |
| `Lowerer` | every statement and expression of `lowerer.cpp` | recursive, TLC only |
| `Language` | abstract: what a program means | an evaluator over the AST with scopes; maps to no code |
| `Programs`, `TypedPrograms` | small programs as syntax trees | the second: each operator, literal, call, statement with operands of every type |
| `Driver` | the pipeline of `driver.cpp` around `Interpreter` | `CommandReturns` |
| `MCInterpreter`, `MCRawIR`, `MCDriver`, `MCAnalyzerHoles` | instances | host calls; handmade IR; files under commands; one program the analyzer should refuse |
| **Texts** | | |
| `JsonText` | JSON writer and reader of `runtime.cpp` | with `Denoted`, which does not scan |
| `WebBuiltins` | `json::` and `http::` builtins, `serializeHttpResponse` | |
| `FileFormat` | `write` and `read` of bytecode files | read line by line |
| `MCTexts` | texts as they are typed or arrive, and what their reader makes of them | |
| **HTTP** | | |
| `HttpMessage` | framing and parsing of requests | a message is a sequence of tokens |
| `HttpRouter` | analyzer's and router's view of routes, startup checks | |
| `HttpService` | abstract: each connection is served in one step | |
| `HttpServer`, `MCHttpServer` | accept loop, receive loop, pipeline, clients and network | implements `HttpService` |
| **Proofs** | | |
| `Machine_proofs`, `StackDiscipline_proofs`, `Interpreter_proofs`, `BytecodeVM_proofs`, `HttpServer_proofs`, `HttpRoutes_proofs`, `Values_proofs`, `ValueCells_proofs` | theorems | section 6 |

### State and actions against the code

*Engines.* `stack`, `locals` are `_stack`, `_locals`; `ip` is the local variable
of `executeFunc`; `frames` holds, per native activation of `callFunction`, the
stack and locals it moved aside. `history` and `request` record the host's calls
and results, `out` what was printed; nothing reads them. One iteration of the
loop in `executeFunc` is one action, which includes the failing ways out: `Fail`
unwinds all activations and leaves `_stack` and `_locals` as the failing function
had them, which is what the code does. `_lastJumpTaken` is written and consumed
inside one iteration, so it is no variable. `Execute` and `ExecuteFunction` are
the entry points `execute(module)` (which compares no argument count) and
`executeFunction(module, name, args)` (which does); both reset stack and locals.

*Values and cells.* In `Machine` arrays, maps and structs are immutable values.
The code keeps them behind `shared_ptr`s, stores into them in place, and relies on
`cloneValue` at its boundaries. `ValueCells` has those cells: a heap, slots that
hold a scalar or a reference, and a copy exactly where `interpreter.cpp` calls
`cloneValue`; moves do not copy. `ValueSlots` is the storage of `Machine` with the
control taken away: any instruction may come next. The refinement mapping reads a
slot as the value its cell stands for. The recursion of `cloneValue` is written as the set of its calls (`Nodes`:
a node for each way from a handle to a cell), and the outcome exists only if the recursion returns. An address
means nothing to the code; in the model it says which clone of a step allocated the cell, and after the step
how a slot reaches it.

*Front end.* A literal's spelling, a name and a type's name are model-level strings.
`Parser` parses an expression in one step, since nothing can be observed inside it,
and has an action for each turn of the loops that recover: those of the file, of a
struct and of a block. `open` is the C++ call stack of these loops. Diagnostics
are a set, so that a parser which reports one thing forever comes back to a state
it was in: that makes the missing progress visible as a cycle. The analyzer's
scopes, tables and codes are the code's; its diagnostics are codes without places.

*Texts.* A text is a sequence of symbols: characters where a reader looks at them
one by one, whole words or numbers where it takes them at once. Operands that the
lowerer encodes into a string (struct type and fields, paths) are records in the IR; the
VM's decoding of them, which disagrees with the lowerer, is modelled by what it
yields (`DecodedType`, `DecodedNames`).

*HTTP.* `pc` says where `run()` is; `serving` is `clientFd`; `buffer` is the
string in `readHttpRequestFromSocket`. `Recv` is one `recv` call and all that
follows before the next: append, look for completeness, and, when complete, the
whole pipeline (parse, route, run the handler, choose the response). A handler's
run is thus one step here; it is many in `Interpreter`. `Start` stands for
compiling the program, its checks, and `socket`/`bind`/`listen`, any of which may
fail. Clients connect, their bytes arrive one unit at a time, they shut down or
are lost at any moment; all this interleaves with every step of the server.
A message is a sequence of tokens (a request line, header lines, an empty line
ending in CRLF or LF, units of body); a `Content-Length` may be unreadable or so
large that the sum wraps (`SizeMax`).

*The environment* (`Connect`, `Arrive`, `Shut`, `Lose`) is external code: it is
modelled from how `http_server.cpp` uses sockets.

## 3. The runs

| Run | Question | What it shows |
|---|---|---|
| `interpreter_programs` | Does a source file, under each of five commands, get the treatment it should, and does what is lowered and run mean what the language says? | 710 files, well typed and ill typed, through analyzer, lowerer and interpreter: `AcceptsOnlyWellTyped` and `AcceptsAllWellTyped` compare the analyzer with `Typing`; `TypeSafe` says that an accepted program fails only by dividing, indexing or looking up; `Agrees` relates every final result, kind of error and output to `Language`; `Verified`, `ShapeHolds`, `NoStructuralError` check the stack discipline of the code and of every state; `CommandReturns` that each command ends |
| `analyzer_holes` | Is a program with mistakes that the documents say are diagnosed refused? | violated: deviations 4 to 9 of section 5 in one program |
| `interpreter_host` | Does one interpreter object leak anything from call to call? | `Isolation` over all sequences of three calls from eight kinds, failing, printing and recursing ones included; each call ends |
| `raw_ir` | Is well-shapedness really what keeps code safe? | each opcode on every pair of operands: code with a shape never fails structurally; every error path is taken |
| `value_cells` | Is there a `cloneValue` wherever one is needed? | any order of loads, stores, path loads and stores, builds, calls, returns and host calls: `OneOwner` (every cell is held once) and the refinement `ImplementsSlots` |
| `vm_programs` | Does the VM do what the language says? | `Conforms` on every program that reaches none of the three deviations below; all compiled code has the shape the VM needs (`VMVerified`: the exits of a function agree on whether they leave a value, and what follows a void call is a `Pop` of nothing else); `StepsAlike`: on such code the VM steps as the interpreter does, up to those three deviations; and every run ends |
| `vm_features` | Does the VM support what the release notes list? | violated: one trace shows deviations 1 to 3 |
| `parser_files` | Does the parser build the tree the file says, report where the file went wrong, lose nothing silently, and come back? | correct files with every grouping of two operators (`ReadsBack`); sixteen broken statements in five places (`RecoversAtSemicolon`, `GoodFilesEnd`); one program with each token left out, doubled or swapped (`NothingDropped`, `NotBeforeTheMistake`) |
| `parser_recovery` | Does the parser always come to the end of its file? | violated: deviation 10 |
| `texts_read` | Does each reader make of a text what it means, and take no cut text for a whole one? | lexer and JSON on all short texts over alphabets of the characters they tell apart, against definitions that do not scan; written JSON, bytecode files and HTTP answers cut after every symbol |
| `json_parse` | Does `json::parse` read what `json::stringify` writes? | violated: deviation 11 |
| `http_requests` | Framing, parsing, routing, startup; and do connections mix, is the limit kept, is everyone served in order and in the end? | seventeen messages in every division into pieces to fourteen programs by one client; two clients at once with a limit and without, lost or shut down at any moment, with failing `accept`s; the refinement `ImplementsService` |

Deadlock is not checked: an engine stops after `MaxRuns` calls, a parser at the
end of its file, a text when it is whole, a server at its limit or when it blocks on clients.

### Bounds

* `MaxInt = 7`: four-bit ints. They wrap, trap at `MinInt / -1`, truncate toward
  zero and give remainders of either sign, exactly as 32-bit ints do; every pair of
  interest is among them. For texts `MaxInt = 20`, so that two-digit numerals just fit and just do not.
* `MaxDepth = 6`, `Fuel = 20`: no program nests deeper or loops
  longer. Neither bound ever blocks a run: `CommandReturns` would fail if a call could
  not go on, and `Agrees` if the evaluator ran out of fuel. `MaxDepth = 2` in `raw_ir`,
  whose calls nest once.
* `MaxRuns = 1` for programs, 3 for `Isolation`: a call that leaves something
  behind, one that picks it up, and one in between.
* `Value` lists the values the programs build; the liveness properties show it blocks nothing.
* `MaxSlots = 3`, `MaxCalls = 1`, `MaxCells = 3`: two slots that could share a cell and one that
  is moved between them, a caller that waits, and aggregates nested once. Unreachable cells are
  collected and the others get the address that says how a slot reaches them, so the bound is on
  live cells. Arrays and structs only, since their cells are shared alike; the theorems of section 6 have
  maps too, and no bound.
* Parser: expressions of up to two binary operators, with each unary and postfix one; blocks
  nested twice; files of up to about 150 tokens. One mistake per file: what happens
  after recovery is then the question, and a second one would hide the answer.
* Texts: up to 4 to 6 characters from alphabets of 4 to 6. Each alphabet holds what one part
  of a reader tells apart (strings and escapes; operators; comments; words and numbers; nesting; keys).
* `MaxBytes = 6`, `BufferSize = 2`: the longest messages do not fit, some fit
  exactly, and every message needs several `recv`s, with every cut possible. `Pieces = 2`: a
  client can be lost between two sends. `SizeMax = 15` lets a stated length wrap the sum.
* Two clients and a limit of one: one leaves something behind, the other would pick it
  up, or is over the limit. The theorems about the server hold for any number.

### Fairness

* `WF(Step)`, `WF(VMStep)`, `WF(DriverNext)`: the loops of `executeFunc` and of the VM, and the pipeline, never wait.
* `WF(Next)` of `Parser`: it reads from memory. `ParserEnds` is refuted under it, so
  the cycle found is one the code runs through, and no idle parser.
* `WF(Server)`: the loop of `run()` takes its next step whenever no system call
  blocks it. `recv` blocks while nothing has arrived, `accept` while nobody is
  queued: these actions are then disabled. `send` is assumed not to block forever
  (clients read what they asked for), and handlers to terminate.
* `WF(Arrive(c))`: a connected client sends what it means to send.
* `WF(Shut(c))` is the hypothesis of `EveryoneServed` and of no other property: a client shuts its side down
  in the end. The server has no receive timeout, so without it one
  silent client keeps everyone else waiting. `FramedIsAnswered` needs no such
  assumption. `Lose`, `Connect` and failing `accept`s have no fairness.

## 4. The abstract specifications

* `Language` says what a program means without stacks, slots, jumps or frames. It
  is the promise that lowerer and interpreter keep together
  (`Agrees`), and that compiler and VM keep together for part of the language
  (`Conforms`). It shares with the model of the code only the value operations of
  `Values` (wrapping, path stores), and evaluates names through lexical scopes,
  short-circuit operators and jumps directly.
* `Typing` says which programs are well typed, without diagnostics, unknown types or
  an order of checks. `TypedPrograms` leaves out the mistakes the analyzer does not look for, which
  are those of `analyzer_holes`.
* `ValueSlots`: every slot holds a value of its own. `ValueCells` implements it (`ImplementsSlots`).
* `HttpService`: connections queue, and each is served in one step, in the order of connecting,
  at most once, with a right answer, with a part of one, or with nothing, and never more
  of them than the limit. `HttpServer` implements it (`ImplementsService`, also proved); `RecvEnd`, `Recv`,
  `SendPiece` and the network are stuttering steps, `Close` serves.
* `Interpreter` is what the VM is a copy of. `Interp` in `BytecodeVM` is the interpreter with the operand stack
  `Seen`: where a void call has just come back, the VM's stack with the int 0 the interpreter pushes.
  `StepsAlike` (also proved) says that a step of the VM on verified code is a step of `Interp`, or one of the three
  instructions the VM gets wrong. Without the mapping it is false: TLC refutes it with `Seen` replaced by `stack`.
* For texts: `Covers` and `Longest` (tokens), `Denoted` (JSON) say what a text means by
  quantifying over ways to cut it up, and a client of its own (`ClientRead`) reads the answers.

## 5. Where code and documents disagree

1. **VM, `NegInt`** (`vm.h:535`): the result pushed is int 0. The release notes of
   v0.5 and `docs/architecture/bytecode.md` list arithmetic with `NegInt` as supported.
2. **VM, `LogicalNot`** (`vm.h:560`): the result pushed is int 0, so that the next
   condition fails.
3. **VM, struct literals** (`vm.h:169`): the VM splits the operand at `|`, the
   lowerer writes `Type:field,field`; type and first field are wrong.
4. **Arguments** (`semantic_analyzer.cpp:608`): types of arguments are compared only where the call's own
   type is asked for, so not in a call statement and not inside another argument.
5. **Shadowed parameters** (`semantic_analyzer.cpp:804`): a local that shadows a parameter has the
   parameter's type.
6. **void** (`semantic_analyzer.cpp:1101`): a void call passes as an argument of type any.
7. **Function names** (`semantic_analyzer.cpp:680`): a function's name passes as a value and is lowered to nothing.
8. **Mixed assignment paths** (`lowerer.cpp:733`): `a.items[0] = 1` is accepted and lowered to nothing.
9. **Long callees** (`semantic_analyzer.cpp:748`): segments after the second are not looked at.
10. **Recovery** (`parser.cpp:879`): `sync()` may stand still, and its callers then report the same
    token forever; a return without its `;` suffices.
11. **JSON escapes** (`runtime.cpp:993`): `json::parse` takes escapes out of the whole text before the
    reader takes them out of its strings.

`velo run` and `velo serve` use the interpreter, which has none of the first three. The request size limit is
looked at before each `recv` only: `TypeOK` of `HttpServer` states the limit that holds, which is larger by
less than one buffer.

## 6. What is proved

For every value of the constants (any modules, host calls and values, any
depth; any clients, messages, programs and limits):

* `TypeCorrect`: `Spec => []TypeOK` for the interpreter. One lemma per family of handlers shows that the
  way an instruction ends (`Replace`, `Goto`, `Fail`, `Resume`) keeps the slots
  values; the frames need their own case at call and return.
* `VMTypeCorrect`: `VMSpec => []TypeOK` for the bytecode VM. The lemmas on the instructions the
  two engines share are stated about `Machine` (in `Machine_proofs`), so that each engine's own
  proof is about what differs: its three own handlers, the void call and the entry points.
* `ShapeKept`: `Spec => [](Verified /\ MainTakesNothing => ShapeHolds)`, and `StackSafety`:
  `Spec => []ShapedCodeIsSafe`, which gives `NoStructuralError` under the same two conditions on the module that is
  loaded. The inductive invariant is
  `ShapeInv == ShapeHolds /\ HistoryIsSeq /\ NoStructuralError`. `ShapeHolds` speaks
  about waiting frames, not only the running activation: a return is safe only because
  the frame it uncovers has the height its call site had, and this must have been
  remembered since the call. `NoStructuralError` follows from it step by step (at a shaped
  instruction the structural ways to fail are disabled), and `TypeOK`, proved first, gives the
  domains in which all this is meaningful. A shape gives heights only where control can get to; the lemmas of
  `StackDiscipline_proofs` are about the handlers of `Machine`, for any number of values (`left`) that
  a call of each function leaves: one on the interpreter. `MainTakesNothing` is there because `velo run` starts
  `main` without counting its parameters; the analyzer has refused any (SEM004). `VerifiedNeverFails`
  draws the conclusion for a set of modules that were all verified.
* `CallsAreIsolated`: `Spec => [](MainTakesNothing => Isolation)`, for any number of calls of any kind, at any depth.
  `Isolation` compares two calls in one history, and no invariant on states alone speaks about both. So the proof
  first writes the engine as a function: `Effect` gives the next state of a call, or its result, from the
  running activation, the frames and the output alone, and `StepDoes` shows that every action does what
  `Effect` says, whatever else the object holds. `Reach` is the least set that contains the start of a call and is closed
  under `Effect`, written without recursion as what lies in every such set. The inductive invariant `Served`
  says that the call being served is in a state its request reaches, and that every entry of `history` is the
  last state its own request reaches (or its refusal). `LastIsUnique` (a request reaches one last
  state) then gives the property. `Effect` translates the handlers of `Machine` a second time, but
  nothing rests on trust: where it differed from them `StepDoes` would fail. Without `MainTakesNothing` the theorem is
  false: `execute` would run a `main` with parameters on no arguments where `executeFunction` refuses to.
* `VMShapeKept` and `VMStackSafety`: the same as for the interpreter for `VMSpec`, where a void call leaves nothing. The
  module must be `VMWellShaped`: `left` is then read off the heights at a function's exits, which must
  agree. At a return the frame that is uncovered waits for the very function that
  returns (`Callee` in `ShapeHolds`), so that it gets as many values as its code counts on.
* `EnginesAgree`: `VMSpec => StepsAlike`, for any modules. The handlers shared through `Machine` agree wherever
  `Seen` is the stack itself; the work is in the `Pop` after a void call (the interpreter pops the int 0, the VM an empty
  stack, and `VMVerified` says that it is empty), in the return that leads there, and in showing from `ShapeInv`
  that the checks in which the two differ (the empty path of `StoreFieldPath`) never matter.
  `PlainRunsAgree`: hence a run of the VM on verified code that comes to none of `OwnOps` is a run of the
  interpreter. `CompilesToItself`: it is a run of the same code, since the compiler changes nothing
  in what the lowerer emits.
* `OneConnection`, `AnswersDoNotMix`, `LimitKept`: `TypeOK`, `OwnAnswer` and `ConnectionLimit` of the server. The inductive
  invariant is `ServerInv == TypeOK /\ Types /\ Queue /\ Receipt /\ Count`. `Receipt` is its core: while
  receiving, the buffer is the prefix of the served client's message that `recv` has taken, so that
  whatever is computed from it is that client's own; `Queue` says that whoever is queued is queued
  once, so that nobody is served twice; `Count` ties the handled count to the set of closed
  connections, which is what makes the limit a bound on connections and not only on a counter.
* `Refinement`: `Spec => ImplementsService`. Each action maps to a step of `HttpService` or to a stutter; `ServerInv`
  supplies the answer `Close` serves with.
* `AnswersWhole`: `Spec => []WholeAnswer`. However its pieces come, a message that says where it ends is
  answered as a whole. The invariant adds `Answered` to `ServerInv`: while sending, the response is that to the whole message or
  the request was cut short (by the limit, a loss, or an early shutdown). It rests on the framing lemma
  `CompleteWhenWhole`: a prefix of a framed message is complete exactly when it is the message,
  because the header of a prefix ends where the message's does or has not ended yet, and because the
  sum of header and stated length does not wrap below `SizeMax`.
* `HandlersAlwaysFit`: `Spec => []HandlersFit`. Every handler that the server calls takes as many
  parameters as the router passes. The command checks the routes it found before the
  imports were resolved, the server calls those it finds after, so the lemma that carries the proof is
  `SameRoutes`: where every qualifier is imported, resolving the names before or after gives the same
  routes. The invariant `Serving` remembers across the accept loop that the program that was
  checked is the one that is served.

* `StoreReadsBack` and `StoreKeepsOthers`: what `PathStore`, the path store of both engines, computes, for any value and a path of
  any length. Where `PathError` finds no error, walking the path in the new root gives the value stored; a path that
  leaves the stored one at some key leads, from there on, to what it led to before, or fails where it failed, also when the store
  added a key to a map. Both are inductions along the path. The library states induction for an operator, so `Induction` states
  it for a set of naturals (`LeastNatural` gets it from the well-foundedness of `<`), and `WalkExists` and `RebuiltExists` use
  it to show that the recursive functions in `Walk` and `PathStore` are defined and hence satisfy their equations. The premise
  `IsPath` says that the keys are ints, strings, bools or field names and that the values on the way were built as the engines build
  them: an array is a sequence, a map and a struct's fields are functions.

* `OneOwnerAlways`: `Spec => []OneOwner` for `ValueCells`, and `CellsImplementSlots`: `Spec => ImplementsSlots`, for any literals,
  shapes and paths and any bounds. `OneOwner` is not inductive: it allows a ring of cells, each owned by
  the one before, whose values would not be defined and whose clone would not end. The
  invariant `Inv` says that the cells are a forest (`Sound`: parts are scalars or references to cells; `Ranked`: no
  cell is below itself; `PartsApart`, `Outermost`: no cell is two parts, and those the slots hold are nobody's
  part), that no two slots hold the same cell (`Apart`), and that no cell is without an owner (`Owned`). The steps are of
  three kinds. What is moved keeps its cells, and `Settled` shows that freeing and renaming cells changes no value
  (`SameValues`: cells that look alike all the way down have the same value). A clone is a tree of new cells of the same value
  (`ClonesAre`), so that what is pushed shares nothing; this is where an instruction without its
  `cloneValue` would fail. And for the one step that changes a cell in place, `StepStorePath`, the cells on the way from the root
  are a `Chain`: from their having one owner each follows that no other slot reaches one of them
  (`OthersOff`), so all the others keep their values (`StoredOff`), and, from the end of the chain up, that the root gets
  the value `PathStore` gives (`StoredOn`). In every case the step on values is the one of the same name in `ValueSlots`.
  The values of cells, the nodes and the ways along a path are recursive functions; that they are defined is an
  induction on the rank of a cell, on the depth and on the path.

Assumptions: `ModulesAssumption` (counts and targets in instructions are naturals),
`RequestsAssumption` (arguments are values), `DefaultAssumption` (int 0 is a value),
`ServerAssumption` (messages are sequences of tokens, limits naturals, `MaxBytes <= SizeMax`, both being a
`std::size_t`), `SizeMaxAssumption`, `DataAssumption` (a literal is an int, string or bool, a path is not empty, and a shape
is one of the three aggregates with a name for each part: what the lowerer can emit), `BoundsAssumption` (the bounds are naturals), `NamesAssumption` (a module does not define a function twice, which the
analyzer refuses as SEM002),
all evaluated by TLC in the runs. The theorems on shapes and on the two engines assume nothing of the modules: `Verified`
(or `VMVerified`) and `MainTakesNothing` are premises inside the invariant, about the module that is loaded, and
`AllVerified` is a hypothesis of `VerifiedNeverFails` only. That the
lowerer produces such modules is what the runs `interpreter_programs` (`Verified`) and `vm_programs` (`VMVerified`) check.

Only model-checked: what compares recursive definitions over syntax or texts (`Agrees`, `Conforms`, the analyzer,
the parser, the readers: the prover takes no recursive operators, and these are
inductions over syntax trees and texts), liveness (`CallsEnd`, `CommandReturns`, `VMCallsEnd`, `GoodFilesEnd`, `FramedIsAnswered`,
`EveryoneServed`). `Verified` and `VMVerified` speak about the code alone: what they say of every lowered program is
an induction over its syntax.

## 7. What is not modelled, and why

* Printers and disassembler, diagnostics, source and module tables: layout of text and plain tables.
* `veloc` and `velovm`: empty programs at this commit.
* Of the driver: reading `argv` and the file (`main.cpp`). Of the parser: source ranges, `pub` and the module's
  name, on which no stage acts.
* Native stack exhaustion (one native activation per Velo call), `std::stoi` on literals out of range (an
  exception that ends the process), which of two `Content-Length` lines counts (the server takes the first, the parser the
  last; only messages with one are `Framed`): outside the abstraction or nowhere stated; the hazards list names them.
* Structs of an analyzed file other than those of `Programs` and `TypedPrograms`, and imports beyond them.
* A handler's run inside the server is one step: that it ends is an assumption there. The engine under it is
  the subject of `Isolation` and `CallsEnd`.
