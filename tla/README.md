# Kyna: a verification project in TLA+

Kyna is a small object-oriented language implemented in C++: a compiler (`compiler/`), a
runtime with a bytecode virtual machine and a tree-walk interpreter (`runtime/`), a standard
library (`library/`), an embedding API (`sdk/`) and the `ky` command line tool (`tools/`).
This directory holds TLA+ models of its core, the TLC runs that check them on small
instances, and theorems about them that TLAPS proves for every instance. Paths below are
relative to the repository's root. `PROJECT.json` maps every definition to the source lines
it stands for and lists components, hazards, runs, mutations and theorems.

## 1. The system

A source file goes through lexer, parser, module loader, type checker, HIR, MIR and bytecode
generator; the validated bytecode runs in `BytecodeVirtualMachine::execute`. A program that
uses something the HIR lowering does not support runs in the tree-walk interpreter instead
(`executeBytecodeSubset`). Everything is single threaded; what interleaves is the program
with its own callbacks, exceptions and garbage collections, and the tools with the file
system, child processes and sockets.

| Part | State | Operations | Hard behaviour | Correct when |
| --- | --- | --- | --- | --- |
| Tracing heap (`managed_heap.cpp`) | six storage vectors, temporary roots, counters, thresholds | `allocate*`, `collectRoots`, `maybeCollectRoots`, `setThreshold`, `RootScope` | graphs with cycles, three worklists that feed each other, scopes that nest | reachable nodes survive, the rest is freed, counters agree, scopes nest, marking is amortised |
| Bytecode VM (`bytecode_virtual_machine.cpp`) | call frames, boxed registers, `exceptionBoundary`, `nativeDepth` | one per opcode, `collectAtSafepoint`, `raise`/`unwindError`, `NativeCallbacks` | natives re-enter the machine; errors cross frames and activations; every safepoint needs every root | no frame, native or cell ever holds a dangling reference; errors go to the innermost handler; callers are untouched |
| Natives with callbacks (`library/core/src/bytecode`) | values on the C++ stack | `map`, `filter`, `reduce`, `find`, `any`, `all`, `sort`, `call`, `measure`, `collectGarbage` | a callback allocates, collects, changes the input, or fails | what a native still uses is protected; results are those of the elements seen |
| Bytecode validator | none | `validateBytecode` | a check that is missing shows up as undefined behaviour in the VM | accepted modules never read out of range |
| Generator, MIR lowering and verifier | blocks, exception regions, cleanup stack | one per statement and expression | `finally` is copied to every exit; `break` through `try`; order of regions | the lowered program does what the tree-walk interpreter does |
| Lexer, parser (`kyna_parsing`) | tokens, position, diagnostics | `parse*`, one per nonterminal, `parseRecovering`, `synchronize` | recovery: what is skipped after an error, and that it ends | a program is read as it was written, damage stays where it is |
| Type checker (`kyna_typecheck`) | stacks of scopes, tables of functions, classes, contracts | `check*`, one per construct | names are visible by rules the lowering repeats in its own way | what it accepts can be compiled |
| HIR lowering (`kyna_hir`) | scopes, locals, captures, diagnostics | `lower*`, one per construct | captures handed on from function to function | what it emits the MIR lowering can take |
| Module loader (`filesystem_module_loader.cpp`) | `state`, `stack`, graph, `initializationOrder` | `visit`, `ingestDirectoryPackage` | cycles, diamonds, errors half way | every module after its imports, once; cycles reported |
| Module analyzer, export cache | stamps, export lists | `stampMatches`, `writeStamp` | edits between reading and stamping | no stale export list is used |
| Tree-walk interpreter | environments, heap | `execute`, `evaluate`, `invoke` | roots held by C++ frames | as for the VM |
| Embedding session (`run_source.cpp`) | sources, analyzer, interpreter | `runSource`, `executeBytecodeSubset` | which engine runs a program | an accepted program is run |
| REPL (`repl/run.cpp`, `editor.cpp`) | content, cursor, pending submission, collected text | keys, the worker's submission, commands | Enter submits later, from another thread | what is run is what was typed |
| Development watcher (`project_dev.cpp`) | fingerprint, child process | poll, check, restart | edits race checks and restarts | the last edit that is watched and checks is what runs |
| HTTP server | accept loop, interrupt flag | accept, read, handle, write | reads and writes that block, interruption | nobody is forgotten; all are answered as long as no peer holds the thread |
| HTTP client | attempts, redirects, what was received | `send` | late answers, redirects, retries | what is returned was asked for, in the last attempt |
| Dependencies, lock file, installer, self update | files, cached clones | add, remove, install | interruption between two writes, a cache that is reused | manifest and lock agree |
| Host capabilities | processes, pipes, contexts, files | `spawn`, `cancel`, streams | two pipes drained together | no deadlock, all output read |
| Text, formats, codecs, scaffolding, formatter, diagnostics | none | pure functions | - | not modelled |

How they interact here: the VM allocates in the heap and collects only at its safepoints,
passing the roots it can see; natives allocate in the same heap, protect Values with a
`RootScope`, and call back into the VM through `NativeCallbacks`, which runs `executeFrames`
recursively over the same vector of frames; an error that no handler above
`exceptionBoundary` takes comes out of that recursion as a failed native call and is raised
again in the caller. The phases of the compiler run one after the other in `runSource`, each on
the result of the one before. `ky dev` starts `ky check` processes and servers, which share the
sources, their stamps, the manifest and the lock file with the developer's editor and with
other commands; a program that listens meets the program that fetches at the sockets.

## 2. Modules

| Module | Models | Used by |
| --- | --- | --- |
| `ManagedHeap` | class `Heap` under any client; a collection is one step | `HeapMarking`, `MCManagedHeap` |
| `HeapMarking` | `collectRoots` as its worklist loop; implements `ManagedHeap` | run `marking` |
| `VmMemory` | references in frames, boxes, natives and cells; every opcode that creates, moves or drops one | `MCVmMemory` |
| `CallStack` | instruction pointers, activations, callbacks, `unwindError` | `MCCallStack` |
| `TreeWalk` | the meaning of statements in the tree-walk interpreter | `LoweredExecution` |
| `MirLowering` | `HirLowerer::lowerStatement`: blocks, exception regions, cleanups | `LoweredExecution` |
| `LoweredExecution` | code generation and execution of the lowered blocks; implements `TreeWalk` | `MCLoweredExecution` |
| `ModuleGraph` | `GraphLoader`: depth-first loading of files and packages | `MCModuleGraph` |
| `Syntax`, `Parser` | the syntax tree; `Parser` over tokens, `parseRecovering` as a state machine | `Pipeline` |
| `Checker` | `TypeRef` and `Type`; `Analyzer` | `Pipeline` |
| `HirProgram`, `HirLowering` | HIR; `SyntaxLowerer` | `Pipeline` |
| `MirProgram`, `HirToMir` | MIR and `verifyMir`; `HirLowerer` for whole programs | `Pipeline` |
| `Bytecode` | `compileMirToBytecode`, `validateBytecode` | `Pipeline` |
| `Pipeline` | `runSource` and `executeBytecodeSubset`: the phases in turn | `MCPipeline` |
| `Grammar` | specification: the tokens of a syntax tree, as the language's grammar has them | `MCPipeline` |
| `Workspace` | the files several processes share, and their modification times | `ProjectCheck`, `Dependencies` |
| `ProjectCheck` | `analyzeModuleGraph` and the export cache, by several processes | `DevServer` |
| `DevServer` | `devProject` with the checks and servers it starts | `Project` |
| `Dependencies` | `ky add`, `remove`, `install`; clones, manifest, lock file | `Project` |
| `Project` | composition: a developer with an editor and several terminals | `MCProject` |
| `HttpServer`, `HttpClient` | `listen` with routes; `CurlNetwork::send` with its attempts | `Host` |
| `ProcessCapture` | `LocalProcess::spawn`: pipes, poll, wait | `Host` |
| `ReplEditor`, `Repl` | `ReplLineEditor::read` with its worker; `runRepl` | `Host` |
| `Installer` | the three installers and `self uninstall`, command by command | `Host` |
| `Host` | composition: one command and the machine around it | `MCHost` |
| `ManagedHeap_proofs`, `HeapMarking_proofs`, `CallStack_proofs`, `VmMemory_proofs`, `ModuleGraph_proofs`, `Installer_proofs`, `Host_proofs`, `Project_proofs` | theorems (section 4) | - |

`VmMemory` and `CallStack` are two views of one function: the first leaves open which
instruction comes next and which handler matches, the second leaves out the values. What the
first allows is therefore more than what the program does, which is sound for its
invariants; the second is exact about control. Both take `frames.back()` for the running frame,
as the code must after a native has run; the reference that would be stale is not represented.

**ManagedHeap.** `live` is the union of the storage vectors, `edges` the references in each
node, `roots` what the client passes as `HeapRoots`, `temporaryRoots` the contents of the
protected Values, `scopes` the `firstRoot` of every open `RootScope`; the counters have the
names of the fields. Managed names are addresses and are handed out again after a sweep, so
a dangling reference is observable. `survivors` is a history variable. The client may do
anything a program can: allocate, load, store, drop, protect, assign to a protected Value
(as `reduce` does), create environments. `collectionCount` is left out, as only `gcStats`
reads it.

**HeapMarking.** The three deques are sets, `marked` is the union of the ten mark sets.
`Begin` fills the worklists, `PopEnvironment`, `PopCaptureCell` and `PopValue` have the order
of the loop in their guards (all environments, then all cells, then one value), `Finish`
sweeps. `WellKinded` keeps the client to the references each kind of node has in the code.

**VmMemory.** A reference is the tag of the `RuntimeValue` alternative with an address; it is
*good* when the address still holds a cell of that kind. Objects and arrays are one kind,
fields and elements a set of references. A safepoint may collect or not, since nothing may
depend on the threshold. Natives are on a stack of their own with what they hold:
`arguments` (protected by the VM), `element` (protected for one callback), `output` (the
protected result or accumulator). A native that changes an array returns in the same step.
`OneBoxForGood` is an action property: a register that has a box keeps it and a frame keeps its
captures (`SameBoxes`), and no two registers share one; boxing a register twice breaks the first.
Natives that build several cells (`jsonParse`) are represented by the one that is returned.

**CallStack.** A program is the length and the handler table of each function. `at` is a
history variable, the instruction a frame is really in, against which the arithmetic on
instruction pointers in `unwindError` is judged. `activations` is the C++ stack of
`executeFrames` calls with the saved boundaries. `Program` is all that is assumed of a program;
every module that the validator of `Bytecode` accepts satisfies it (`ValidatedIsAProgram`).

**TreeWalk, MirLowering, LoweredExecution.** A statement is a record; what it does is a trace
of marks, calls and conditions. `TreeWalk` gives the trace and the completion (falls through,
returns a value, throws, breaks, continues) of `executeStatement`, for one choice of what every
call and condition does (`decisions`). `MirLowering` builds the blocks as `lowerStatement`
does, with `activeCleanups` and the loop targets in an environment and the regions in the
order in which they are appended. `LoweredExecution` runs the blocks in the virtual machine:
one action per instruction and terminator, `Raise` searching the handler table front to back.
Both sides share the decisions, so `AgreesWithTreeWalk` compares traces and completions of
the two engines on the same program and the same behaviour of its calls. Expressions are
reduced to what control flow can tell apart.

The two engines do not agree on every program. `Structured` names the class on which they are
shown to agree; outside of it, in `statement_lowering.cpp`:

* line 119: `break` and `continue` run every active `finally`, also those of try statements
  outside the loop (run `lowering_break`, a finding);
* line 191: the `finally` of a branch that completes lies inside the try statement's own
  region, so an error it raises is caught by the same statement, or runs `finally` again
  (`Structured`: a `finally` neither raises nor leaves);
* line 45: a returned local is read after the cleanups (`Structured`: no local is returned
  past a `finally`).

**ModuleGraph.** The recursion of `visit` and `ingestDirectoryPackage` is an explicit stack of
calls, one frame per file or package, with the locals `aliases` and `dependencies` and a
cursor into the sources and their imports; `state`, `modules`, `order` and `diagnostics` are
the fields of `GraphLoader` and its result. Which imports each file has is chosen in `Init`
from `Tables`, and nothing later is: the loader is deterministic, the programs are what the
run enumerates. `Reachable` is the least set of units with the entry that is closed under
imports, and a cycle is a set of units each of which imports another of them (`Tangled`): forms
that need no paths, so that the invariants can be both checked and proved. Path resolution, the names of test files and the rule for `internal`
directories are parameters (`Missing`, `Members`, `Allowed`).

**Syntax, Parser, Grammar.** A token is its kind, with the lexeme where it matters. Every
member function of `Parser` is an operator of the position it is called at, whose result is
the node and the position after it, or the diagnostic and the position where `KynaError` leaves
the parser; `Then` passes errors on as an exception does. `declarations`, `diagnostics`,
`incomplete` and `current` are the fields with these names. `Grammar` is no model of code: it
writes a tree down as tokens, with the parentheses precedence requires, and never looks at
`Parser`.

**Checker, HirLowering, HirToMir, Bytecode.** The classes of the compiler keep state and
recurse over trees; each is a set of operators that take the member variables as a record and
return it (`c`, `h`, `m`, `b`), in the order the code visits the tree, since scopes, captures
and numbers depend on it. One operator of each module is recursive and dispatches like
`std::visit` (`node`, `checkNode`, `lowerNode`); a long member function is cut at its steps,
each of which takes the result of the step before it. Diagnostics are their codes; spans, messages, warnings and
suggestions are left out. Values of literals, types of the standard library and the names of
natives are constants. `fault` is set where the code leaves defined behaviour: a null statement
(`syntax_lowering.cpp:189`), `at()` of a capture that is not there, `back()` of an empty
vector. Instructions get their operands, blocks, regions, offsets and jumps as in the code,
and the verifier and the validator look at all of them. `Bytecode` ends with what `executeFrames`
takes for granted, read off the virtual machine and not off the validator: it indexes
registers, tables and captures with the operands of an instruction, walks through the parents
of a class and checks none of it (`InRange`), and a frame has captures only when a closure
was called (`capturesAreThere`). `Runnable` is both.

These modules were compared with the compiler itself: 3628 inputs of `MCPipeline`, written
as source text, and later the 1329 damaged texts, were run through the compiler built from this
repository. Outcome, diagnostics and the phase that gave them agree on every one.

**Pipeline.** One action per phase. `phase` ends as `rejected` (parser or analyzer),
`treeWalk` (HIR lowering found only constructs it does not support), `executed` (the validated
module is given to the virtual machine; it stays in `unit`), `reported` (a phase after the check reports a
defect) or `fault`.

**Workspace, ProjectCheck, DevServer, Dependencies, Project.** A file's time is the value of a
clock that every write advances; a stamp is the time (and size) it was taken for. What the
analyzer says of a module is reduced to the type it exports and the type it expects. One step
is one module analysed, one poll, one file written, one git command. `exposed` is a history
variable that names the modules whose stamp may be wrong, so `OnlyExposedGoStale` says
exactly when a cached verdict can be. `focus` in `Project` keeps the product of everything with
everything small. `fingerprint()` looks at `*.kyna`, `kyna.toml` and `kyna.lock` under the root and at
nothing else (`Stamped`): saves of `.ky` modules, declaration files and modules outside the root
are not noticed, which `Overlooked` names as an exception of what is said of the watcher. A
server may be `held` by a peer (see `HttpServer`); SIGTERM does not end it then, and the watcher
waits in `waitpid` as long. `runArgv` starts git with `posix_spawn`, which does not search PATH: a git
dependency works only where a file of that name lies in the directory. `gitFound` models both.

**HttpServer, HttpClient.** `wire` is a connection as both sides see it; a peer may send its
request late, in part or never, send nonsense, not read what it gets, or vanish. The expiry the
server sets concerns asynchronous operations of the stream; its `http::read` and `http::write`
are blocking ones and wait for the peer (`Read` and `Write` are disabled; `WriteShort` is an
answer that the buffers of the socket hold). `Close` ends the loop, after a signal or an `accept`
that fails, and resets what waits in the backlog. An attempt of `fetch` has its own timeout and
received data and one connection for each redirect libcurl follows, as the server closes every
connection; `headers` is what `appendHeader` got in the attempt. A program sees the headers of
all answers on the way merged into one object, with the body and status of the last:
`FetchTruthful` says that this and nothing else is what it sees.

**ProcessCapture.** A pipe holds `Capacity` chunks and then blocks its writer.

**ReplEditor, Repl.** The editor's content is a sequence of words with a cursor; the worker posts
a submission when nothing was typed for a while, which may be at any time. `intended` is what may
be meant by what is shown. Keys that set the text (history, search, erasing, completion) do not
call `on_change`, so an Enter before them is still submitted, and the position of its newline,
`submitNewlinePosition`, stays: if the new text has a newline there, the submission removes it,
and two lines of a recalled text become one. The model does what the code does; `RunAsTyped`
allows exactly this one loss and says so.

**Installer.** A step is one command of the script; a copy is open between two steps, and so is
the `Move-Item -Force` of `install.ps1`, which removes its target first (`BeginMove`). A removal
by `ky self uninstall` may fail without a word (`RemoveFails`), that of the manifest too; `kept`
is what stayed. On Windows a helper removes the files after `ky` has ended; it is taken as part of the
command. `install.ps1` copies `kyna.exe` in place, and nothing is claimed for it while that lasts.

**Mutations.** Every property of every run has a mutation of a mapped definition that breaks
it, listed in `PROJECT.json` and defined just before the definition it mutates, under a
comment that begins with "Mutation". They are not part of the specifications.

## 3. Runs

| Run | Configuration | Bounds | Shows |
| --- | --- | --- | --- |
| `heap` | `MCManagedHeap.cfg` | 2 addresses, 1 environment, 4 allocations, 2 scopes, 2 protected Values, thresholds 1, 0, 2 | `NoDangling`, `Accounting`, `ScopesNested`, `GrowthBeforeCollection` |
| `marking` | `MCHeapMarking.cfg` | one node of each kind, 2 allocations | `MarkingInv`, refinement of `ManagedHeap`, `CollectionEnds` |
| `vm_memory` | `MCVmMemory.cfg` | 3 addresses, 1 register, 3 frames, 2 nested natives | `FramesIntact`, `NativesIntact`, `HeapIntact`, `OneBoxForGood` |
| `call_stack` | `MCCallStack.cfg` | 2 functions, 4 frames, 2 nested callbacks | `BoundariesNested`, `SuspendedAtCall`, `InnermostHandler`, `NoHandlerSkipped`, `CallersUntouched` |
| `lowering` | `MCLoweredExecution.cfg` | three nested statements around one exit; the first 3 decisions free, at most 24 marks | `Verified`, `InnerRegionsFirst`, `AgreesWithTreeWalk`, `Ends` |
| `lowering_break` | `MCLoweredBreak.cfg` | a loop inside try/finally, left by `break` or `continue` | violates `AgreesWithTreeWalk` |
| `module_graph` | `MCModuleGraph.cfg` | 34020 programs of 5 files and 3 packages | `StackMatchesStates`, `DependenciesFirst`, `LoadsReachable`, `CyclesReported`, `Ends`, `ApproachesEnd` |
| `module_overlap` | `MCModuleOverlap.cfg` | a package of two files, main imports the package and one of them | violates `FilesLoadedOnce` |
| `pipeline` | `MCPipeline.cfg` | 55 shapes of the grammar, cut after every token or without any one; 2900 programs: 20 leaves in up to two of 10 wrappers in 4 contexts | `RoundTrip`, `AcceptedIsRun`, `Advances` |
| `project` | `MCProject.cfg` | 4 modules, one of them not watched, 2 entries, 2 saves, 3 typed checks; 2 dependencies, 2 commits | `OnlyExposedGoStale`, `LockedAgrees`, `LatestSaveServed`, `NoticedOrServed` |
| `host` | `MCHost.cfg` | 1 peer, 1 fetch of 2 attempts and 1 redirect, a route that redirects to itself; pipes of 1 chunk; 5 keys, 4 words; 2 releases, 4 commands | `FetchTruthful`, `CapturedAll`, `RunAsTyped`, `InstalledOrGone`, `NobodyForgotten`, `NoneLeftWaiting`, `SpawnReturns` |
| `install_atomic` | `MCInstallAtomic.cfg` | as `host` | violates `InstalledAtomically` |

Why these bounds are enough to see the interesting cases: more allocations than addresses, so
addresses are reused; two scopes and two protected Values, so an inner scope ends while an
outer one holds a root; an edge from every kind of node to every worklist, and cycles
through each of them; a callback inside a callback with a caller below, so both the saved
boundary and the roots of a suspended native matter; a function whose handlers overlap, whose
protected call is the last instruction of its range, and a caller that protects the call of
the native. For the lowering, three levels put every statement
inside every other and inside a third that holds a handler or a cleanup for both, and
the first three calls and conditions (`MaxDecisions`) go either way, later calls return and
later conditions are false; `MaxTrace` cuts no execution then. For the loader, main's two imports and one import of each other file give
chains, diamonds, cycles of every length up to four, through packages too, a duplicate alias,
an import that resolves to nothing, one that is not allowed, an unreadable file, an unreadable
member of a package, an empty package and an import of a sibling; a program and a package
are both loaded as entries. Addresses are symmetric: no definition orders or names one. Deadlock is not
checked: a program or a load ends, and bounds stop the heap's client.

The programs of `pipeline` put everything that binds a name, captures it, jumps, throws or makes
a value into every place that scopes or catches it: branches, loops, switch arms, the three
parts of a try statement, a nested function, a value block, in a module, a function, a closure
and a method; two wrappers are needed for what one does to another (a function in a loop, a
try in a switch). All phases are functions, so a state has one successor; what is explored is the
programs. `project` has a chain of three modules and a second entry that shares one with it,
so that a check of one entry makes the stamps of the other stale; two saves are one that is
noticed and one that falls into the check or the restart. `host` has more writes than a pipe
holds on both pipes, a retry while the first attempt is still being answered, in the middle of a
redirect too, one redirect too many, a peer before the call in the backlog that holds the thread in
either way, a paste with an Enter inside, a recalled text of two lines after an Enter, and an update
over an interrupted update or a half-failed removal. The code's three attempts and eight redirects
add repetitions of what two and one show; the theorems are about any number.

Fairness is weak and only for sequential code that nothing preempts: the collector's own
steps in `HeapMarking` (`WF_vars(Collector)`), the instructions of a lowered program
(`WF_vars(Next)`, the loop of `executeFrames`), and the loader's steps (`WF_vars(Next)`). What
then has to be shown is that the loops end: each scan puts nodes back on the worklists
(`CollectionEnds`), a handler or a copied cleanup may lead back into its own region
(`Ends` of the lowering; loops of the program itself are bounded by `MaxDecisions`), and
imports may form cycles (`Ends` of the loader). `project` and `host` have processes: those of
the program are scheduled and their sleeps and timeouts end (`DevFairness`, `HttpFairness`,
`CaptureFairness`); nothing is assumed of developers, peers, signals or of what a child has
started, and a property that needs one of them to act names it as an exception: `NoneLeftWaiting`
but for a peer that holds the only thread for ever (`Stuck`), `LatestSaveServed` but for a watcher
that waits for a server so held. A `fetch` ends by its timeout whatever the server does. That the parser
ends is the action property `Advances`, a measure that every step increases, and needs no
fairness; `ApproachesEnd` is the same for the loader.

`AcceptedIsRun` includes that the module of an executed program is `Runnable`. The validator
does not see to all of it: it accepts a call of a function with captures, whose frame would
have none. Only the generator keeps to that, which is why a run and no theorem says so.

Type invariants are not among the runs' properties: they are proved, of the heap, the call stack
and the loader on their own and of the other components with theorems as parts of their
inductive invariants.

Three runs show what the program does against its documentation (the findings in
`PROJECT.json`). `lowering_break`: `try { while (c) { break; } } finally { f(); }` runs `f`
twice in the virtual machine and once in the tree-walk interpreter, which `docs/decisions.md`
calls the compatibility reference. `module_overlap`: a file imported on its own and as part of
its package becomes part of two modules, with two sets of top-level variables, and is
initialized twice, whereas `docs/modules.md` says that one source file defines a module
identity and that initialization runs once. `install_atomic`: interrupted at the wrong command,
`install.ps1` leaves half a `kyna.exe` or no `ky.exe`, whereas `docs/distribution.md` says of both
installers that they install atomically; `InstalledOrGone` says what does hold of each.

## 4. Proofs

TLAPS checks these for every value of the constants that satisfies the named assumptions. All
of them are evaluated by TLC on the runs, and each says something the code or its input
guarantees: the sets are disjoint and the bounds are numbers (`HeapAssumption`,
`MarkingAssumption`, `VmAssumption`, `GraphAssumption`, `WorkspaceAssumption`,
`DependencyAssumption`, `CheckAssumption`, `ExecutionAssumption`); the watcher, its server and the
terminals are different processes (`WatcherAssumption`, `TerminalAssumption`); handlers lie inside
their functions (`StackAssumption`), which `ValidatedIsAProgram` proves of every module that
`validateBytecode` accepts; a pipe holds at least one chunk (`CapacityAssumption`); no answer of
the server is taken for the lack of one (`AnswerAssumption`); a well-formed request is none of the malformed
ones (`RequestAssumption`); every attempt of a fetch has a connection of its own and no other
peer uses it (`ConnectionAssumption`); a child writes to its two outputs (`ScriptAssumption`);
lines are sequences (`InputAssumption`); and the order in which modules are analysed is
topological, without repetition, with the entry last (`OrderAssumption`), which is what
`OrderIsUsable` proves of the loader.

* `ManagedHeap_proofs`: `TypeCorrect`, `NoDanglingReferences`, `CountersAgree`,
  `ScopesStayNested`, `CollectionsAreAmortised`. The inductive invariant `HeapInv` is the
  conjunction of the four state properties, with finiteness of `live` and the relation
  between `nextThreshold` and `survivors`. Reachability is defined as the intersection of all
  closed sets, so no induction over paths is needed: a step that adds no outside reference
  has a set closed under the new graph as witness (`NoNewReachable`), and the sweep keeps
  exactly such a set.
* `HeapMarking_proofs`: `MarkingCorrect`, `Refinement` and `MarkingComesToAnEnd`. `MarkingInv` is the tri-colour
  invariant; at `Finish` the worklists are empty, so the marked set is closed and contains
  the roots, hence is the reachable set, and the sweep is the abstract one. The measure of
  `MarkingComesToAnEnd` is lexicographic: a step marks a node, and nothing is unmarked before the
  sweep, or it takes a node off a worklist and puts none on.
* `CallStack_proofs`: `TypeCorrect`, `BoundariesCorrect`, `SuspensionCorrect`,
  `HandlerIsInnermost`, `HandlersAreTried`, `CallersAreSafe`. The invariant `StackInv` joins
  the types, the nesting of activations and the position of suspended frames; from it
  `FaultInstruction(k) = frames[k].at` for every frame above the boundary (`FaultIsExact`),
  which reduces the two handler properties to the order in which `unwindError` searches.
  The last part is about programs: `ValidatedIsInRange`, `EntryRunsOnce`, `ClosuresAreComplete` and
  `ValidatedIsAProgram` speak of any typed module, not only of what the generator makes. There is
  one lemma for each group of checks of `validateInstruction` (what it means for the operands
  that nothing is reported), and one for each group of things the machine does with them.
* `VmMemory_proofs`: `FramesStayIntact`, `NativesStayIntact`, `HeapStaysIntact`,
  `BoxesStayForGood`. None of the first three is inductive: that a frame is intact after a load
  needs an intact heap, that it is after a call needs the arguments to be values and not
  boxes, that it is after a native needs the native's results. `MemoryInv` is one statement
  over heap, frames, natives and the error under way (`Sound`): a register holds a value,
  never the box of a captured variable, a closure holds boxes and every other cell values, an
  error on its way is an error object, and the natives on the C++ stack belong to different
  frames. `BoxesStayForGood` compares the frames before and after each step
  (`StepKeepsBoxes`), and needs of the invariant that no two registers share a box. Every
  opcode is composed of a few changes (allocate, overwrite, push, drop, write a register, protect, free what no root reaches), with one lemma for each.
* `ModuleGraph_proofs`: `TypeCorrect`, `MarksCorrect`, `OrderCorrect`, from `LoaderInv`.
  `DependenciesFirst` is not inductive: it speaks of finished units, whose dependencies were
  settled while they were in progress. `OthersSettled` adds that a call in progress has
  settled all its dependencies but the one it waits for, the unit of the call above it; when
  that call finishes, the dependency is in the order. `Visited` covers the four outcomes of
  `visit` at once, for the entry and for imports.
  `LoadsWhatIsNeeded`, `CyclesAreReported` and `OrderIsUsable` speak of the end of a load alone
  and need to know what the loader knew on the way, `GraphInv`: a call in progress is for a
  unit the entry needs (`Reachable`), has recorded no dependency its source does not ask for
  (`Faithful`), and without a report every one it has read past (`Thorough`). That the loaded units have no
  cycle is kept in the form that no subset of them is `Tangled`: the unit that is added asks
  for loaded units alone and no loaded unit asks for it, so a tangled set would be tangled
  without it. When an import meets a unit in progress, the calls from that unit up to the
  running one are a tangled set (`KnotClosed`).
  `LoadComesToAnEnd` has a lexicographic measure, too: a step visits a unit for the first time,
  or returns from a call, or the running call reads on.
* `Installer_proofs` and `Host_proofs`: `InstallationsHold`, `AllIsCaptured`,
  `SpawnNeverDeadlocks`, `SpawnComesToAnEnd`, `FetchesAreTruthful`, `NobodyIsForgotten`,
  `AnswersStand`, `RunsWhatWasTyped`. The parts of `Host` share no variable, and each has
  an invariant of its own. `InstallInv` says at which command of its script a run stands and what
  is whole then (`Installing`), under `install.ps1` that a `ky` about to be replaced has its whole copy in
  `ky.previous`, and that what remains of an uninstall names all that is there and that it has
  not failed to remove (`Uninstalling`, `Tidied`). `CaptureInv` says that what was written was read or is in
  its pipe (`Conserved`), that an event `poll` reported stays true until it is handled
  (`EventsHold`), and that a pipe the parent closed is empty and has no writer
  (`ClosedIsEmpty`). While the child runs, a pipe it cannot write to has something to read and
  one it has left has ended, so `OneGoes`: it or the parent can take a step.
  `FetchInv` says that a connection of a call carries the request its trail has for it and nothing else (`Asked`), that what comes back is the routes' answer
  (`Answered`), that a trail follows the redirects from the call's own request (`Chain`), and
  which heads and bodies a call has received when (`UnderWay`). `NobodyForgotten` is inductive
  but for types: whoever has no reply is in the backlog once or is served, and a step that
  replies takes it from there, which also gives `AnsweredOnce`. `ReplInv` says that
  what a submission would make of the text on the screen is one of the texts that may be meant (`Meant`).
* `Project_proofs`: `LocksAreKept`, `TrustIsBounded` and `SavesAreNoticed`. `LockInv` strengthens `LockedAgrees`:
  the clone of every settled dependency stands where its entry in the lock file says, and so
  does that of every dependency the running command has resolved (`Locks`, `Stands`), so asking
  again moves nothing. `CheckInv` is what makes `OnlyExposedGoStale` inductive over processes
  that share the cache: of two processes one has loaded all of its graph no later than the
  other (`LoadsInOrder`); a stamp that matches, is not exposed and is not about to be
  overtaken by a process that will pass over the module (`Masks`) vouches for a module that
  is right as soon as what it imports is (`StampHolds`, `EntryHolds`); and what a process has
  passed so far is right for what it loaded, or was skipped while exposed (`VerdictHolds`).
  `SavesAreNoticed` adds `DevInv`: a check the watcher waits for loads the sources no
  earlier than the fingerprint was taken (`RechecksLater`), so does the server it then starts
  (`ServesSince`), and when there is none the sources differ from the fingerprint or have
  errors that a finished check names (`Noticed`, `BlameHolds`). All of it is said of what the
  fingerprint covers, and of the rest as it was when the fingerprint was taken (`Seen`).

Every inductive invariant was checked by TLC, as an invariant of the run or of a smaller
instance of it, before it was proved.

Only model-checked: liveness (`CollectionEnds`, both `Ends`, `LatestSaveServed`,
`NoneLeftWaiting`, `SpawnReturns`), because fairness and ENABLED are beyond the prover. What
of it is a measure or a state is proved: `MarkingComesToAnEnd`, `LoadComesToAnEnd` and
`SpawnComesToAnEnd` say that only finitely many steps are possible, `SpawnNeverDeadlocks` that the
two sides of a pipe do not both wait, `NobodyIsForgotten` and `SavesAreNoticed` what must be true
for nobody to wait and no save to be lost; that the steps are taken is left to TLC. Also left are the
lowering (`Verified`, `InnerRegionsFirst`, `AgreesWithTreeWalk`) and the compiler's phases
(`RoundTrip`, `AcceptedIsRun`, `Advances`), whose definitions are recursive over trees and
need induction over data; of `AcceptedIsRun`, the part that is the validator's is proved, and that
no function with captures is entered without them is not. The theorems are about the specifications with their bounds as
parameters: a bound such as `MaxFrames` or `MaxReleases` may have any value.

## 5. Known defects of the compiler

`AcceptedIsRun` holds with the exception of `Defective`, and says that exactly those programs
are exceptions. Each was confirmed with the compiler built from this repository:

* a method without a body, which `docs/language-spec.md` allows in an abstract class, makes
  `lowerFunction` dereference a null statement (`syntax_lowering.cpp:189`);
* a nested function used above its declaration passes the analyzer and the HIR lowering, which
  both declare it first; the MIR lowering throws `std::out_of_range` (`expression_lowering.cpp:23`);
* two methods of one name pass the analyzer; the validator reports an internal defect;
* a `break` in a function that stands in a switch passes, as `switchDepth` is not reset;
  `breakTarget` then reads `back()` of an empty vector (`hir_lowering.cpp:102`);
* two functions of one name in a block of an if expression pass the analyzer, and the HIR
  lowering reports KHIR1102, so that the program is not handed to the tree walk.

Outside of what the run enumerates: a cycle of inheritance makes the analyzer recurse without
end (`check_invocations.cpp`); an uncaught `throw` of a program that fell back to the tree walk
leaves `runSource` as a `RuntimeThrownError` (`run_source.cpp:47`).

The engines and phases differ in smaller ways, which the models follow: field initializers are
dropped by the HIR lowering; the initializer of a loop is declared in the enclosing scope by the
analyzer and in its own by the lowering; an arm of `match` that begins with an identifier loses
it (`expression_parser.cpp:211`); a call is checked against the global function of the name
even where a local hides it; `incomplete` is set only where a token is wanted at the end, and
also after definite errors; a labelled loop cannot stand in a block.

## 6. Not modelled, and the plan

Known questions that no run shows are hazards with a note. Left, in this order:

1. Execution of the whole language in both engines on the programs of `pipeline`, beyond the
   control flow of `lowering`.
2. `TreeWalkRoots`: what `rootEnvironments()` misses at `collectGarbage()`.
3. The interactive session: the analyzer's state after an input that fails.
4. The natives on collections as data; checked arithmetic.

Not modelled: the scanner (characters to tokens, without state of its own), text, format
and JSON conversions, diagnostics and their rendering, scaffolding and the formatter: pure
functions whose result is text. Host capabilities other than processes and sockets are one
system call each. The phases of `pipeline` before the validator are recursive over trees, so nothing is
proved of them.
