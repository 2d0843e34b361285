------------------------------ MODULE VmMemory ------------------------------
(***************************************************************************)
(* What the bytecode virtual machine (bytecode_virtual_machine.cpp) keeps  *)
(* in memory: call frames with registers, boxed registers and captures,    *)
(* the managed cells they refer to, the natives suspended in a callback,   *)
(* and an error on its way to a handler.  Every opcode that creates, moves *)
(* or drops a reference is an action; which instruction comes next, the    *)
(* destination of a call and the handler that matches are left open here   *)
(* (CallStack models them).                                                *)
(*                                                                         *)
(* A reference is a tagged pointer: the tag is the alternative of the      *)
(* RuntimeValue variant that was chosen when the reference was made, and   *)
(* nothing but the collector keeps it in agreement with what the address   *)
(* holds now, because freed addresses are allocated again.                 *)
(***************************************************************************)
EXTENDS Integers, FiniteSets, Sequences

CONSTANTS
  Cells,       \* addresses
  Registers,      \* registers of a frame
  FirstRegister,  \* where a receiver or a new instance arrives
  Null,        \* a value or a pointer that refers to no cell
  MaxFrames,   \* MaximumCallFrames (4096 in the code)
  MaxNatives,  \* limit of nativeDepth (64 in the code), and one more
  MaxHeld      \* bound: references in one cell

ASSUME VmAssumption ==
  /\ FirstRegister \in Registers
  /\ MaxFrames \in Nat \ {0}
  /\ MaxNatives \in Nat
  /\ MaxHeld \in Nat \ {0}
  /\ Null \notin [tag : {"object", "closure", "bound", "error", "cell"}, at : Cells]

VARIABLES
  heap,     \* what every address holds: its kind and the references in it
  frames,   \* the call frames, the entry function's first
  natives,  \* the natives on the C++ stack, outermost first
  thrown    \* the error unwindError is looking a handler for

vars == <<heap, frames, natives, thrown>>

(* Object and Array are one kind here, "object": both hold values.  A      *)
(* "closure" holds its capture cells, a "bound" method its receiver, an    *)
(* "error" its cause and a "cell" the captured variable.                   *)
ValueKind == {"object", "closure", "bound", "error"}
Pointer == [tag : ValueKind, at : Cells]
Box == [tag : {"cell"}, at : Cells]
Reference == Pointer \cup Box

Ref(kind, c) == [tag |-> kind, at |-> c]
Some(v) == {v} \ {Null}
Free == [kind |-> "free", holds |-> {}]
FreeCells == {c \in Cells : heap[c].kind = "free"}

(* h with cell c freshly allocated.                                        *)
Put(h, c, kind, refs) == [h EXCEPT ![c] = [kind |-> kind, holds |-> refs]]

(* What a frame and a native can read without going through the heap.      *)
FrameRefs(f) ==
  ({f.registers[i] : i \in Registers} \cup {f.registerCells[i] : i \in Registers}
     \cup f.captures \cup {f.returnOverride}) \ {Null}

NativeRefs(n) == n.arguments \cup n.element \cup Some(n.output)

NewFrame(arguments, captures, override) ==
  [registers      |-> arguments,
   registerCells  |-> [i \in Registers |-> Null],
   captures       |-> captures,
   returnOverride |-> override]
-----------------------------------------------------------------------------
(* Mutations of SafepointRoots: suspended callers or natives are           *)
(* forgotten.                                                              *)
RootsOfRunningFrame(fs, ns) ==
  (IF fs = <<>> THEN {} ELSE FrameRefs(fs[Len(fs)]))
    \cup (UNION {NativeRefs(ns[i]) : i \in DOMAIN ns})

RootsWithoutNatives(fs, ns) == UNION {FrameRefs(fs[i]) : i \in DOMAIN fs}

(* collectAtSafepoint: the roots are the registers, overrides, boxes and   *)
(* captures of all frames and whatever natives have protected.             *)
SafepointRoots(fs, ns) ==
  (UNION {FrameRefs(fs[i]) : i \in DOMAIN fs})
    \cup (UNION {NativeRefs(ns[i]) : i \in DOMAIN ns})

(* Mutation of Kept: the captured variables of a closure are not followed. *)
KeptWithoutCaptures(h, refs) ==
  LET first == {r.at : r \in refs}
      next == [c \in Cells |-> {r.at : r \in {q \in h[c].holds : q.tag # "cell"}}]
      closed == {S \in SUBSET Cells : first \subseteq S /\ \A c \in S : next[c] \subseteq S}
  IN  {c \in Cells : \A S \in closed : c \in S}

Kept(h, refs) ==
  LET first == {r.at : r \in refs}
      next == [c \in Cells |-> {r.at : r \in h[c].holds}]
      closed == {S \in SUBSET Cells : first \subseteq S /\ \A c \in S : next[c] \subseteq S}
  IN  {c \in Cells : \A S \in closed : c \in S}

Collected(h, fs, ns) ==
  LET kept == Kept(h, SafepointRoots(fs, ns))
  IN  [c \in Cells |-> IF c \in kept THEN h[c] ELSE Free]

(* A safepoint collects or, below the threshold, does not.                 *)
Safepoint(h, fs, ns) == {h, Collected(h, fs, ns)}
-----------------------------------------------------------------------------
Top == frames[Len(frames)]
InNative == natives # <<>> /\ natives[Len(natives)].base = Len(frames)
Native == natives[Len(natives)]
Executing == frames # <<>> /\ thrown = Null /\ ~InNative

(* readRegister, writeRegister: a boxed register lives in its cell, and a  *)
(* write leaves a copy in the register itself.                             *)
Held(c) == IF heap[c].holds = {} THEN Null ELSE CHOOSE r \in heap[c].holds : TRUE

Read(i) == IF Top.registerCells[i] = Null THEN Top.registers[i]
                                          ELSE Held(Top.registerCells[i].at)

WriteFrame(f, i, v) == [f EXCEPT !.registers[i] = v]
WriteCell(h, f, i, v) ==
  IF f.registerCells[i] = Null THEN h ELSE [h EXCEPT ![f.registerCells[i].at].holds = Some(v)]

(* The frames when v was written to register i of the last frame of fs.    *)
Wrote(fs, i, v) == [fs EXCEPT ![Len(fs)] = WriteFrame(fs[Len(fs)], i, v)]

Assign(h, i, v) ==
  /\ frames' = Wrote(frames, i, v)
  /\ heap' = WriteCell(h, Top, i, v)
  /\ UNCHANGED <<natives, thrown>>

(* The same at the opcodes that end in collectAtSafepoint.                 *)
AssignAtSafepoint(h, i, v) ==
  /\ frames' = Wrote(frames, i, v)
  /\ heap' \in Safepoint(WriteCell(h, Top, i, v), frames', natives)
  /\ UNCHANGED <<natives, thrown>>

Init ==
  /\ heap = [c \in Cells |-> Free]
  /\ frames = <<NewFrame([i \in Registers |-> Null], {}, Null)>>
  /\ natives = <<>>
  /\ thrown = Null
-----------------------------------------------------------------------------
(* LoadNull, LoadConstant, LoadFunction and the operators: a value that    *)
(* refers to no cell.                                                      *)
LoadConstant(d) == Executing /\ Assign(heap, d, Null)

Move(d, i) == Executing /\ Assign(heap, d, Read(i))

(* Mutation of Unboxed: every captured register gets a box.                *)
UnboxedOrNot(captured) == captured

(* The captured registers that have no box yet.                            *)
Unboxed(captured) == {i \in captured : Top.registerCells[i] = Null}

(* MakeClosure boxes the registers it captures that have no box yet and    *)
(* passes on captures of the running function.                             *)
MakeClosure(d, closure, captured, inherited) ==
  LET unboxed == Unboxed(captured)
  IN  /\ Executing
      /\ closure \in FreeCells
      /\ inherited \subseteq Top.captures
      /\ Cardinality(captured) + Cardinality(inherited) <= MaxHeld
      /\ \E fresh \in [unboxed -> FreeCells \ {closure}] :
           LET boxes == [i \in Registers |-> IF i \in unboxed THEN Ref("cell", fresh[i])
                                                              ELSE Top.registerCells[i]]
               boxed == [Top EXCEPT !.registerCells = boxes]
               filled == [c \in Cells |->
                            IF \E i \in unboxed : fresh[i] = c
                            THEN [kind |-> "cell",
                                  holds |-> Some(Top.registers[CHOOSE i \in unboxed : fresh[i] = c])]
                            ELSE heap[c]]
               h == Put(filled, closure, "closure", {boxes[i] : i \in captured} \cup inherited)
               v == Ref("closure", closure)
           IN  /\ \A i, j \in unboxed : fresh[i] = fresh[j] => i = j
               /\ frames' = [frames EXCEPT ![Len(frames)] = WriteFrame(boxed, d, v)]
               /\ heap' \in Safepoint(WriteCell(h, boxed, d, v), frames', natives)
               /\ UNCHANGED <<natives, thrown>>

LoadCapture(d, box) ==
  /\ Executing /\ box \in Top.captures
  /\ Assign(heap, d, Held(box.at))

(* The destination gets the register as it reads after the cell was set.   *)
StoreCapture(d, i, box) ==
  LET v == Read(i)
  IN  /\ Executing /\ box \in Top.captures
      /\ Assign([heap EXCEPT ![box.at].holds = Some(v)], d, v)

(* MakeArray, MakeObject, and MakeInstance of a class without constructor. *)
MakeObject(d, new, operands) ==
  /\ Executing /\ new \in FreeCells
  /\ Cardinality(operands) <= MaxHeld
  /\ AssignAtSafepoint(Put(heap, new, "object", {Read(i) : i \in operands} \ {Null}),
                       d, Ref("object", new))

IsA(v, kind) == v # Null /\ v.tag = kind

(* LoadMember and LoadIndex of a field, an element or an error's cause; a  *)
(* field may hold no reference.                                            *)
LoadSlot(d, i) ==
  /\ Executing
  /\ IsA(Read(i), "object") \/ IsA(Read(i), "error")
  /\ \E v \in heap[Read(i).at].holds \cup {Null} : Assign(heap, d, v)

(* LoadMember of a method, BindMethod: an allocation without a safepoint.  *)
BindMethod(d, i, new) ==
  /\ Executing /\ new \in FreeCells
  /\ IsA(Read(i), "object")
  /\ Assign(Put(heap, new, "bound", {Read(i)}), d, Ref("bound", new))

(* StoreMember, StoreIndex: the value replaces what one field held.        *)
StoreSlot(d, i, j) ==
  /\ Executing /\ IsA(Read(i), "object")
  /\ \E old \in heap[Read(i).at].holds \cup {Null} :
       LET refs == (heap[Read(i).at].holds \ {old}) \cup Some(Read(j))
       IN  /\ Cardinality(refs) <= MaxHeld
           /\ Assign([heap EXCEPT ![Read(i).at].holds = refs], d, Read(j))
-----------------------------------------------------------------------------
(* Call and CallIndirect: the called frame's registers get the arguments,  *)
(* the first one the receiver of a bound method, and its captures are the  *)
(* closure's.  A register that is no parameter starts with no reference.   *)
Callee(v) ==
  CASE v = Null           -> [receiver |-> Null, captures |-> {}]  \* a VmFunctionReference
    [] IsA(v, "closure")  -> [receiver |-> Null, captures |-> heap[v.at].holds]
    [] IsA(v, "bound")    -> [receiver |-> Held(v.at), captures |-> {}]

Callable(v) == v = Null \/ IsA(v, "closure") \/ IsA(v, "bound")

CalledFrame(v, arguments) ==
  NewFrame(IF Callee(v).receiver = Null THEN arguments
           ELSE [arguments EXCEPT ![FirstRegister] = Callee(v).receiver],
           Callee(v).captures, Null)

(* What the registers of the called frame get: p names the caller's        *)
(* register for each parameter, and Null for a register that is none.      *)
Passing == [Registers -> Registers \cup {Null}]
Arguments(p) == [i \in Registers |-> IF p[i] = Null THEN Null ELSE Read(p[i])]

Call(i, p) ==
  /\ Executing /\ Len(frames) < MaxFrames
  /\ Callable(Read(i))
  /\ frames' = Append(frames, CalledFrame(Read(i), Arguments(p)))
  /\ UNCHANGED <<heap, natives, thrown>>

(* MakeInstance of a class with a constructor: until the constructor       *)
(* returns, the instance is kept by the frame's returnOverride.            *)
Construct(new, p) ==
  LET instance == Ref("object", new)
  IN  /\ Executing /\ new \in FreeCells /\ Len(frames) < MaxFrames
      /\ heap' = Put(heap, new, "object", {})
      /\ frames' = Append(frames, NewFrame([Arguments(p) EXCEPT ![FirstRegister] = instance],
                                           {}, instance))
      /\ UNCHANGED <<natives, thrown>>

Result(i) == IF Top.returnOverride = Null THEN Read(i) ELSE Top.returnOverride

(* Return to a calling frame, or out of the program.  A frame entered by a *)
(* native returns to it (CallbackReturn).                                  *)
EnteredByNative == natives # <<>> /\ Len(frames) = Native.base + 1

Return(i, d) ==
  /\ Executing /\ ~EnteredByNative
  /\ IF Len(frames) = 1
     THEN frames' = <<>> /\ heap' = heap
     ELSE LET rest == SubSeq(frames, 1, Len(frames) - 1)
          IN  /\ frames' = Wrote(rest, d, Result(i))
              /\ heap' = WriteCell(heap, rest[Len(rest)], d, Result(i))
  /\ UNCHANGED <<natives, thrown>>
-----------------------------------------------------------------------------
(* CallNative: the arguments are copied out of the registers and protected *)
(* until the call is over.                                                 *)
CallNative(operands) ==
  /\ Executing /\ Len(natives) < MaxNatives
  /\ natives' = Append(natives, [base |-> Len(frames),
                                 arguments |-> {Read(i) : i \in operands} \ {Null},
                                 element |-> {}, output |-> Null])
  /\ UNCHANGED <<heap, frames, thrown>>

NativeRuns == InNative /\ thrown = Null
Inputs == {r \in Native.arguments : r.tag = "object"}
Elements == UNION {heap[r.at].holds : r \in Inputs}
InHand == Native.arguments \cup Elements \cup {Native.output, Null}

(* map, filter and sort allocate a protected result before any callback;   *)
(* sort fills it with the input's elements.  A native that allocates only  *)
(* its result returns before anything else happens.                        *)
NativeAllocate(new, copy) ==
  /\ NativeRuns /\ new \in FreeCells
  /\ Native.output = Null
  /\ Cardinality(Elements) <= MaxHeld
  /\ heap' = Put(heap, new, "object", IF copy THEN Elements ELSE {})
  /\ natives' = [natives EXCEPT ![Len(natives)].output = Ref("object", new)]
  /\ UNCHANGED <<frames, thrown>>

(* callbacks.invoke: the callback gets elements, arguments or the          *)
(* accumulated value; the array natives protect them, call does not.       *)
NativeInvoke(protect) ==
  /\ NativeRuns /\ Len(frames) < MaxFrames
  /\ \E callee \in Native.arguments \cup {Null}, values \in [Registers -> InHand] :
       /\ Callable(callee)
       /\ frames' = Append(frames, CalledFrame(callee, values))
       /\ natives' = [natives EXCEPT ![Len(natives)].element =
                        IF protect THEN {values[i] : i \in Registers} \ {Null} ELSE {}]
  /\ UNCHANGED <<heap, thrown>>

(* The callback's result is appended to the output, becomes the            *)
(* accumulated value, or is only tested; then the element's scope ends.    *)
CallbackReturn(i, use) ==
  LET result == Result(i)
      done == [Native EXCEPT !.element = {}]
  IN  /\ Executing /\ EnteredByNative
      /\ frames' = SubSeq(frames, 1, Native.base)
      /\ \/ /\ use = "append" /\ IsA(Native.output, "object")
            /\ heap' = [heap EXCEPT ![Native.output.at].holds = @ \cup Some(result)]
            /\ Cardinality(heap'[Native.output.at].holds) <= MaxHeld
            /\ natives' = [natives EXCEPT ![Len(natives)] = done]
         \/ /\ use = "accumulate" /\ heap' = heap
            /\ natives' = [natives EXCEPT ![Len(natives)] = [done EXCEPT !.output = result]]
         \/ /\ use = "test" /\ heap' = heap
            /\ natives' = [natives EXCEPT ![Len(natives)] = done]
      /\ UNCHANGED thrown

(* collectGarbage                                                          *)
NativeCollect ==
  /\ NativeRuns
  /\ heap' = Collected(heap, frames, natives)
  /\ UNCHANGED <<frames, natives, thrown>>

(* The result is written before the safepoint, which still sees the        *)
(* arguments protected; the native's own scopes have ended.                *)
NativeReturn(h, result, d) ==
  LET rest == SubSeq(natives, 1, Len(natives) - 1)
      returned == [Native EXCEPT !.element = {}, !.output = Null]
  IN  /\ frames' = Wrote(frames, d, result)
      /\ heap' \in Safepoint(WriteCell(h, Top, d, result), frames', Append(rest, returned))
      /\ natives' = rest
      /\ UNCHANGED thrown

(* A native that changes no cell, or has changed its output only.          *)
NativeResult(d) == NativeRuns /\ \E result \in InHand : NativeReturn(heap, result, d)

(* push, pop, enqueue and the like change an array they were given and     *)
(* return at once, pop what it removed.                                    *)
NativeStore(d) ==
  /\ NativeRuns
  /\ \E object \in Inputs, v \in Native.arguments \cup {Null} :
       \E old \in heap[object.at].holds \cup {Null}, result \in InHand :
         LET refs == (heap[object.at].holds \ {old}) \cup Some(v)
         IN  /\ Cardinality(refs) <= MaxHeld
             /\ NativeReturn([heap EXCEPT ![object.at].holds = refs], result, d)
-----------------------------------------------------------------------------
(* raise: a failing opcode, or a failing native, allocates an error that   *)
(* may carry the offending value.                                          *)
Raise(new) ==
  /\ Executing /\ new \in FreeCells
  /\ \E cause \in {Read(i) : i \in Registers} \cup {Null} :
       heap' = Put(heap, new, "error", Some(cause))
  /\ thrown' = Ref("error", new)
  /\ UNCHANGED <<frames, natives>>

(* MakeInstance that fails has allocated the instance before.              *)
RaiseInMakeInstance(instance, new) ==
  /\ Executing /\ {instance, new} \subseteq FreeCells /\ instance # new
  /\ heap' = Put(Put(heap, instance, "object", {}), new, "error", {Ref("object", instance)})
  /\ thrown' = Ref("error", new)
  /\ UNCHANGED <<frames, natives>>

(* Throw: an error is thrown as it is, anything else becomes the cause.    *)
Rethrow(i) ==
  /\ Executing /\ IsA(Read(i), "error")
  /\ thrown' = Read(i)
  /\ UNCHANGED <<heap, frames, natives>>

(* The native gives up: an error from its own code, or KVM2010 for what it *)
(* was asked to call.                                                      *)
NativeFail(new) ==
  /\ NativeRuns /\ new \in FreeCells
  /\ \E cause \in InHand : heap' = Put(heap, new, "error", Some(cause))
  /\ thrown' = Ref("error", new)
  /\ natives' = SubSeq(natives, 1, Len(natives) - 1)
  /\ UNCHANGED frames

exceptionBoundary == IF natives = <<>> THEN 0 ELSE Native.base

(* unwindError that finds a handler in a frame above the boundary.         *)
Catch(k, d) ==
  LET rest == SubSeq(frames, 1, k)
  IN  /\ thrown # Null
      /\ k \in (exceptionBoundary + 1)..Len(frames)
      /\ frames' = Wrote(rest, d, thrown)
      /\ heap' \in Safepoint(WriteCell(heap, rest[k], d, thrown), frames', natives)
      /\ thrown' = Null
      /\ UNCHANGED natives

(* No handler above the boundary: the callback fails, the native gives up, *)
(* and its caller raises a new error with the cause of the old one.        *)
Escape(new) ==
  /\ thrown # Null /\ natives # <<>> /\ new \in FreeCells
  /\ frames' = SubSeq(frames, 1, Native.base)
  /\ natives' = SubSeq(natives, 1, Len(natives) - 1)
  /\ heap' = Put(heap, new, "error", heap[thrown.at].holds)
  /\ thrown' = Ref("error", new)

Uncaught ==
  /\ thrown # Null /\ natives = <<>>
  /\ frames' = <<>> /\ thrown' = Null
  /\ UNCHANGED <<heap, natives>>

(* One instruction of the running function: d is the register it writes.   *)
Instruction ==
  \/ \E d \in Registers : LoadConstant(d)
  \/ \E d, i \in Registers : Move(d, i) \/ LoadSlot(d, i)
  \/ \E d \in Registers, new \in FreeCells :
       \/ \E captured \in SUBSET Registers, inherited \in SUBSET Box :
            MakeClosure(d, new, captured, inherited)
       \/ \E operands \in SUBSET Registers : MakeObject(d, new, operands)
       \/ \E i \in Registers : BindMethod(d, i, new)
  \/ \E d \in Registers, box \in Box :
       LoadCapture(d, box) \/ \E i \in Registers : StoreCapture(d, i, box)
  \/ \E d, i, j \in Registers : StoreSlot(d, i, j)
  \/ \E i \in Registers, p \in Passing : Call(i, p)
  \/ \E new \in FreeCells, p \in Passing : Construct(new, p)
  \/ \E i, d \in Registers : Return(i, d)
  \/ \E operands \in SUBSET Registers : CallNative(operands)

NativeStep ==
  \/ \E new \in FreeCells, copy \in BOOLEAN : NativeAllocate(new, copy)
  \/ \E protect \in BOOLEAN : NativeInvoke(protect)
  \/ \E i \in Registers, use \in {"append", "accumulate", "test"} : CallbackReturn(i, use)
  \/ NativeCollect
  \/ \E d \in Registers : NativeResult(d) \/ NativeStore(d)

Failing ==
  \/ \E instance, new \in FreeCells : RaiseInMakeInstance(instance, new)
  \/ \E i \in Registers : Rethrow(i)
  \/ \E new \in FreeCells : Raise(new) \/ NativeFail(new) \/ Escape(new)
  \/ \E k \in DOMAIN frames, d \in Registers : Catch(k, d)
  \/ Uncaught

Next == Instruction \/ NativeStep \/ Failing

Spec == Init /\ [][Next]_vars
-----------------------------------------------------------------------------
(* A reference is good when its address still holds what it was made for:  *)
(* neither freed nor handed out again as a cell of another kind.           *)
Good(r) == heap[r.at].kind = r.tag

(* Whatever a frame can still read is good, in the running function and in *)
(* every suspended caller, after any interleaving of calls, callbacks,     *)
(* exceptions and safepoints.                                              *)
FramesIntact == \A k \in DOMAIN frames : \A r \in FrameRefs(frames[k]) : Good(r)

(* So is what a native holds on the C++ stack while its callback runs, and *)
(* an error on its way through frames that are being dropped.              *)
NativesIntact ==
  /\ \A k \in DOMAIN natives : \A r \in NativeRefs(natives[k]) : Good(r)
  /\ thrown # Null => Good(thrown)

(* No cell that was kept refers to one that was not: fields, captured      *)
(* variables, receivers and causes are good to follow.                     *)
HeapIntact == \A c \in Cells : \A r \in heap[c].holds : Good(r)

(* Two registers, of one frame or of two activations of a function, never  *)
(* share a box.                                                            *)
BoxesDistinct ==
  \A k, l \in DOMAIN frames : \A i, j \in Registers :
    (frames[k].registerCells[i] # Null /\ frames[k].registerCells[i] = frames[l].registerCells[j])
      => k = l /\ i = j

(* A frame that stays keeps the boxes its registers have got, and those of *)
(* its captures.  A step pushes frames or drops them, never both.          *)
SameBoxes ==
  \A k \in DOMAIN frames \cap DOMAIN frames' :
    /\ \A i \in Registers :
         frames[k].registerCells[i] # Null
           => frames'[k].registerCells[i] = frames[k].registerCells[i]
    /\ frames'[k].captures = frames[k].captures

(* A captured variable has one box for good: once MakeClosure has boxed    *)
(* its register, every later closure captures that same box, as long as    *)
(* the frame lives, and no other register ever gets it.                    *)
OneBoxForGood == [][SameBoxes /\ BoxesDistinct']_vars
=============================================================================
