---------------------------- MODULE MCCallStack ----------------------------
(* Two functions.  In f a single instruction is protected by an inner      *)
(* handler and lies in the range of an outer one, whose last instruction   *)
(* may be a call as well; the outer handler's own code is unprotected.  g  *)
(* protects its first instruction and handles the error further on.        *)
EXTENDS CallStack, TLC

CONSTANTS f, g

MCFunctions == {f, g}
MCLength == f :> 4 @@ g :> 3
MCHandlers ==
  f :> <<[first |-> 1, count |-> 1, handler |-> 2], [first |-> 0, count |-> 3, handler |-> 3]>>
    @@ g :> <<[first |-> 0, count |-> 1, handler |-> 1]>>
=============================================================================
