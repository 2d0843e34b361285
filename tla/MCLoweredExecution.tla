------------------------ MODULE MCLoweredExecution -------------------------
(***************************************************************************)
(* Function bodies for LoweredExecution: every way to put one statement    *)
(* inside another, a few levels deep.                                      *)
(***************************************************************************)
EXTENDS LoweredExecution

Exits == {Call("x"), Throw("x"), ReturnConstant, ReturnLocal,
          Break(""), Continue(""), Break("far"), Continue("far")}

(* The statements that hold s; marks tell the levels apart.                *)
Holding(s, level) ==
  LET at(place) == Mark(ToString(level) \o place)
      body == Block(<<s, at("after")>>)
  IN {Try(body, at("catch"), Absent), Try(body, Absent, at("finally")),
      Try(body, at("catch"), at("finally")),
      Try(Call("t"), body, Absent), Try(Call("t"), body, at("finally")),
      Try(Call("t"), Absent, body),
      If(body, at("else")), Switch(body, Absent), Switch(at("arm"), body),
      Loop("", body, Absent), Loop("far", body, at("step"))}

RECURSIVE Nested(_, _)
Nested(level, inner) ==
  IF level = 0 THEN inner
  ELSE Nested(level - 1, UNION {Holding(s, level) : s \in inner})

(* In a function that marks its end.                                       *)
Bodies(inner) == {Block(<<s, Mark("end")>>) : s \in inner}

StructuredBodies ==
  {s \in Bodies(Nested(3, Exits)) : Structured(s, Outermost)}

(* A loop inside a try statement with a finally branch, left by break or   *)
(* continue.                                                               *)
BreakingBodies ==
  Bodies({Try(Loop("", If(s, Absent), Absent), Absent, Mark("finally")) :
            s \in {Break(""), Continue("")}})
=============================================================================
