----------------------------- MODULE MCToolTurn ------------------------------
(***************************************************************************)
(* Conversations for TLC: each kind of piece alone, and complete calls.     *)
(***************************************************************************)
EXTENDS ToolTurn

CONSTANTS f, g

One == { <<Piece(k)>> : k \in {"tool_call", "/tool_call", "tool_response", "/tool_response",
                               "python_start", "python_end", "fence", "torn", "prose"} }

Objects == { <<Json(f, "dict")>>, <<Json(g, "string")>>, <<Json(f, "absent:string")>>,
             <<Json(NoName, "absent")>>, <<PythonCall(g)>> }

Calls == { Tagged([name |-> f, args |-> "dict"]), Tagged([name |-> g, args |-> "text:value"]) }

AllFragments == One \cup Objects \cup Calls

\* Two tools; tools turned off; nothing that is a function; the old field.
SomeRequests == {
    Request(<<Entry("function", f), Entry("other", NoName), Entry("bare", g)>>, <<>>, "auto"),
    Request(<<Entry("function", f)>>, <<>>, "none"),
    Request(<<Entry("function", NoName)>>, <<>>, "auto"),
    Request(<<>>, <<Entry("bare", f)>>, "required") }
=============================================================================
