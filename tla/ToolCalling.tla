----------------------------- MODULE ToolCalling -----------------------------
(***************************************************************************)
(* tool_calling.py: the calls that are read out of the model's text, and    *)
(* the conversation with tools written into text the model can be given.    *)
(*                                                                          *)
(* A text is a sequence of pieces: tags, whole JSON objects, prose.  A      *)
(* "torn" piece is the head of a JSON object that never gets complete, so   *)
(* what follows it is inside that object.  White space is left out.         *)
(***************************************************************************)
EXTENDS SequencesExt, Selection

CONSTANTS
    Names,  \* what a function may be called
    NoName  \* an object that names no function

ASSUME NoNameIsNone == NoName \notin Names

Piece(k)      == [k |-> k, name |-> NoName, args |-> "absent"]
Json(n, a)    == [k |-> "json", name |-> n, args |-> a]
PythonCall(n) == [k |-> "expr", name |-> n, args |-> "dict"]

\* The field "arguments" of an object: a dict, the JSON text of one or of
\* another value, another string, another value, and the dicts that stand for
\* the last three: {"_raw": ...} and {"_value": ...}.  If it is absent or null,
\* "parameters" is taken: a dict, its JSON text or nothing (only "absent" or
\* "null" then), another string (":string") or another value (":value").
NotGiven == {"absent", "absent:string", "absent:value"}
ArgShapes == NotGiven \cup {"null", "null:string", "null:value",
                           "dict", "text", "text:value", "string", "value", "_raw", "_value"}

Tags == {"tool_call", "/tool_call", "tool_response", "/tool_response"}

Pieces == {Piece(k) : k \in Tags \cup {"python_start", "python_end", "fence", "torn", "prose"}}
    \cup {Json(n, a) : n \in Names \cup {NoName}, a \in ArgShapes}
    \cup {PythonCall(n) : n \in Names}

\* A message of the conversation; only an assistant's has calls.
Message(role, text, calls) == [role |-> role, content |-> text, calls |-> calls]

-----------------------------------------------------------------------------
(* What the regular expressions match. *)

CallSpan   == [x \in {"tool_call"} |-> "/tool_call"]
PythonSpan == [x \in {"python_start"} |-> "python_end"]
FenceSpan  == [x \in {"fence"} |-> "fence"]
LeakedSpan == [x \in {"tool_call", "tool_response"} |->
                  IF x = "tool_call" THEN "/tool_call" ELSE "/tool_response"]

\* Where a match that opens at i may end.
Closers(s, ends, i) == {j \in i + 1..Len(s) : s[j].k = ends[s[i].k]}
Opens(s, ends, i)   == s[i].k \in DOMAIN ends /\ Closers(s, ends, i) # {}

\* mutant: the matches are greedy.
GreedySpans(s, ends) ==
    LET from == {i \in DOMAIN s : Opens(s, ends, i)}
    IN  IF from = {} THEN <<>>
        ELSE [i \in {Min(from)} |-> Max(Closers(s, ends, i))]

\* finditer: from the left, each match from an opening tag to the next tag
\* that closes it, without overlaps; an opening tag that none closes is none.
\* Covered[i] is the end of the last match that begins at i or before.
Covered(s, ends) ==
    LET upto[i \in 0..Len(s)] ==
            IF i = 0 THEN 0
            ELSE LET before == upto[i - 1]
                 IN  IF before < i /\ Opens(s, ends, i) THEN Min(Closers(s, ends, i))
                     ELSE before
    IN  upto

\* The matches: from where each begins to where it ends.
Spans(s, ends) ==
    LET upto == Covered(s, ends)
    IN  [i \in {i \in DOMAIN s : upto[i - 1] < i /\ Opens(s, ends, i)} |-> upto[i]]

\* mutant: only the first span is taken out.
StripFirstSpan(s, spans) ==
    Select(s, {i \in DOMAIN s : \A j \in DOMAIN spans :
                   j = Min(DOMAIN spans) => i \notin j..spans[j]})

strip_spans(s, spans) ==
    Select(s, {i \in DOMAIN s : \A j \in DOMAIN spans : i \notin j..spans[j]})

-----------------------------------------------------------------------------
(* The response: calls out of text. *)

\* Arguments always end up as a dict.
coerce_args(a) ==
    CASE a \in {"string", "absent:string", "null:string"} -> "_raw"
      [] a \in {"value", "text:value", "absent:value", "null:value"} -> "_value"
      [] a \in {"absent", "null", "text"} -> "dict"
      [] OTHER -> a

\* coerce_call of an object that names a function; others give none.
IsObject(p)    == p.k = "json"
IsCall(p)      == IsObject(p) /\ p.name # NoName
IsExplicit(p)  == IsCall(p) /\ p.args \notin NotGiven
coerce_call(p) == [name |-> p.name, args |-> coerce_args(p.args)]

\* Every object raw_decode finds, the ones inside a torn one included.
json_objects(s) == Filter(s, IsObject)
Callable(s)     == Filter(s, IsCall)
Explicit(s)     == Filter(s, IsExplicit)

\* A python call is one only if it is all there is between its tokens.
PythonCalls(s) ==
    IF Callable(s) # <<>> THEN Callable(s)
    ELSE IF Len(s) = 1 /\ s[1].k = "expr" THEN s ELSE <<>>

\* What each kind of span takes for a call.
Found(s, ends) == CASE ends = CallSpan   -> Callable(s)
                    [] ends = PythonSpan -> PythonCalls(s)
                    [] ends = FenceSpan  -> Explicit(s)

\* One call, the first, of each span that holds any; those spans are removed.
FromSpans(s, ends) ==
    LET spans == Spans(s, ends)
        found == [i \in DOMAIN spans |-> Found(SubSeq(s, i + 1, spans[i] - 1), ends)]
        hits  == {i \in DOMAIN spans : found[i] # <<>>}
    IN  [text  |-> strip_spans(s, Restrict(spans, hits)),
         calls |-> Select([i \in hits |-> coerce_call(found[i][1])], hits)]

\* From the first <tool_call>, closed or not, to the end of the text.
IsOpening(p) == p.k = "tool_call"
Unclosed(s) ==
    LET at == SelectInSeq(s, IsOpening)
        found == Callable(SubSeq(s, at + 1, Len(s)))
    IN  IF at = 0 \/ found = <<>> THEN [text |-> s, calls |-> <<>>]
        ELSE [text |-> SubSeq(s, 1, at - 1), calls |-> <<coerce_call(found[1])>>]

\* All objects of the text, which is left as it is.
Bare(s) == [text  |-> s,
            calls |-> [n \in DOMAIN Explicit(s) |-> coerce_call(Explicit(s)[n])]]

\* The layers, each tried if those before it found no call.
Marked(s) == << FromSpans(s, CallSpan), Unclosed(s),
                FromSpans(s, PythonSpan), FromSpans(s, FenceSpan) >>

HasCalls(r) == r.calls # <<>>
parse_tool_calls(s) ==
    LET layers == Marked(s)
        hit == SelectInSeq(layers, HasCalls)
    IN  IF hit = 0 THEN Bare(s) ELSE layers[hit]

\* mutant: what the model echoes is left in the text.
KeepMarkup(s) == s

IsText(p) == p.k \notin Tags
strip_leaked_markup(s) == Filter(strip_spans(s, Spans(s, LeakedSpan)), IsText)

-----------------------------------------------------------------------------
(* The request: a conversation with tools into text. *)

\* What a client may list as a tool: a function in its envelope, a bare one,
\* or something else.  Only those with a name are functions.
Entry(shape, n) == [shape |-> shape, name |-> n]

Entries == [shape : {"function", "bare", "other"}, name : Names \cup {NoName}]

\* A request, without its messages.
Request(tools, functions, choice) ==
    [tools |-> tools, functions |-> functions, choice |-> choice]

IsFunction(e) == e.name # NoName /\ e.shape \in {"function", "bare"}
IsBare(e)     == e.name # NoName /\ e.shape = "bare"

functions_from_request(r) ==
    LET found == Filter(r.tools, IsFunction) \o Filter(r.functions, IsBare)
    IN  [i \in DOMAIN found |-> found[i].name]

wants_tools(r) == r.choice # "none" /\ (r.tools # <<>> \/ r.functions # <<>>)

\* mutant: the mode does not depend on whether there is any function.
wants_only(r) == wants_tools(r)

tool_mode(r) == wants_tools(r) /\ functions_from_request(r) # <<>>

\* One call as it is written for the model.
Tagged(c) == <<Piece("tool_call"), Json(c.name, c.args), Piece("/tool_call")>>

\* Tool results become a user's text, calls an assistant's text.  The id of
\* the call that a result answers is dropped.
render_history_message(m) ==
    IF m.role = "tool"
    THEN Message("user", <<Piece("tool_response")>> \o m.content
                             \o <<Piece("/tool_response")>>, <<>>)
    ELSE IF m.role = "assistant" /\ m.calls # <<>>
    THEN Message("assistant",
             m.content \o FlattenSeq([i \in DOMAIN m.calls |-> Tagged(m.calls[i])]), <<>>)
    ELSE m

Prose == <<Piece("prose")>>

\* A user's example and the call it asks for.
Exemplar(n) == << Message("user", Prose, <<>>),
                  Message("assistant", Tagged([name |-> n, args |-> "dict"]), <<>>) >>

\* The answer exemplar shows one call more, its result and the answer.
answer_exemplar(n) ==
    Exemplar(n) \o << Message("user", <<Piece("tool_response"), Json(n, "absent"),
                                        Piece("/tool_response")>>, <<>>),
                      Message("assistant", Prose, <<>>) >>

synthesize_fewshot(fns) ==
    FlattenSeq([i \in 1..(IF Len(fns) < 2 THEN Len(fns) ELSE 2) |-> Exemplar(fns[i])])

\* mutant: an exemplar of a call before every turn.
never_needs_answer(messages) == FALSE

needs_answer(messages) == messages # <<>> /\ Last(messages).role = "tool"

\* The function of the answer exemplar, whatever the client's tools are.
ExampleName == "get_current_weather"

tool_system_prompt(fns) ==
    Message("system", <<Piece("tools")>> \o [i \in DOMAIN fns |-> Json(fns[i], "absent")]
                          \o <<Piece("/tools")>>, <<>>)

render_messages_with_tools(messages, fns) ==
    <<tool_system_prompt(fns)>>
    \o (IF needs_answer(messages) THEN answer_exemplar(ExampleName)
                                  ELSE synthesize_fewshot(fns))
    \o [i \in DOMAIN messages |-> render_history_message(messages[i])]

\* The messages of the job; it has no tool fields, whatever the request had.
apply_tool_formatting(r, messages) ==
    IF tool_mode(r)
    THEN render_messages_with_tools(messages, functions_from_request(r))
    ELSE messages
=============================================================================
