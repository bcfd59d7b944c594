------------------------------ MODULE ToolTurn -------------------------------
(***************************************************************************)
(* A conversation with tools: the client asks, the master writes the        *)
(* conversation into a prompt, the model's text comes back in chunks, and   *)
(* the answer is shaped from it, on two separate paths of streaming.py: one *)
(* for a stream, one for a whole answer.  The client runs the calls and     *)
(* asks again with their results.                                           *)
(***************************************************************************)
EXTENDS ToolCalling

CONSTANTS
    Requests,   \* the tool fields a client may send with each question
    Fragments,  \* what one chunk may add to the text
    MaxChunks,  \* bound: chunks with text in a conversation
    MaxTurns    \* bound: questions in a conversation

ASSUME RequestsAreRequests ==
    Requests \subseteq [tools : Seq(Entries), functions : Seq(Entries), choice : STRING]
ASSUME FragmentsAreText == Fragments \subseteq Seq(Pieces)

VARIABLES
    phase,         \* "asking", "generating" or "answered"
    history,       \* the messages of the client, the next question included
    request,       \* the tool fields of the question
    prompt,        \* the messages of the job
    chunks,        \* the chunks of the job: chunks of chat_completions
    buf,           \* what the stream has of them: buf of sse_for
    finish_reason, \* and its finish_reason
    whole,         \* the answer of aggregate_chat_completion
    streamed,      \* what a client puts together from the stream
    left           \* how many chunks with text may still come

vars == <<phase, history, request, prompt, chunks, buf, finish_reason, whole,
          streamed, left>>

\* An answer: the text the client reads, the calls with their ids, the reason.
Answer(text, calls, reason) == [content |-> text, calls |-> calls, finish |-> reason]
NoAnswer == Answer(<<>>, <<>>, "none")

Question == Message("user", Prose, <<>>)

\* A conversation begins with the question, or with a system message of the
\* client's own.
Beginnings == { <<Question>>, <<Message("system", Prose, <<>>), Question>> }

Init ==
    /\ phase = "asking"
    /\ history \in Beginnings
    /\ request \in Requests
    /\ prompt = <<>>
    /\ chunks = <<>> /\ buf = <<>> /\ finish_reason = "none"
    /\ whole = NoAnswer /\ streamed = NoAnswer
    /\ left = MaxChunks

\* The request reaches the master.
Ask ==
    /\ phase = "asking"
    /\ phase' = "generating"
    /\ prompt' = apply_tool_formatting(request, history)
    /\ chunks' = <<>> /\ buf' = <<>> /\ finish_reason' = "none"
    /\ whole' = NoAnswer /\ streamed' = NoAnswer
    /\ UNCHANGED <<history, request, left>>

\* accumulate and chunk_finish_reason; a later finish_reason replaces one.
accumulate(b, c) == b \o c.content
chunk_finish_reason(fr, c) == IF c.finish = "none" THEN fr ELSE c.finish

\* A chunk of llama-server: a delta with content, or the last one, which has
\* none and brings the finish_reason, if it comes.
Chunk(text, finish) ==
    LET c == [content |-> text, finish |-> finish]
    IN  /\ phase = "generating"
        /\ finish_reason = "none"
        /\ text # <<>> => left > 0
        /\ left' = IF text = <<>> THEN left ELSE left - 1
        /\ chunks' = Append(chunks, c)
        /\ buf' = accumulate(buf, c)
        /\ finish_reason' = chunk_finish_reason(finish_reason, c)
        /\ UNCHANGED <<phase, history, request, prompt, whole, streamed>>

\* Calls get their ids from their places.
to_openai_tool_calls(calls) ==
    [i \in DOMAIN calls |-> [id |-> i - 1, name |-> calls[i].name, args |-> calls[i].args]]

OrStop(fr) == IF fr = "none" THEN "stop" ELSE fr

\* mutant: a stream does not take the echoed markup out of the text of a turn
\* with calls.
stream_chunks_leaking(text, fr) ==
    LET r == parse_tool_calls(text)
    IN  IF r.calls # <<>>
        THEN Answer(r.text, to_openai_tool_calls(r.calls), "tool_calls")
        ELSE Answer(strip_leaked_markup(r.text), <<>>, OrStop(fr))

\* The one chunk of a stream in tool mode.
tool_stream_chunks(text, fr) ==
    LET r == parse_tool_calls(text)
        clean == strip_leaked_markup(r.text)
    IN  IF r.calls # <<>>
        THEN Answer(clean, to_openai_tool_calls(r.calls), "tool_calls")
        ELSE Answer(clean, <<>>, OrStop(fr))

assistant_message(mode, text, fr) ==
    LET r == parse_tool_calls(text)
        clean == strip_leaked_markup(r.text)
    IN  IF ~mode THEN Answer(text, <<>>, OrStop(fr))
        ELSE IF r.calls # <<>>
        THEN Answer(clean, to_openai_tool_calls(r.calls), "tool_calls")
        ELSE Answer(clean, <<>>, OrStop(fr))

\* The text of all chunks, and the last finish_reason of any.
joined(cs) == FlattenSeq([i \in DOMAIN cs |-> cs[i].content])
last_finish_reason(cs) ==
    LET given == {i \in DOMAIN cs : cs[i].finish # "none"}
    IN  IF given = {} THEN "none" ELSE cs[Max(given)].finish

aggregate_chat_completion(mode, cs) ==
    assistant_message(mode, joined(cs), last_finish_reason(cs))

\* The done envelope.  Without tool mode a stream has passed the chunks on.
Done ==
    /\ phase = "generating"
    /\ phase' = "answered"
    /\ whole' = aggregate_chat_completion(tool_mode(request), chunks)
    /\ streamed' = IF tool_mode(request) THEN tool_stream_chunks(buf, finish_reason)
                   ELSE Answer(buf, <<>>, finish_reason)
    /\ UNCHANGED <<history, request, prompt, chunks, buf, finish_reason, left>>

Turns == Cardinality({i \in DOMAIN history : history[i].role = "assistant"}) + 1

\* The client keeps the answer and sends the results of its calls, or asks
\* something else.
FollowUp ==
    /\ phase = "answered"
    /\ Turns < MaxTurns
    /\ phase' = "asking"
    /\ LET result(c) == Message("tool", <<Json(c.name, "absent")>>, <<>>)
       IN  history' = history
               \o <<Message("assistant", whole.content, whole.calls)>>
               \o (IF whole.calls = <<>> THEN <<Question>>
                   ELSE [i \in DOMAIN whole.calls |-> result(whole.calls[i])])
    /\ request' \in Requests
    /\ UNCHANGED <<prompt, chunks, buf, finish_reason, whole, streamed, left>>

Next ==
    \/ Ask
    \/ \E text \in Fragments : Chunk(text, "none")
    \/ \E fr \in {"stop", "length"} : Chunk(<<>>, fr)
    \/ Done
    \/ FollowUp

Spec == Init /\ [][Next]_vars

-----------------------------------------------------------------------------
Answered == phase = "answered" /\ tool_mode(request)

\* Whether a client streams does not matter: what it puts together from the
\* stream is the whole answer, calls, text and finish_reason, although the two
\* are shaped by separate code (streaming.py:113-161 and 179-200).  Only a
\* finish_reason that llama-server never sent is made up for one of them.
SameAnswer ==
    phase = "answered" =>
        \/ whole = streamed
        \/ /\ ~tool_mode(request) /\ finish_reason = "none"
           /\ whole = [streamed EXCEPT !.finish = "stop"]

\* Prose and complete tagged calls, and nothing else.
WellFormed(s) ==
    /\ \A i \in DOMAIN s :
        /\ s[i].k \in {"prose", "tool_call", "json", "/tool_call"}
        /\ s[i].k = "tool_call" => /\ i + 2 <= Len(s)
                                   /\ s[i + 1].k = "json" /\ IsCall(s[i + 1])
                                   /\ s[i + 2].k = "/tool_call"
        /\ s[i].k \in {"json", "/tool_call"} => i > 1
        /\ s[i].k = "json" => s[i - 1].k = "tool_call"
        /\ s[i].k = "/tool_call" => s[i - 1].k = "json"

IsProse(p) == p.k = "prose"

\* Text as the model is asked for it is understood: every call in it, once, in
\* order, and around them the prose, all of it (tool_calling.py:366-376).
WellFormedIsRead ==
    Answered /\ WellFormed(buf) =>
        /\ whole.content = Filter(buf, IsProse)
        /\ whole.calls = to_openai_tool_calls(
               [i \in DOMAIN json_objects(buf) |-> coerce_call(json_objects(buf)[i])])

Mentions(s, n) == Cardinality({i \in DOMAIN s : s[i].name = n})

\* Nothing is reported twice: an object of the text is called or shown to the
\* user or neither, not both, unless the text has no markup that led to a call
\* (the last layer, which leaves the text alone).
CalledOrShown ==
    Answered /\ (\E n \in DOMAIN Marked(buf) : Marked(buf)[n].calls # <<>>) =>
        \A n \in {buf[i].name : i \in DOMAIN buf} \ {NoName} :
            Mentions(whole.calls, n) + Mentions(whole.content, n) <= Mentions(buf, n)

\* The model is reminded of what it did: an answer that comes back in the
\* history is written into the prompt so that reading it gives the very calls
\* the client was given, in every later turn, whatever way they were found and
\* whatever text was left around them (tool_calling.py:183-196).
HistoryRoundTrip ==
    phase = "generating" /\ tool_mode(request) =>
        LET own == SubSeq(prompt, Len(prompt) - Len(history) + 1, Len(prompt))
        IN  \A i \in DOMAIN history :
                history[i].calls # <<>> =>
                    history[i].calls =
                        to_openai_tool_calls(parse_tool_calls(own[i].content).calls)

\* What is injected and what is parsed agree: the answer is searched for calls
\* exactly if the prompt has told the model of tools, at least one, first of
\* all, whether or not the client has a system message too, and then the prompt
\* is in roles the chat template has, system, user and assistant.
ModeIsPrompted ==
    phase # "asking" =>
        LET tools == {i \in DOMAIN prompt :
                          \E n \in DOMAIN prompt[i].content : prompt[i].content[n].k = "tools"}
        IN  IF tool_mode(request)
            THEN /\ tools = {1}
                 /\ json_objects(prompt[1].content) # <<>>
                 /\ \A i \in DOMAIN prompt :
                        prompt[i].role # "tool" /\ prompt[i].calls = <<>>
            ELSE tools = {} /\ whole.calls = <<>>

\* The example the model sees last fits what it must do next: after a tool's
\* result an answer, before that a call (tool_calling.py:230-240).
ExampleFits ==
    phase = "generating" /\ tool_mode(request) =>
        LET shown == prompt[Len(prompt) - Len(history)].content
        IN  parse_tool_calls(shown).calls = <<>> <=> Last(history).role = "tool"
=============================================================================
