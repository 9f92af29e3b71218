---------------------------- MODULE Conversation ----------------------------
(***************************************************************************)
(* A conversation of several turns with a client that speaks the OpenAI or *)
(* the Anthropic format, each turn answered by any adapter of its pool,    *)
(* after failures of others: normalisation (internal/ir), what every       *)
(* adapter sends and understands, Router.Stream, and the answer in the     *)
(* client's format, which the client repeats in its next turn.             *)
(*                                                                         *)
(* Text is a sequence of fragments; joining with or without a newline is   *)
(* concatenation.  Images, documents, tool definitions and sampling        *)
(* parameters are left out.  The Router's choices are module Router's: an  *)
(* attempt may be on any adapter.                                          *)
(***************************************************************************)
EXTENDS Naturals, SequencesExt

CONSTANTS
    Adapters,   \* provider ids of the pool's upstreams
    Honours,    \* those whose upstream streams its answer when the body says so
    PoolSize,   \* number of upstreams, the bound of Dispatch's loop
    MaxTurns    \* bound: turns of the conversation

OAIShaped == {"openai_api", "azure_openai", "copilot_oauth", "chatgpt_web"}
AnthropicShaped == {"anthropic_api", "bedrock", "vertex_ai", "claude_oauth", "claude_web"}
Agents == {"cli_acp", "cli_headless"}
\* In the source, but not in the registry ServeConfig builds.
CloudIAM == {"azure_openai", "bedrock", "vertex_ai"}

ASSUME ConversationAssumption ==
    /\ Adapters \subseteq OAIShaped \union AnthropicShaped \union Agents \union {"ollama"}
    /\ Honours \subseteq Adapters
    /\ PoolSize \in Nat \ {0} /\ MaxTurns \in Nat

VARIABLES
    client,     \* the client's format, and whether it asks for streams
    prompt,     \* an Anthropic client's system prompt
    history,    \* the client's messages, as it sends them
    turn,       \* turns asked
    phase,      \* "client" | "routing" | "asked" | "failed"
    request,    \* the ir.Request
    attempts,   \* upstreams tried for this request
    shown,      \* the body the upstream asked has received
    answer,     \* what the last upstream said, [by, text, calls, why]
    told,       \* the same as the client has understood it, [message, finish]
    spoken,     \* history: everything really said, in order, with who said it
    charged,    \* history: turns whose answer was charged to the key
    faulted     \* history: of this request an attempt failed by a fault

vars == <<client, prompt, history, turn, phase, request, attempts, shown, answer,
          told, spoken, charged, faulted>>

Text(f) == [type |-> "text", text |-> f]
ToolUse(id, args) == [type |-> "tool_use", id |-> id, args |-> args]
ToolResult(id, f) == [type |-> "tool_result", id |-> id, content |-> f]
NoArgs == <<>>
NoId == <<>>
Texts(blocks) == FlattenSeq([i \in DOMAIN blocks |->
                     IF blocks[i].type = "text" THEN blocks[i].text ELSE <<>>])
\* The elements of s that pass the test, in their order.
Only(s, Test(_)) == FlattenSeq([i \in DOMAIN s |-> IF Test(s[i]) THEN <<s[i]>> ELSE <<>>])
Of(blocks, type) == Only(blocks, LAMBDA b : b.type = type)
TextBlocks(f) == IF f = <<>> THEN <<>> ELSE <<Text(f)>>
Map(Op(_), s) == [i \in DOMAIN s |-> Op(s[i])]
-----------------------------------------------------------------------------
(* Requests.  An OpenAI message has role, text, calls and the id it answers; *)
(* an Anthropic message and an ir.Message have role and content.  The flag  *)
(* of a client that asks for a stream travels with the request.             *)

NormalizeOAIMessage(m) ==
    LET blocks == TextBlocks(m.text)
        calls == Map(LAMBDA c : ToolUse(c.id, c.args), m.calls)
    IN  [role |-> m.role,
         content |-> IF m.role = "tool" THEN <<ToolResult(m.answers, Texts(blocks))>>
                     ELSE blocks \o calls]

IsSystem(m) == m.role \in {"system", "developer"}

\* Mutant: a later system message replaces the earlier ones.
NormalizeOAIRequestLast(w) ==
    LET system == Only(w, IsSystem)
    IN  [model |-> "alias", stream |-> client.stream,
         system |-> IF system = <<>> THEN <<>> ELSE Last(system).text,
         messages |-> Map(NormalizeOAIMessage,
                          Only(w, LAMBDA m : ~IsSystem(m)))]

NormalizeOAIRequest(w) ==
    [model |-> "alias", stream |-> client.stream,
     system |-> FlattenSeq(Map(LAMBDA m : m.text, Only(w, IsSystem))),
     messages |-> Map(NormalizeOAIMessage, Only(w, LAMBDA m : ~IsSystem(m)))]

\* Blocks of other types are dropped.
normalizeAnthropicContent(c) ==
    Only(c, LAMBDA b : b.type \in {"text", "tool_use", "tool_result"})

NormalizeAnthropicRequest(w) ==
    [model |-> "alias", stream |-> client.stream, system |-> w.system,
     messages |-> Map(LAMBDA m : [m EXCEPT !.content = normalizeAnthropicContent(@)],
                      w.messages)]

\* Of a tool message only the first result is kept; of another message no
\* result is.
denormalizeOAIMessage(m) ==
    LET results == Of(m.content, "tool_result")
    IN  IF m.role = "tool" /\ results # <<>>
        THEN [role |-> m.role, text |-> results[1].content, calls |-> <<>>,
              answers |-> results[1].id]
        ELSE [role |-> m.role, text |-> Texts(m.content), answers |-> NoId,
              calls |-> Of(m.content, "tool_use")]

OAIMessage(role, text, calls, answers) ==
    [role |-> role, text |-> text, calls |-> calls, answers |-> answers]
SystemMessage(f) == OAIMessage("system", f, <<>>, NoId)

DenormalizeOAIRequest(req) ==
    [model |-> req.model, stream |-> req.stream,
     messages |-> (IF req.system = <<>> THEN <<>> ELSE <<SystemMessage(req.system)>>)
                      \o Map(denormalizeOAIMessage, req.messages)]

\* Mutant: the upstream is always asked for a stream.
DenormalizeAnthropicRequestStreaming(req) ==
    [model |-> req.model, stream |-> TRUE, system |-> req.system,
     messages |-> req.messages]

\* The role goes out as it came in, "tool" too.
DenormalizeAnthropicRequest(req) ==
    [model |-> req.model, stream |-> req.stream, system |-> req.system,
     messages |-> req.messages]

\* Calls go without an id, results as text.
ollamaMessageFromIR(m) ==
    [role |-> m.role, calls |-> Of(m.content, "tool_use"), answers |-> NoId,
     text |-> FlattenSeq([i \in DOMAIN m.content |->
                  CASE m.content[i].type = "text" -> m.content[i].text
                    [] m.content[i].type = "tool_result" -> m.content[i].content
                    [] OTHER -> <<>>])]

\* Chat has cleared the flag.
marshalOllamaRequest(req) ==
    [model |-> req.model, stream |-> FALSE,
     messages |-> (IF req.system = <<>> THEN <<>> ELSE <<SystemMessage(req.system)>>)
                      \o Map(ollamaMessageFromIR, req.messages)]

promptText(req) ==
    req.system \o FlattenSeq(Map(LAMBDA m : Texts(m.content), req.messages))
-----------------------------------------------------------------------------
(* Answers.  What an upstream says, [text, calls, why], in the words of its *)
(* format, and the ir.Response each adapter makes of it.                   *)

OAIWord == [done |-> "stop", cut |-> "length", calls |-> "tool_calls"]
AnthropicWord == [done |-> "end_turn", cut |-> "max_tokens", calls |-> "tool_use"]

Response(text, calls, stop, provider) ==
    [content |-> TextBlocks(text) \o calls, stop |-> stop, provider |-> provider]

stopFromOAIFinish(reason) ==
    CASE reason = "length" -> "max_tokens"
      [] reason = "tool_calls" -> "tool_use"
      [] OTHER -> "end_turn"

oaiFinishReason(stop) ==
    CASE stop = "max_tokens" -> "length"
      [] stop = "tool_use" -> "tool_calls"
      [] OTHER -> "stop"

parseOAIResponse(a) ==
    Response(a.text, a.calls, stopFromOAIFinish(OAIWord[a.why]), "openai_api")

parseAnthropicResponse(a) ==
    Response(a.text, a.calls, AnthropicWord[a.why], "anthropic_api")

\* Mutant: every call gets the number of the first.
ollamaContentZero(a) ==
    TextBlocks(a.text) \o [i \in DOMAIN a.calls |-> ToolUse(<<"ollama", 0>>, a.calls[i].args)]

ollamaContent(a) ==
    TextBlocks(a.text) \o [i \in DOMAIN a.calls |-> ToolUse(<<"ollama", i>>, a.calls[i].args)]

ollamaStopReason(reason) == IF reason = "length" THEN "max_tokens" ELSE "end_turn"

parseOllamaResponse(a) ==
    [content |-> ollamaContent(a), stop |-> ollamaStopReason(OAIWord[a.why]),
     provider |-> "ollama"]

\* Only the text, and no reason but the end.
parseOpenAIShape(a) == Response(a.text, <<>>, "end_turn", "azure_openai")

parseAnthropicLike(a, provider) == Response(a.text, a.calls, AnthropicWord[a.why], provider)

oauthAnthropicResponse(a) == Response(a.text, a.calls, AnthropicWord[a.why], "claude_oauth")
oauthOpenAIResponse(a) ==
    Response(a.text, <<>>, IF a.why = "cut" THEN "max_tokens" ELSE "end_turn", "copilot_oauth")

\* Only the text, and the reason as it is.
webAnthropic(a) == Response(a.text, <<>>, AnthropicWord[a.why], "claude_web")
webOpenAI(a) ==
    Response(a.text, <<>>, IF a.why = "cut" THEN "max_tokens" ELSE "end_turn", "chatgpt_web")

responseFromText(text, stop) == Response(text, <<>>, stop, "cli")

Configured(u, req) == IF u \in CloudIAM THEN req ELSE [req EXCEPT !.model = u]

\* Chat of each adapter: the body it sends, and what it makes of answer a.
OpenAIChat(req, a) == [body |-> DenormalizeOAIRequest(req), response |-> parseOAIResponse(a)]
AnthropicChat(req, a) ==
    [body |-> DenormalizeAnthropicRequest(req), response |-> parseAnthropicResponse(a)]
OllamaChat(req, a) == [body |-> marshalOllamaRequest(req), response |-> parseOllamaResponse(a)]
AzureChat(req, a) == [body |-> DenormalizeOAIRequest(req), response |-> parseOpenAIShape(a)]
BedrockChat(req, a) ==
    [body |-> DenormalizeAnthropicRequest(req), response |-> parseAnthropicLike(a, "bedrock")]
VertexChat(req, a) ==
    [body |-> DenormalizeAnthropicRequest(req), response |-> parseAnthropicLike(a, "vertex_ai")]
OAuthChat(u, req, a) ==
    IF u = "claude_oauth"
    THEN [body |-> DenormalizeAnthropicRequest(req), response |-> oauthAnthropicResponse(a)]
    ELSE [body |-> DenormalizeOAIRequest(req), response |-> oauthOpenAIResponse(a)]
WebChat(u, req, a) ==
    IF u = "claude_web"
    THEN [body |-> DenormalizeAnthropicRequest(req), response |-> webAnthropic(a)]
    ELSE [body |-> DenormalizeOAIRequest(req), response |-> webOpenAI(a)]
AcpChat(req, a) ==
    [body |-> promptText(req), response |-> responseFromText(a.text, AnthropicWord[a.why])]
chatHeadless(req, a) ==
    [body |-> promptText(req), response |-> responseFromText(a.text, "end_turn")]

Chat(u, req, a) ==
    LET r == Configured(u, req)
    IN  CASE u = "openai_api" -> OpenAIChat(r, a)
          [] u = "anthropic_api" -> AnthropicChat(r, a)
          [] u = "ollama" -> OllamaChat(r, a)
          [] u = "azure_openai" -> AzureChat(r, a)
          [] u = "bedrock" -> BedrockChat(r, a)
          [] u = "vertex_ai" -> VertexChat(r, a)
          [] u \in {"claude_oauth", "copilot_oauth"} -> OAuthChat(u, r, a)
          [] u \in {"claude_web", "chatgpt_web"} -> WebChat(u, r, a)
          [] u = "cli_acp" -> AcpChat(r, a)
          [] u = "cli_headless" -> chatHeadless(r, a)
-----------------------------------------------------------------------------
(* The answer on its way to the client.                                     *)

\* Mutant: of several calls the last is encoded.
denormalizeOAIContentAndToolsLast(blocks) ==
    LET calls == Of(blocks, "tool_use")
    IN  [text |-> Texts(blocks), calls |-> IF calls = <<>> THEN <<>> ELSE <<Last(calls)>>]

denormalizeOAIContentAndTools(blocks) ==
    [text |-> Texts(blocks), calls |-> Of(blocks, "tool_use")]

DenormalizeOAIResponse(resp) ==
    LET m == denormalizeOAIContentAndTools(resp.content)
    IN  [message |-> OAIMessage("assistant", m.text, m.calls, NoId),
         finish |-> oaiFinishReason(resp.stop)]

DenormalizeAnthropicResponse(resp) ==
    [message |-> [role |-> "assistant", content |-> resp.content], finish |-> resp.stop]

\* Router.Stream: one delta per block of an answer that is already whole.
Stream(resp) ==
    Map(LAMBDA b : [type |-> "content_block_delta", delta |-> b], resp.content)
        \o <<[type |-> "usage"], [type |-> "stop", stop |-> resp.stop]>>

\* The arguments of a call are looked up under "__partial", which a whole
\* block does not have.
Partial(b) == IF b.type = "tool_use" THEN [b EXCEPT !.args = NoArgs] ELSE b

EventsToOAIStream(events) ==
    Map(LAMBDA e :
            CASE e.type = "content_block_delta" -> [content |-> <<Partial(e.delta)>>, finish |-> ""]
              [] e.type = "stop" -> [content |-> <<>>, finish |-> oaiFinishReason(e.stop)]
              [] OTHER -> [content |-> <<>>, finish |-> ""],
        events)

\* message_delta is made of the usage event, which has no stop reason;
\* message_stop gives none.
EventsToAnthropicStream(events) ==
    Map(LAMBDA e : [content |-> IF e.type = "content_block_delta"
                                THEN <<Partial(e.delta)>> ELSE <<>>,
                    finish |-> ""],
        events)

\* What a lenient client makes of a stream.
Assembled(chunks) ==
    LET content == FlattenSeq(Map(LAMBDA c : c.content, chunks))
        ends == Only(chunks, LAMBDA c : c.finish # "")
    IN  [message |-> IF client.format = "openai"
                     THEN OAIMessage("assistant", Texts(content), Of(content, "tool_use"), NoId)
                     ELSE [role |-> "assistant", content |-> content],
         finish |-> IF ends = <<>> THEN "" ELSE Last(ends).finish]

Encoded(resp) ==
    CASE client.stream /\ client.format = "openai" ->
             Assembled(EventsToOAIStream(Stream(resp)))
      [] client.stream /\ client.format = "anthropic" ->
             Assembled(EventsToAnthropicStream(Stream(resp)))
      [] ~client.stream /\ client.format = "openai" -> DenormalizeOAIResponse(resp)
      [] OTHER -> DenormalizeAnthropicResponse(resp)
-----------------------------------------------------------------------------
NoRequest == [model |-> "none", stream |-> FALSE, system |-> <<>>, messages |-> <<>>]
NoBody == [by |-> "none", body |-> <<>>]
NoAnswer == [by |-> "none", text |-> <<>>, calls |-> <<>>, why |-> "done"]
NotTold == [message |-> [role |-> "none"], finish |-> ""]
Said(what, by) == [what |-> what, by |-> by]

Init ==
    /\ client \in [format : {"openai", "anthropic"}, stream : BOOLEAN]
    /\ prompt = <<>> /\ history = <<>> /\ spoken = <<>>
    /\ turn = 0 /\ phase = "client" /\ attempts = 0
    /\ request = NoRequest /\ shown = NoBody /\ answer = NoAnswer /\ told = NotTold
    /\ charged = {} /\ faulted = FALSE

Normalized ==
    IF client.format = "openai" THEN NormalizeOAIRequest(history')
    ELSE NormalizeAnthropicRequest([system |-> prompt', messages |-> history'])

\* The calls the client has been told of and answers in its next turn.
Pending ==
    CASE turn = 0 -> <<>>
      [] turn > 0 /\ client.format = "openai" -> told.message.calls
      [] OTHER -> Of(told.message.content, "tool_use")

Outcome(i) == <<"result", turn + 1, i>>

\* The client's turn: the results of the calls it was told of, else a question;
\* and an instruction, which an Anthropic client gives in its first turn only.
Speak(instruct) ==
    LET instruction == IF instruct THEN << <<"system", turn + 1>> >> ELSE <<>>
        words == IF Pending = <<>> THEN << <<"ask", turn + 1>> >>
                 ELSE [i \in DOMAIN Pending |-> Outcome(i)]
        results == [i \in DOMAIN Pending |-> ToolResult(Pending[i].id, <<Outcome(i)>>)]
    IN  /\ spoken' = spoken \o Map(LAMBDA f : Said(f, "system"), instruction)
                            \o Map(LAMBDA f : Said(f, IF Pending = <<>> THEN "user" ELSE "tool"),
                                   words)
        /\ IF client.format = "openai"
           THEN /\ history' = history
                       \o Map(LAMBDA f : OAIMessage("developer", <<f>>, <<>>, NoId), instruction)
                       \o (IF Pending = <<>> THEN <<OAIMessage("user", words, <<>>, NoId)>>
                           ELSE Map(LAMBDA r : OAIMessage("tool", r.content, <<>>, r.id), results))
                /\ UNCHANGED prompt
           ELSE /\ prompt' = prompt \o instruction
                /\ history' = Append(history, [role |-> "user",
                       content |-> IF Pending = <<>> THEN <<Text(words)>> ELSE results])

Ask(instruct) ==
    /\ phase = "client" /\ turn < MaxTurns
    /\ instruct => client.format = "openai" \/ turn = 0
    /\ Speak(instruct)
    /\ turn' = turn + 1 /\ phase' = "routing" /\ attempts' = 0
    /\ request' = Normalized
    /\ answer' = NoAnswer /\ told' = NotTold /\ faulted' = FALSE
    /\ UNCHANGED <<client, shown, charged>>

\* The client sends the same messages again.
Resend ==
    /\ phase = "failed"
    /\ phase' = "routing" /\ attempts' = 0 /\ faulted' = FALSE
    /\ UNCHANGED <<client, prompt, history, turn, request, shown, answer, told, spoken, charged>>

ClassifyHTTP(status) ==
    CASE status \in {401, 403} -> "AuthError"
      [] status = 404 -> "ConfigError"
      [] status \in {408, 429} -> "RateLimited"
      [] status \in 400..499 \ {401, 403, 404, 408, 429} -> "ClientError"
      [] status >= 500 -> "ServerError"
      [] OTHER -> "Success"

Retryable(class) == class \in {"RateLimited", "ServerError", "Timeout", "Network"}

\* Mutant: Dispatch goes on after the last upstream.
AttemptFailsForever(ends) ==
    /\ attempts' = attempts + 1
    /\ phase' = IF ends THEN "failed" ELSE "routing"
    /\ shown' = NoBody
    /\ UNCHANGED <<client, prompt, history, turn, request, answer, told, spoken, charged>>

\* An error of an adapter: Dispatch goes on with the next upstream unless it
\* is an adapter.Error that is not retryable, or the loop is over.
AttemptFails(ends) ==
    /\ attempts' = attempts + 1
    /\ phase' = IF ends \/ attempts' = PoolSize THEN "failed" ELSE "routing"
    /\ shown' = NoBody
    /\ UNCHANGED <<client, prompt, history, turn, request, answer, told, spoken, charged>>

\* No credential to send with: an error of no class.
Unusable ==
    /\ phase = "routing"
    /\ AttemptFails(FALSE)
    /\ faulted' = TRUE

Send(u) ==
    /\ phase = "routing"
    /\ shown' = [by |-> u, body |-> Chat(u, request, NoAnswer).body]
    /\ phase' = "asked"
    /\ UNCHANGED <<client, prompt, history, turn, request, attempts, answer, told, spoken,
                   charged, faulted>>

\* No answer, or one that cannot be parsed.
Unanswered ==
    /\ phase = "asked"
    /\ AttemptFails(FALSE)
    /\ faulted' = TRUE

Refused(status) ==
    /\ phase = "asked" /\ shown.by \notin Agents
    /\ AttemptFails(~Retryable(ClassifyHTTP(status)))
    /\ faulted' = TRUE

\* What an upstream may say in this turn; an agent calls no tool of the client.
CallNo(i) == ToolUse(<<"id", turn, i>>, <<"call", turn, i>>)
Sayable(u) ==
    LET words == << <<"answer", turn>> >>
    IN  [by : {u}, text : {words}, calls : {<<>>}, why : {"done", "cut"}]
            \union (IF u \in Agents THEN {} ELSE
                    {[by |-> u, text |-> words, calls |-> <<CallNo(1)>>, why |-> "calls"],
                     [by |-> u, text |-> <<>>, calls |-> <<CallNo(1), CallNo(2)>>, why |-> "calls"]})

\* An upstream asked for a stream answers in events.
InEvents ==
    /\ phase = "asked" /\ shown.by \in Honours \ Agents
    /\ shown.body.stream

\* Chat, which Router.Stream too calls, takes an answer for one JSON object: an
\* answer in events cannot be parsed, an error of no class.
AnswersInEvents ==
    /\ InEvents
    /\ AttemptFails(FALSE)
    /\ UNCHANGED faulted

\* observeDispatch is told of a streamed answer by its id and alias alone.
Observed(resp) ==
    IF client.stream THEN [resp EXCEPT !.provider = "", !.stop = "end_turn"] ELSE resp

\* With a price for every provider and model.
actualCostCents(resp) == IF resp.provider = "" THEN 0 ELSE 1

Answers(a) ==
    LET resp == Chat(shown.by, request, a).response
        reply == Encoded(resp)
    IN  /\ phase = "asked" /\ ~InEvents
        /\ answer' = a
        /\ told' = reply
        /\ history' = Append(history, reply.message)
        /\ spoken' = spoken \o Map(LAMBDA f : Said(f, a.by), a.text)
                            \o Map(LAMBDA c : Said(c.args, a.by), a.calls)
        /\ charged' = IF actualCostCents(Observed(resp)) > 0
                      THEN charged \union {turn} ELSE charged
        /\ phase' = "client" /\ shown' = NoBody /\ request' = NoRequest /\ attempts' = 0
        /\ faulted' = FALSE
        /\ UNCHANGED <<client, prompt, turn>>

Statuses == {400, 401, 404, 408, 429, 500}

Next ==
    \/ \E instruct \in BOOLEAN : Ask(instruct)
    \/ Resend
    \/ Unusable
    \/ \E u \in Adapters : Send(u)
    \/ Unanswered
    \/ \E status \in Statuses : Refused(status)
    \/ AnswersInEvents
    \/ \E a \in Sayable(shown.by) : Answers(a)

Spec == Init /\ [][Next]_vars
-----------------------------------------------------------------------------
(* Properties.                                                              *)

TypeOK ==
    /\ turn \in 0..MaxTurns /\ attempts \in 0..PoolSize
    /\ phase \in {"client", "routing", "asked", "failed"}
    /\ shown.by \in Adapters \union {"none"} /\ (shown.by # "none" <=> phase = "asked")
    /\ phase \in {"routing", "asked"} => attempts < PoolSize
    /\ charged \subseteq 1..turn /\ faulted \in BOOLEAN

\* Adapters that hand the calls of an answer on.
KeepCalls == {"openai_api", "anthropic_api", "ollama", "bedrock", "vertex_ai", "claude_oauth"}
IsCall(s) == s.what[1] = "call"
HandedOn(s) == IsCall(s) => s.by \in KeepCalls
AsTold(s) == IF client.stream /\ IsCall(s) THEN NoArgs ELSE s.what

\* What a body or a message says, fragment by fragment and call by call.
BlockSays(b) ==
    CASE b.type = "text" -> b.text
      [] b.type = "tool_use" -> <<b.args>>
      [] b.type = "tool_result" -> b.content
MessageSays(m) ==
    IF "content" \in DOMAIN m THEN FlattenSeq(Map(BlockSays, m.content))
    ELSE m.text \o FlattenSeq(Map(BlockSays, m.calls))
BodySays(body) ==
    (IF "system" \in DOMAIN body THEN body.system ELSE <<>>)
        \o FlattenSeq(Map(MessageSays, body.messages))

\* Every upstream, whichever adapters answered the turns before it and failed
\* before it in this turn, is shown the instructions and then everything said
\* so far, once and in order, and its own model or the alias.  Not shown are:
\* calls its adapter never handed on; the arguments of a call told in a stream;
\* calls and results to an agent; an Anthropic client's results to an upstream
\* of the OpenAI format.
UpstreamIsShownTheConversation ==
    phase = "asked" =>
        LET Shown(s) ==
                /\ HandedOn(s)
                /\ shown.by \in Agents => ~IsCall(s) /\ s.by # "tool"
                /\ shown.by \in OAIShaped /\ client.format = "anthropic" => s.by # "tool"
            orders == Only(spoken, LAMBDA s : s.by = "system")
            others == Only(spoken, LAMBDA s : s.by # "system" /\ Shown(s))
            expected == Map(AsTold, orders \o others)
        IN  IF shown.by \in Agents THEN shown.body = expected
            ELSE /\ BodySays(shown.body) = expected
                 /\ shown.body.model \in {shown.by, "alias"}

\* A client that is answered is told all the upstream said, and that the answer
\* was cut short exactly when it was, but for what the adapter or the stream
\* leaves out.  A client that asks for streams is answered only by upstreams
\* that do not stream: agents, Ollama, and those that ignore the flag.
ClientIsToldTheAnswer ==
    phase = "client" /\ turn > 0 =>
        LET said == Map(LAMBDA f : Said(f, answer.by), answer.text)
                        \o Map(LAMBDA c : Said(c.args, answer.by), answer.calls)
        IN  /\ MessageSays(told.message) = Map(AsTold, Only(said, HandedOn))
            /\ told.finish \in {"length", "max_tokens"} <=>
                   /\ answer.why = "cut" /\ answer.by \notin {"azure_openai", "cli_headless"}
                   /\ ~(client.stream /\ client.format = "anthropic")

CallsIn(m) ==
    IF "content" \in DOMAIN m THEN Of(m.content, "tool_use") ELSE m.calls
AnsweredIn(m) ==
    IF "content" \in DOMAIN m
    THEN Map(LAMBDA b : b.id, Of(m.content, "tool_result"))
    ELSE IF m.answers = NoId THEN <<>> ELSE <<m.answers>>

\* In every body of a format with ids, a result answers exactly one call of the
\* nearest assistant message before it, and a call of a message that is not
\* the last is answered exactly once before the next assistant message; an
\* Anthropic client's results never reach an upstream of the OpenAI format.
ResultsFollowTheirCalls ==
    phase = "asked" /\ shown.by \notin Agents \union {"ollama"} =>
        LET ms == shown.body.messages
            asst == {i \in DOMAIN ms : ms[i].role = "assistant"}
            After(i) == {j \in DOMAIN ms : j > i /\ \A k \in asst : ~(i < k /\ k < j)} \ asst
            Answering(i, id) == {x \in After(i) \X (1..2) :
                                    /\ x[2] \in DOMAIN AnsweredIn(ms[x[1]])
                                    /\ AnsweredIn(ms[x[1]])[x[2]] = id}
            Calling(i, id) == {n \in DOMAIN CallsIn(ms[i]) : CallsIn(ms[i])[n].id = id}
        IN  /\ \A j \in DOMAIN ms : \A n \in DOMAIN AnsweredIn(ms[j]) :
                   \E i \in asst : j \in After(i)
                                   /\ Cardinality(Calling(i, AnsweredIn(ms[j])[n])) = 1
            /\ (shown.by \in OAIShaped => client.format = "openai") =>
                   \A i \in asst : \A n \in DOMAIN CallsIn(ms[i]) :
                       Cardinality(Answering(i, CallsIn(ms[i])[n].id)) = 1

\* "AuditCommit (final usage from last IREvent.Usage)": an answer of a priced
\* provider is charged to the key, streamed or not.
StreamedAnswersAreBilled ==
    phase = "client" /\ turn > 0 => turn \in charged

\* A client that asks for no stream is failed only by a fault: by an upstream or a
\* credential that failed it, never by what an adapter makes of an answer.  (A client
\* that asks for one also fails when its upstreams stream as asked.)
OnlyFaultsFailARequest ==
    phase = "failed" => faulted \/ client.stream
=============================================================================
