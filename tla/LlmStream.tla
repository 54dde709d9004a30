------------------------------ MODULE LlmStream ------------------------------
(***************************************************************************)
(* What travels between a query loop and a model.  The messages of the     *)
(* loop become a request (msgs_to_provider); the provider reads the        *)
(* response line by line and turns it into events (stream_events of        *)
(* openai_compat, gpt and gemini); when the stream has ended, the loop     *)
(* reads the events again and puts the tool calls together                 *)
(* (ToolCallAccumulator), which it then executes and answers.              *)
(*                                                                         *)
(* The model is outside src/: it writes text and calls in any number, in   *)
(* pieces, may be cut off at any place (its limit of tokens), refuse the   *)
(* request, or lose the connection.  A text is a number, the arguments of  *)
(* a call are counted in pieces.                                           *)
(***************************************************************************)
EXTENDS Integers, Sequences, FiniteSets, SequencesExt

CONSTANTS
    Providers,  \* the providers in use, of "compat", "gpt", "gemini" and "echo"
    Tools,      \* names of tools
    NoName,     \* the empty name
    Instructed, \* whether the run starts with an instruction
    MaxSaid,    \* bound: calls in a response
    MaxPieces,  \* bound: pieces of the arguments of a call
    MaxTexts,   \* bound: pieces of text in a response
    MaxTurns,   \* bound: requests
    MaxRetries, \* MAX_RETRIES_ON_RATE_LIMIT
    LoopTests   \* values of AI_ECHO_LOOP_TEST

StreamAssumption ==
    /\ Providers \subseteq {"compat", "gpt", "gemini", "echo"}
    /\ NoName \notin Tools /\ Instructed \in BOOLEAN
    /\ {MaxSaid, MaxPieces, MaxTexts, MaxTurns, MaxRetries} \subseteq Nat
    /\ LoopTests \subseteq Nat

ASSUME StreamAssumption

VARIABLES
    provider,    \* the provider of the run
    numbered,    \* whether an openai_compat server numbers its tool calls
    phase,       \* request, stream, assemble, execute, idle or failed
    msgs,        \* the messages of the query loop
    turn,        \* requests so far
    attempt,     \* refusals of this request so far
    said,        \* the calls the model has made in this response
    texts,       \* the pieces of text it has written
    open,        \* calls whose arguments the provider collects, by index or item
    depth,       \* brace_count - 1 while an object of an earlier chunk is open
    events,      \* `collected`: the events of this response
    withTools,   \* tools_enabled: false of the request that asks for a last word
    taken,       \* what the loop has read from the events
    interrupted, \* the flag of SigintChecker
    overlap,     \* the model has begun a call while another was open
    dropped      \* a chunk of the response could not be parsed

response == <<said, texts, open, depth, events, overlap, dropped>>
streamVars ==
    <<provider, numbered, phase, msgs, turn, attempt, response, withTools, taken, interrupted>>

NoArgs == 0
Nothing == [calls |-> <<>>, texts |-> 0]

NoId == [name |-> NoName, n |-> 0]

\* An instruction: the one the run starts with (0), or a follow-up of the judge.
SystemMsg(n) ==
    [kind |-> "system", id |-> [name |-> NoName, n |-> n], name |-> NoName, text |-> FALSE]
\* What a user says, perhaps that a tool be called.
UserMsg(tool) == [kind |-> "user", id |-> NoId, name |-> tool, text |-> TRUE]
\* What the model has said; nothing when it only called tools.
AssistantMsg(text) == [kind |-> "assistant", id |-> NoId, name |-> NoName, text |-> text]
CallMsg(kind, call) == [kind |-> kind, id |-> call.id, name |-> call.name, text |-> FALSE]

Wishes == IF provider = "echo" THEN Tools \union {NoName} ELSE {NoName}

StreamInit ==
    /\ provider \in Providers
    /\ numbered \in (IF provider = "compat" THEN BOOLEAN ELSE {TRUE})
    /\ phase = "request"
    /\ \E tool \in Wishes : msgs = Append(IF Instructed THEN <<SystemMsg(0)>> ELSE <<>>,
                                        UserMsg(tool))
    /\ turn = 0 /\ attempt = 0
    /\ said = <<>> /\ texts = 0 /\ open = <<>> /\ depth = 0 /\ events = <<>>
    /\ withTools = TRUE /\ taken = Nothing
    /\ interrupted = FALSE /\ overlap = FALSE /\ dropped = FALSE

-----------------------------------------------------------------------------
(* The request.  A run of tool calls belongs to the assistant's message    *)
(* before it; a call that follows a result gets an empty message.  The     *)
(* instructions travel beside the list, as its first message or in a field *)
(* of their own.                                                           *)

Message(role, text) == [role |-> role, text |-> text, calls |-> <<>>, answers |-> <<>>]
Answering(role, id) == [Message(role, FALSE) EXCEPT !.answers = <<id>>]

FlushCalls(w) ==
    IF w.pending
    THEN [list |-> Append(w.list, [Message("assistant", w.text) EXCEPT !.calls = w.calls]),
          pending |-> FALSE, text |-> FALSE, calls |-> <<>>]
    ELSE w

\* ... had a result not been put after the message that holds its call.
ConvertResultFirst(w, m) ==
    CASE m.kind = "user" ->
           LET f == FlushCalls(w) IN [f EXCEPT !.list = Append(@, Message("user", m.text))]
      [] m.kind = "system" -> w
      [] m.kind = "assistant" -> [FlushCalls(w) EXCEPT !.pending = TRUE, !.text = m.text]
      [] m.kind = "call" -> [w EXCEPT !.pending = TRUE, !.calls = Append(@, m.id)]
      [] m.kind = "result" -> [w EXCEPT !.list = Append(@, Answering("tool", m.id))]

Convert(w, m) ==
    CASE m.kind = "user" ->
           LET f == FlushCalls(w) IN [f EXCEPT !.list = Append(@, Message("user", m.text))]
      [] m.kind = "system" -> w
      [] m.kind = "assistant" -> [FlushCalls(w) EXCEPT !.pending = TRUE, !.text = m.text]
      [] m.kind = "call" -> [w EXCEPT !.pending = TRUE, !.calls = Append(@, m.id)]
      [] m.kind = "result" ->
           LET f == FlushCalls(w) IN [f EXCEPT !.list = Append(@, Answering("tool", m.id))]

IsSystem(m) == m.kind = "system"
Instructions(ms) == SelectSeq(ms, IsSystem)

\* msgs_to_provider: what the user says is the query when nothing came after it;
\* after calls, or an instruction to go on, the query is empty and the list is sent
\* whole as history.
Request(ms) ==
    LET none == [list |-> <<>>, pending |-> FALSE, text |-> FALSE, calls |-> <<>>]
        list == FlushCalls(FoldLeft(Convert, none, ms)).list
        asked == Last(ms).kind = "user"
    IN  [system |-> Instructions(ms),
         history |-> IF asked THEN Front(list) ELSE list,
         query |-> asked,
         wish |-> IF asked THEN Last(ms).name ELSE NoName]

\* openai_compat: message by message; the query follows even when it is empty.
CompatPayload(r) == Append(r.history, Message("user", r.query))

\* gpt: a message, if it says something, and each call are items of their own.
GptItems(m) ==
    IF m.role # "assistant" THEN <<m>>
    ELSE (IF m.text THEN <<Message("assistant", TRUE)>> ELSE <<>>)
         \o [k \in DOMAIN m.calls |-> [Message("call", FALSE) EXCEPT !.calls = <<m.calls[k]>>]]
GptPayload(r) ==
    Append(FlattenSeq([k \in DOMAIN r.history |-> GptItems(r.history[k])]),
           Message("user", r.query))

\* gemini: results are the user's, by the name of their tool; an empty query is
\* left out if there is a history.
GeminiPart(m) ==
    CASE m.role = "assistant" -> [m EXCEPT !.role = "model"]
      [] m.role = "tool" -> [m EXCEPT !.role = "user"]
      [] OTHER -> m
GeminiPayload(r) ==
    [k \in DOMAIN r.history |-> GeminiPart(r.history[k])]
    \o IF r.query \/ r.history = <<>> THEN <<Message("user", r.query)>> ELSE <<>>

\* echo keeps roles and texts.
EchoPayload(r) ==
    Append([k \in DOMAIN r.history |-> Message(r.history[k].role, r.history[k].text)],
           Message("query", r.query))

Payload(r) ==
    CASE provider = "compat" -> CompatPayload(r)
      [] provider = "gpt" -> GptPayload(r)
      [] provider = "gemini" -> GeminiPayload(r)
      [] provider = "echo" -> EchoPayload(r)

-----------------------------------------------------------------------------
(* Sending it.                                                             *)

Send ==
    /\ phase = "request" /\ turn < MaxTurns
    /\ turn' = turn + 1
    /\ phase' = IF interrupted THEN "failed" ELSE "stream"
    /\ said' = <<>> /\ texts' = 0 /\ open' = <<>> /\ depth' = 0 /\ events' = <<>>
    /\ overlap' = FALSE /\ dropped' = FALSE /\ taken' = Nothing /\ attempt' = 0
    /\ UNCHANGED <<provider, numbered, msgs, withTools, interrupted>>

\* The server answers 429; only gemini asks again.
RateLimited ==
    /\ phase = "stream" /\ provider = "gemini"
    /\ events = <<>> /\ depth = 0 /\ ~dropped
    /\ attempt < MaxRetries
    /\ attempt' = attempt + 1
    /\ UNCHANGED <<provider, numbered, phase, msgs, turn, response, withTools, taken, interrupted>>

\* The server refuses the request, or a line of its response cannot be read.
Broken ==
    /\ phase = "stream" /\ provider # "echo"
    /\ phase' = "failed"
    /\ UNCHANGED <<provider, numbered, msgs, turn, attempt, response>>
    /\ UNCHANGED <<withTools, taken, interrupted>>

-----------------------------------------------------------------------------
(* The events of a response.  Every callback looks at the flag of Ctrl-C   *)
(* and, once it is set, ends the stream and with it the run.               *)

Text == [kind |-> "text"]
Begin(call) == [kind |-> "begin", id |-> call.id, name |-> call.name]
\* Arguments that are blank are not sent.
Args(call, got) ==
    IF got = 0 THEN <<>>
    ELSE << [kind |-> "args", id |-> call.id,
             piece |-> [n |-> call.n, whole |-> got = call.size]] >>
End(call) == [kind |-> "end", id |-> call.id]
Completed == [kind |-> "completed"]

Callback(es) ==
    IF interrupted THEN phase' = "failed" /\ UNCHANGED events
    ELSE events' = events \o es /\ UNCHANGED phase

\* The last callbacks of a stream.
CallbackAndEnd(es) ==
    IF interrupted THEN phase' = "failed" /\ UNCHANGED events
    ELSE events' = events \o es /\ phase' = "assemble"

\* A call the model makes.  An id of gemini is optional.
NewCall(name, size, hasId) ==
    [n |-> Len(said) + 1, name |-> name, size |-> size,
     id |-> [name |-> name, n |-> IF hasId THEN Len(said) + 1 ELSE 0]]

streamFrame ==
    <<provider, numbered, msgs, turn, attempt, depth, withTools, taken, interrupted, dropped>>

Deltas == provider \in {"compat", "gpt"}

\* openai_compat and gpt: a piece of text.
TextDelta ==
    /\ phase = "stream" /\ Deltas /\ texts < MaxTexts
    /\ texts' = texts + 1
    /\ Callback(<<Text>>)
    /\ UNCHANGED <<streamFrame, said, open, overlap>>

\* The index of a new call: index_to_call of openai_compat (0 when the server
\* gives none), an item of its own in gpt.
Slot == IF numbered THEN Len(said) + 1 ELSE 1

Put(f, i, v) == [x \in DOMAIN f \union {i} |-> IF x = i THEN v ELSE f[x]]
Drop(f, i) == [x \in DOMAIN f \ {i} |-> f[x]]

BeginCall(name, size) ==
    /\ phase = "stream" /\ Deltas /\ Len(said) < MaxSaid
    /\ LET call == NewCall(name, size, TRUE)
       IN  /\ said' = Append(said, call)
           /\ open' = Put(open, Slot, [call |-> call, got |-> 0])
           /\ Callback(<<Begin(call)>>)
    /\ overlap' = (overlap \/ DOMAIN open # {})
    /\ UNCHANGED <<streamFrame, texts>>

\* A piece of the arguments, kept until the call ends.
ArgsDelta(i) ==
    /\ phase = "stream" /\ Deltas
    /\ i \in DOMAIN open /\ open[i].got < open[i].call.size
    /\ open' = [open EXCEPT ![i].got = @ + 1]
    /\ UNCHANGED <<streamFrame, phase, said, texts, events, overlap>>

\* gpt: the call is complete, with all its arguments.
ArgsDone(i) ==
    /\ phase = "stream" /\ provider = "gpt"
    /\ i \in DOMAIN open
    /\ LET call == open[i].call
       IN  Callback(Append(Args(call, call.size), End(call)))
    /\ open' = Drop(open, i)
    /\ UNCHANGED <<streamFrame, said, texts, overlap>>

\* The calls that are still open, each with what has arrived of its arguments.
Rest(order) ==
    FlattenSeq([k \in DOMAIN order |->
        Append(Args(open[order[k]].call, open[order[k]].got), End(open[order[k]].call))])

\* openai_compat sorts their indices, gpt has them in any order (a HashMap).
Orders ==
    {order \in SetToSeqs(DOMAIN open) :
        provider = "compat" => \A i, j \in DOMAIN order : i < j => order[i] < order[j]}

\* ... had the calls that are still open been forgotten.
EndReplyWithoutRest ==
    /\ phase = "stream" /\ Deltas
    /\ CallbackAndEnd(<<Completed>>)
    /\ UNCHANGED <<streamFrame, said, texts, open, overlap>>

\* The response of openai_compat or gpt ends, whole or cut off.  gpt takes an
\* empty one for an error.
EndReply ==
    /\ phase = "stream" /\ Deltas
    /\ \/ /\ provider = "gpt" /\ texts = 0 /\ said = <<>>
          /\ phase' = "failed" /\ UNCHANGED events
       \/ /\ ~(provider = "gpt" /\ texts = 0 /\ said = <<>>)
          /\ \E order \in Orders : CallbackAndEnd(Append(Rest(order), Completed))
    /\ UNCHANGED <<streamFrame, said, texts, open, overlap>>

-----------------------------------------------------------------------------
(* gemini frames a response by counting braces, those inside of texts and  *)
(* arguments included: a lone one makes an object end too early or too     *)
(* late, and what cannot be parsed is passed over.                         *)

Surplus == {-1, 0, 1}   \* "{" minus "}" inside the strings of a chunk

Depth(surplus) == IF depth + surplus > 0 THEN depth + surplus ELSE 0
Framed(surplus) == depth = 0 /\ surplus = 0

ChunkFrame ==
    <<provider, numbered, msgs, turn, attempt, open, overlap, withTools, taken, interrupted>>

TextChunk(surplus) ==
    /\ phase = "stream" /\ provider = "gemini" /\ texts < MaxTexts
    /\ texts' = texts + 1
    /\ depth' = Depth(surplus)
    /\ dropped' = (dropped \/ ~Framed(surplus))
    /\ IF Framed(surplus) THEN Callback(<<Text>>) ELSE UNCHANGED <<events, phase>>
    /\ UNCHANGED <<ChunkFrame, said>>

\* A chunk with a whole call; its arguments are one piece.
CallChunk(name, size, hasId, surplus) ==
    /\ phase = "stream" /\ provider = "gemini" /\ Len(said) < MaxSaid
    /\ size <= 1 /\ (size = 0 => surplus = 0)
    /\ LET call == NewCall(name, size, hasId)
       IN  /\ said' = Append(said, call)
           /\ IF Framed(surplus)
              THEN Callback(<<Begin(call)>> \o Args(call, size) \o <<End(call)>>)
              ELSE UNCHANGED <<events, phase>>
    /\ depth' = Depth(surplus)
    /\ dropped' = (dropped \/ ~Framed(surplus))
    /\ UNCHANGED <<ChunkFrame, texts>>

LastChunk ==
    /\ phase = "stream" /\ provider = "gemini"
    /\ CallbackAndEnd(<<Completed>>)
    /\ UNCHANGED <<ChunkFrame, said, texts, depth, dropped>>

-----------------------------------------------------------------------------
(* echo is no model: it calls the tool that the user has named, or some    *)
(* more after a result, as a test of loops, or says what it was asked.     *)

Results(payload) == Cardinality({k \in DOMAIN payload : payload[k].role = "tool"})
AfterResult(payload) ==
    Len(payload) > 1 /\ payload[Len(payload) - 1].role = "tool"

EchoCall(call) ==
    /\ said' = <<call>>
    /\ CallbackAndEnd(<<Begin(call)>> \o Args(call, call.size) \o <<End(call), Completed>>)
    /\ UNCHANGED texts

EchoText ==
    /\ texts' = 1
    /\ CallbackAndEnd(<<Text, Completed>>)
    /\ UNCHANGED said

\* `first` is the first of the tools, or run_shell when it is given none: then it
\* finds no tool that the user has named, but goes on with the test.
EchoReply(first, limit) ==
    /\ phase = "stream" /\ provider = "echo"
    /\ LET request == Request(msgs)
           payload == Payload(request)
           step == Results(payload) + 1
       IN  CASE AfterResult(payload) /\ step <= limit ->
                  EchoCall([n |-> 1, name |-> first, size |-> 1,
                            id |-> [name |-> NoName, n |-> step]])
             [] ~AfterResult(payload) /\ withTools /\ request.wish # NoName ->
                  EchoCall([n |-> 1, name |-> request.wish, size |-> 1,
                            id |-> [name |-> request.wish, n |-> 0]])
             [] OTHER -> EchoText
    /\ UNCHANGED <<ChunkFrame, depth, dropped>>

-----------------------------------------------------------------------------
(* Reading the events.  The accumulator has one slot: a begin fills it, an *)
(* end empties it whatever its id.                                         *)

NewSlot == [name |-> NoName, args |-> <<>>, calls |-> <<>>, texts |-> 0, bad |-> FALSE]

\* The arguments parse when they are one whole value or nothing.
Parses(args) == args = <<>> \/ (Len(args) = 1 /\ args[1].whole)
ArgsValue(args) == IF args = <<>> THEN NoArgs ELSE args[1].n

\* ... had the end of a call not emptied the slot, nor the next begin.
TakeEventUncleared(acc, ev) ==
    CASE ev.kind = "text" -> [acc EXCEPT !.texts = @ + 1]
      [] ev.kind = "begin" -> [acc EXCEPT !.name = ev.name]
      [] ev.kind = "args" -> [acc EXCEPT !.args = Append(@, ev.piece)]
      [] ev.kind = "end" ->
           [acc EXCEPT !.calls = Append(@, [id |-> ev.id, name |-> acc.name,
                                            args |-> ArgsValue(acc.args)])]
      [] ev.kind = "completed" -> acc

TakeEvent(acc, ev) ==
    CASE ev.kind = "text" -> [acc EXCEPT !.texts = @ + 1]
      [] ev.kind = "begin" -> [acc EXCEPT !.name = ev.name, !.args = <<>>]
      [] ev.kind = "args" -> [acc EXCEPT !.args = Append(@, ev.piece)]
      [] ev.kind = "end" ->
           IF Parses(acc.args)
           THEN [acc EXCEPT !.calls = Append(@, [id |-> ev.id, name |-> acc.name,
                                                  args |-> ArgsValue(acc.args)]),
                            !.name = NoName, !.args = <<>>]
           ELSE [acc EXCEPT !.bad = TRUE, !.args = <<>>]
      [] ev.kind = "completed" -> acc

Spoken == Cardinality({i \in DOMAIN events : events[i].kind = "text"})

\* Calls are passed over when the request has offered no tools.
Assembled ==
    IF withTools THEN FoldLeft(TakeEvent, NewSlot, events)
    ELSE [NewSlot EXCEPT !.texts = Spoken]

\* Arguments that do not parse end the run.
Assemble ==
    /\ phase = "assemble"
    /\ IF Assembled.bad
       THEN phase' = "failed" /\ UNCHANGED <<taken, msgs>>
       ELSE /\ taken' = [calls |-> Assembled.calls, texts |-> Assembled.texts]
            /\ msgs' = IF Assembled.calls = <<>> /\ Assembled.texts = 0 THEN msgs
                       ELSE Append(msgs, AssistantMsg(Assembled.texts > 0))
            /\ phase' = IF Assembled.calls = <<>> THEN "idle" ELSE "execute"
    /\ UNCHANGED <<provider, numbered, turn, attempt, response, withTools, interrupted>>

\* The next request offers tools; or a limit is reached, and the model is asked for a
\* last word without them (finalization).
NextOffers == BOOLEAN

\* The calls up to the cap are executed and answered, one after another.
Execute ==
    /\ phase = "execute"
    /\ withTools' \in NextOffers
    /\ \E cap \in 1..Len(taken.calls) :
         msgs' = msgs \o FlattenSeq([k \in 1..cap |-> << CallMsg("call", taken.calls[k]),
                                                         CallMsg("result", taken.calls[k]) >>])
    /\ phase' = "request"
    /\ UNCHANGED <<provider, numbered, turn, attempt, response, taken, interrupted>>

\* The judge is not satisfied with a loop that is done: the next one is told to go
\* on, by an instruction with the marker of retries (1) or one in a model's own
\* words (2), unless one with the marker is there (inject_followup_system).
AskMore ==
    /\ phase = "idle" /\ withTools
    /\ IF \E k \in DOMAIN msgs : msgs[k] = SystemMsg(1) THEN UNCHANGED msgs
       ELSE \E n \in {1, 2} : msgs' = Append(msgs, SystemMsg(n))
    /\ phase' = "request"
    /\ UNCHANGED <<provider, numbered, turn, attempt, response, withTools, taken, interrupted>>

\* The limit was reached, and the user lets it go on (ask_continue).
Continue ==
    /\ phase = "idle" /\ ~withTools
    /\ withTools' = TRUE /\ phase' = "request"
    /\ UNCHANGED <<provider, numbered, msgs, turn, attempt, response, taken, interrupted>>

Interrupt ==
    /\ phase \in {"request", "stream"} /\ ~interrupted
    /\ interrupted' = TRUE
    /\ UNCHANGED <<provider, numbered, phase, msgs, turn, attempt, response, withTools, taken>>

StreamNext ==
    \/ Send \/ RateLimited \/ Broken
    \/ TextDelta
    \/ \E name \in Tools, size \in 0..MaxPieces : BeginCall(name, size)
    \/ \E i \in DOMAIN open : ArgsDelta(i) \/ ArgsDone(i)
    \/ EndReply
    \/ \E surplus \in Surplus : TextChunk(surplus)
    \/ \E name \in Tools, size \in 0..MaxPieces, hasId \in BOOLEAN, surplus \in Surplus :
         CallChunk(name, size, hasId, surplus)
    \/ LastChunk
    \/ \E first \in Tools, limit \in LoopTests : EchoReply(first, limit)
    \/ Assemble \/ Execute \/ AskMore \/ Continue
    \/ Interrupt

StreamSpec == StreamInit /\ [][StreamNext]_streamVars

-----------------------------------------------------------------------------
(* Properties.                                                             *)

\* The call the model has made: its arguments are the whole ones, or none when
\* the response was cut before the first piece.
SameCall(it, call) ==
    /\ it.id = call.id /\ it.name = call.name
    /\ it.args \in {NoArgs, call.n} /\ (call.size = 0 => it.args = NoArgs)

Known == phase \in {"execute", "idle"}

\* Unless the model begins a call before the one before has ended, every call
\* the loop is about to execute is one the model made, under its id, with its
\* name and its own arguments, whole or none (TakeEvent against the events of
\* each provider): never a piece of them, never those of another call.
CallsAsAsked ==
    Known /\ ~overlap =>
        \A k \in DOMAIN taken.calls : \E j \in DOMAIN said : SameCall(taken.calls[k], said[j])

\* Unless a brace has broken the framing of gemini, the text of a response
\* arrives.  Of its calls each arrives exactly once, those that a limit of tokens
\* has cut included, unless a server has not numbered calls that it makes side by
\* side; none does when the loop asks for a last word (run_once_impl).
NothingLost ==
    Known /\ ~dropped =>
        /\ taken.texts = texts
        /\ withTools /\ (numbered \/ ~overlap) =>
             /\ Len(taken.calls) = Len(said)
             /\ \A j \in DOMAIN said :
                  \E k \in DOMAIN taken.calls : taken.calls[k].id = said[j].id
        /\ ~withTools => taken.calls = <<>>

CallsOf(ms) == FlattenSeq([k \in DOMAIN ms |-> IF ms[k].kind = "call" THEN <<ms[k].id>> ELSE <<>>])
Texts(ms) == Cardinality({k \in DOMAIN ms : ms[k].text})

\* The request that each provider makes of the conversation tells all of it: the
\* texts, and the calls in their order, every call answered in the item after it
\* and no answer elsewhere, as the Responses API requires (gpt.rs:160), whatever
\* calls the model made before (msgs_to_provider with each make_request_payload).
AnswersFollowCalls ==
    phase = "request" /\ provider # "echo" =>
        LET wire == Payload(Request(msgs))
        IN  /\ \A i \in DOMAIN wire : wire[i].answers # <<>> =>
                 i > 1 /\ wire[i - 1].calls = wire[i].answers
            /\ \A i \in DOMAIN wire : wire[i].calls # <<>> =>
                 i < Len(wire) /\ wire[i + 1].answers = wire[i].calls
            /\ FlattenSeq([i \in DOMAIN wire |-> wire[i].calls]) = CallsOf(msgs)
            /\ Texts(wire) = Texts(msgs)

\* The calls of a response keep the name and the arguments that belong to their
\* id, as the accumulator's comment has it (query_loop.rs:169: a map from
\* call_id to name, arguments and signature).
CallsKeepTheirNames ==
    Known => \A k \in DOMAIN taken.calls, j \in DOMAIN said :
                taken.calls[k].id = said[j].id => SameCall(taken.calls[k], said[j])

=============================================================================
