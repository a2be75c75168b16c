-------------------------- MODULE AnthropicMessages --------------------------
(***************************************************************************)
(* One POST /v1/messages (internal/handlers/anthropic.go): the request is  *)
(* translated to chat/completions, sent through ProxyRequest with a writer *)
(* of its own, and the answer is translated back, event by event for a     *)
(* client that streams (streamWriter), at the end for one that does not    *)
(* (captureWriter).                                                        *)
(*                                                                         *)
(* What ProxyRequest writes (internal/upstream/grok.go, codebuddy.go) is   *)
(* the environment: lines of an SSE answer, cut at any byte by the reads   *)
(* of the Grok loop, an error, or a body that is not a stream.             *)
(*                                                                         *)
(* Text and tool arguments consist of pieces.  A piece is named by the     *)
(* number of the upstream line that carried it, which is also its place    *)
(* among the others, so that a lost, a repeated and a swapped piece all    *)
(* show.                                                                   *)
(***************************************************************************)
EXTENDS Integers, Sequences, SequencesExt, FiniteSets

CONSTANTS
    Conversations,  \* requests a client may send: sequences of messages
    Indexes,        \* tool_call indexes an upstream may use
    Finishes,       \* finish_reasons an upstream may send
    LogLimit,       \* pieces of text truncateLog keeps
    MaxLines        \* bound: lines of an upstream's answer

ASSUME IndexesAssumption == Indexes \subseteq Nat
ASSUME LogLimitAssumption == LogLimit \in Nat \ {0}
ASSUME MaxLinesAssumption == MaxLines \in Nat

VARIABLES
    stage,    \* where the handler is
    body,     \* the messages: of the request, then of the translated one
    via,      \* "grok" or "cb", the upstream the request is routed to
    lines,    \* history: what the upstream has sent
    carry,    \* streamWriter.carry: is there the beginning of a line in it?
    sw,       \* the rest of the streamWriter, and what it sent to the client
    answer    \* how the client was answered

messagesVars == <<stage, body, via, lines, carry, sw, answer>>

-----------------------------------------------------------------------------
(***************************************************************************)
(* The request                                                             *)
(***************************************************************************)

\* A message has a role and blocks of content; a plain string is one block.
IsText(b) == b.type = "text"
IsUse(b) == b.type = "tool_use"
IsResult(b) == b.type = "tool_result"
Ids(blocks) == [i \in DOMAIN blocks |-> blocks[i].id]

OpenAI(role, text, calls, result) ==
    [role |-> role, text |-> text, calls |-> calls, result |-> result]

ToolMessage(b) == OpenAI("tool", <<>>, <<>>, b.id)

\* Faulty variant: a user message is either text or tool results.
translateMessageEither(m) ==
    LET text == Ids(SelectSeq(m.blocks, IsText))
        results == SelectSeq(m.blocks, IsResult)
    IN  IF m.role = "user" /\ text = <<>>
        THEN [i \in DOMAIN results |-> ToolMessage(results[i])]
        ELSE <<OpenAI(m.role, text, Ids(SelectSeq(m.blocks, IsUse)), "none")>>

\* A user message becomes its text and a message for each tool result, an
\* assistant's message one message with its text and its tool calls; of any
\* other role the text is kept.
translateMessage(m) ==
    LET text == Ids(SelectSeq(m.blocks, IsText))
        results == SelectSeq(m.blocks, IsResult)
        calls == Ids(SelectSeq(m.blocks, IsUse))
    IN  CASE m.role = "user" ->
               (IF text = <<>> THEN <<>> ELSE <<OpenAI("user", text, <<>>, "none")>>)
               \o [i \in DOMAIN results |-> ToolMessage(results[i])]
          [] m.role = "assistant" -> <<OpenAI("assistant", text, calls, "none")>>
          [] OTHER -> <<OpenAI(m.role, text, <<>>, "none")>>

translateMessages(msgs) ==
    FlattenSeq([i \in DOMAIN msgs |-> translateMessage(msgs[i])])

-----------------------------------------------------------------------------
(***************************************************************************)
(* What an upstream sends                                                  *)
(***************************************************************************)

\* A delta of a tool call: its first one carries its name, and any may carry
\* a piece of the arguments.
ToolCalls == [index : Indexes, name : BOOLEAN, args : BOOLEAN]

NoCall == [index |-> -1, name |-> FALSE, args |-> FALSE]

Line(text, call, finish) ==
    [kind |-> "chunk", text |-> text, call |-> call, finish |-> finish]

\* Anything processLine passes over: comments, event names, broken JSON.
Ignored == [Line(FALSE, NoCall, "") EXCEPT !.kind = "ignored"]

Done == [Line(FALSE, NoCall, "") EXCEPT !.kind = "done"]

Lines == {Line(TRUE, c, "") : c \in ToolCalls \cup {NoCall}}
           \cup {Line(FALSE, c, "") : c \in ToolCalls}
           \cup {Line(FALSE, NoCall, f) : f \in Finishes}
           \cup {Ignored, Done}

IsDone(ls) == ls # <<>> /\ Last(ls).kind = "done"

\* The pieces of text and of the arguments of a call, the calls, and the last
\* finish_reason of an answer.
TextOf(ls) == {n \in DOMAIN ls : ls[n].text}

ArgsOf(ls, x) == {n \in DOMAIN ls : ls[n].call.index = x /\ ls[n].call.args}

CallsOf(ls) == {x \in Indexes : \E n \in DOMAIN ls : ls[n].call.index = x}

FinishOf(ls) ==
    LET fs == {n \in DOMAIN ls : ls[n].finish # ""}
    IN  IF fs = {} THEN "" ELSE ls[Max(fs)].finish

mapStopReason(finish) ==
    CASE finish \in {"tool_calls", "function_call"} -> "tool_use"
      [] finish = "length" -> "max_tokens"
      [] finish = "content_filter" -> "stop_sequence"
      [] OTHER -> "end_turn"

-----------------------------------------------------------------------------
(***************************************************************************)
(* streamWriter                                                            *)
(***************************************************************************)

NoTool == [block |-> 0, name |-> FALSE, started |-> FALSE, closed |-> FALSE]

newStreamWriter ==
    [started |-> FALSE, textOpen |-> FALSE, textClosed |-> FALSE,
     stopped |-> FALSE, finish |-> "", next |-> 1,
     tools |-> [x \in Indexes |-> NoTool], sent |-> <<>>]

Event(type, block, piece) == [type |-> type, block |-> block, piece |-> piece]

emitEvent(w, type, block, piece) ==
    [w EXCEPT !.sent = Append(@, Event(type, block, piece))]

ensureStart(w) ==
    IF w.started THEN w
    ELSE emitEvent([w EXCEPT !.started = TRUE], "message_start", -1, 0)

ensureTextBlock(w) ==
    IF w.textOpen THEN w
    ELSE emitEvent([w EXCEPT !.textOpen = TRUE], "start", 0, 0)

\* Faulty variant: the block is closed again by finalize.
closeTextBlockTwice(w) ==
    IF ~w.textOpen THEN w
    ELSE emitEvent([w EXCEPT !.textClosed = TRUE], "stop", 0, 0)

closeTextBlock(w) ==
    IF ~w.textOpen \/ w.textClosed THEN w
    ELSE emitEvent([w EXCEPT !.textClosed = TRUE], "stop", 0, 0)

\* A call gets its block number when it is first seen, and its block is
\* opened when its name is known.
ensureToolBlock(w, c) ==
    LET x == c.index
        seen == IF w.tools[x].block # 0 THEN w
                ELSE [w EXCEPT !.tools[x].block = w.next, !.next = @ + 1]
        named == [seen EXCEPT !.tools[x].name = @ \/ c.name]
    IN  IF named.tools[x].started \/ ~named.tools[x].name THEN named
        ELSE LET closed == closeTextBlock(named)
             IN  emitEvent([closed EXCEPT !.tools[x].started = TRUE],
                           "start", closed.tools[x].block, 0)

\* A finite set of numbers as a sequence.
Upwards(S) ==
    CHOOSE s \in SetToSeqs(S) : \A i, j \in DOMAIN s : i < j => s[i] < s[j]

\* closeToolBlock for every block that is open, by their numbers.
closeToolBlocks(w) ==
    LET open == {x \in Indexes : w.tools[x].started /\ ~w.tools[x].closed}
        ordered == Upwards({w.tools[x].block : x \in open})
    IN  [w EXCEPT !.tools = [x \in Indexes |->
                                [w.tools[x] EXCEPT !.closed = @ \/ x \in open]],
                  !.sent = @ \o [i \in DOMAIN ordered |-> Event("stop", ordered[i], 0)]]

\* Every open block is closed, the text first, then the tools.
finalize(w) ==
    IF w.stopped THEN w
    ELSE LET shell == ensureStart(w)
             shown == IF ~shell.textOpen /\ shell.next = 1
                      THEN ensureTextBlock(shell) ELSE shell
             closed == closeToolBlocks(closeTextBlock([shown EXCEPT !.stopped = TRUE]))
             delta == emitEvent(closed, mapStopReason(closed.finish), -1, 0)
         IN  emitEvent(delta, "message_stop", -1, 0)

\* n is the number of the line: the name of the pieces it carries.
processText(w, l, n) ==
    IF ~l.text THEN w
    ELSE emitEvent(ensureTextBlock(ensureStart(w)), "delta", 0, n)

processCall(w, l, n) ==
    IF l.call = NoCall THEN w
    ELSE LET opened == ensureToolBlock(ensureStart(w), l.call)
             tb == opened.tools[l.call.index]
         IN  IF l.call.args /\ tb.started
             THEN emitEvent(opened, "delta", tb.block, n) ELSE opened

processLine(w, l, n) ==
    CASE l.kind = "ignored" -> w
      [] l.kind = "done" -> finalize(w)
      [] OTHER -> LET after == processCall(processText(w, l, n), l, n)
                  IN  IF l.finish = "" THEN after
                      ELSE [after EXCEPT !.finish = l.finish]

-----------------------------------------------------------------------------
(***************************************************************************)
(* captureWriter and the answer in one piece                               *)
(***************************************************************************)

Dots == -1      \* the "..." that truncateLog appends
Ellipsis == -2  \* the character the handler looks for

truncateLog(text) ==
    IF Cardinality(text) <= LogLimit THEN text
    ELSE {n \in text : Cardinality({m \in text : m <= n}) <= LogLimit} \cup {Dots}

\* The body ProxyRequest leaves in the captureWriter.  What CodeBuddy answered
\* has gone through cbCollectStream, which collects text and finish_reason.
captured ==
    [text |-> TextOf(lines),
     calls |-> IF via = "cb" THEN {} ELSE CallsOf(lines),
     finish |-> IF via = "cb" /\ FinishOf(lines) = "" THEN "stop"
                ELSE FinishOf(lines)]

\* The text of the response: output_text as ProxyRequest recorded it, unless
\* that is empty or marked as cut.
outputText(full) ==
    LET logged == truncateLog(full)
    IN  IF logged = {} \/ Ellipsis \in logged THEN full ELSE logged

\* A response: its text, the arguments of its tool_use blocks, its stop_reason.
Response ==
    LET c == captured
        finish == IF c.calls # {} /\ c.finish = "" THEN "tool_calls" ELSE c.finish
    IN  [kind |-> "json", text |-> outputText(c.text),
         tools |-> [x \in c.calls |-> ArgsOf(lines, x)],
         stop |-> mapStopReason(finish)]

Failed == [kind |-> "error", text |-> {}, tools |-> <<>>, stop |-> "none"]

Streamed == [Failed EXCEPT !.kind = "sse"]

Unanswered == [Failed EXCEPT !.kind = "none"]

-----------------------------------------------------------------------------
(***************************************************************************)
(* HandleMessages                                                          *)
(***************************************************************************)

MessagesInit ==
    /\ stage = "request"
    /\ body \in Conversations
    /\ via \in {"grok", "cb"}
    /\ lines = <<>>
    /\ carry = FALSE
    /\ sw = newStreamWriter
    /\ answer = Unanswered

\* A body that is too large, is not JSON, or has no messages.
Reject ==
    /\ stage = "request"
    /\ body = <<>>
    /\ stage' = "end"
    /\ answer' = Failed
    /\ UNCHANGED <<body, via, lines, carry, sw>>

Translate ==
    /\ stage = "request"
    /\ body # <<>>
    /\ body' = translateMessages(body)
    /\ stage' = "translated"
    /\ UNCHANGED <<via, lines, carry, sw, answer>>

\* inner(c) is called with the translated body and the writer of the mode.
Forward(mode) ==
    /\ stage = "translated"
    /\ stage' = mode
    /\ body' = <<>>
    /\ UNCHANGED <<via, lines, carry, sw, answer>>

\* ProxyRequest fails before anything of an answer is there: its JSON goes to
\* errBuf, or to the captureWriter, and to the client in the Anthropic form.
UpstreamError ==
    /\ stage \in {"stream", "batch"}
    /\ lines = <<>> /\ ~carry
    /\ stage' = "end"
    /\ answer' = Failed
    /\ UNCHANGED <<body, via, lines, carry, sw>>

CanSend(l) ==
    /\ Len(lines) < MaxLines
    /\ ~IsDone(lines)
    /\ l \in Lines

\* Faulty variant: the bytes in carry are forgotten, and the rest is no data line.
StreamLineWithoutCarry(l) ==
    /\ stage = "stream"
    /\ CanSend(l)
    /\ lines' = Append(lines, l)
    /\ carry' = FALSE
    /\ sw' = IF carry THEN sw ELSE processLine(sw, l, Len(lines'))
    /\ UNCHANGED <<stage, body, via, answer>>

\* The bytes of a line end it and are given to the writer: at once, or after
\* the bytes in carry.
StreamLine(l) ==
    /\ stage = "stream"
    /\ CanSend(l)
    /\ lines' = Append(lines, l)
    /\ carry' = FALSE
    /\ sw' = processLine(sw, l, Len(lines'))
    /\ UNCHANGED <<stage, body, via, answer>>

\* A read of the Grok loop ends within a line.  CodeBuddy's are written whole.
StreamPart ==
    /\ stage = "stream"
    /\ via = "grok"
    /\ Len(lines) < MaxLines
    /\ ~IsDone(lines)
    /\ ~carry
    /\ carry' = TRUE
    /\ UNCHANGED <<stage, body, via, lines, sw, answer>>

\* ProxyRequest returns: the stream has ended, was cut, or the client is gone.
\* The handler ends what the writer began, or answers with an error.
EndStream(w) ==
    /\ stage' = "end"
    /\ carry' = FALSE
    /\ sw' = IF w.started THEN finalize(w) ELSE w
    /\ answer' = IF w.started THEN Streamed ELSE Failed
    /\ UNCHANGED <<body, via>>

\* What is left in carry, if anything, was cut within the line.
StreamEnds ==
    /\ stage = "stream"
    /\ lines' = lines
    /\ EndStream(sw)

\* What is left in carry is a line without its newline.
StreamEndsWith(l) ==
    /\ stage = "stream"
    /\ carry
    /\ CanSend(l)
    /\ lines' = Append(lines, l)
    /\ EndStream(processLine(sw, l, Len(lines')))

\* The answer to a client that does not stream, as it arrives in ProxyRequest.
BatchLine(l) ==
    /\ stage = "batch"
    /\ CanSend(l)
    /\ lines' = Append(lines, l)
    /\ UNCHANGED <<stage, body, via, carry, sw, answer>>

BatchEnds ==
    /\ stage = "batch"
    /\ stage' = "end"
    /\ answer' = Response
    /\ UNCHANGED <<body, via, lines, carry, sw>>

Ended == stage = "end" /\ UNCHANGED messagesVars

MessagesNext ==
    \/ Reject
    \/ Translate
    \/ \E mode \in {"stream", "batch"} : Forward(mode)
    \/ UpstreamError
    \/ \E l \in Lines : StreamLine(l) \/ StreamEndsWith(l) \/ BatchLine(l)
    \/ StreamPart
    \/ StreamEnds
    \/ BatchEnds
    \/ Ended

MessagesSpec == MessagesInit /\ [][MessagesNext]_messagesVars

-----------------------------------------------------------------------------
(***************************************************************************)
(* Properties                                                              *)
(***************************************************************************)

\* Positions of the events of a type and a block in what was sent.
Events(sent, type, block) ==
    {i \in DOMAIN sent : sent[i].type = type /\ sent[i].block = block}

At(type, block) == Events(sw.sent, type, block)

Blocks == 0..Cardinality(Indexes)

\* No text follows a tool call: the answers the block order is made for.
TextFirst(ls) ==
    \A i, j \in DOMAIN ls : ls[i].call # NoCall /\ ls[j].text => j <= i

\* The events form one message for the client's parser, whatever lines the
\* upstream sends and wherever they are cut: message_start comes first and
\* once, a block is opened and closed at most once and in this order, its
\* deltas lie between the two (for the text of answers that begin with it), and
\* when the handler has ended every block is closed and message_stop is last
\* and once.  streamWriter sends each of these from several places.
OneMessage ==
    /\ \A i \in DOMAIN sw.sent : (sw.sent[i].type = "message_start") <=> (i = 1)
    /\ \A b \in Blocks :
          /\ Cardinality(At("start", b)) <= 1
          /\ Cardinality(At("stop", b)) <= 1
          /\ \A i \in At("stop", b) \cup At("delta", b) :
                \E j \in At("start", b) : j < i
          /\ b # 0 \/ TextFirst(lines) =>
                \A i \in At("delta", b), j \in At("stop", b) : i < j
          /\ stage = "end" => Cardinality(At("start", b)) = Cardinality(At("stop", b))
    /\ answer.kind = "sse" =>
          At("message_stop", -1) = {Len(sw.sent)}
    /\ answer.kind = "error" => sw.sent = <<>>

\* A client gets these pieces for a block, each once and in their order.
Gets(sent, block, pieces) ==
    LET ds == Events(sent, "delta", block)
    IN  /\ {sent[i].piece : i \in ds} = pieces
        /\ \A i, j \in ds : i < j => sent[i].piece < sent[j].piece

\* The first line that mentions call x carries its name.
Named(ls, x) ==
    \E n \in DOMAIN ls :
        /\ ls[n].call.index = x /\ ls[n].call.name
        /\ \A m \in DOMAIN ls : ls[m].call.index = x => n <= m

\* The client gets the upstream's answer.  One that streams gets all pieces of
\* text and, for each call whose first delta carries its name, all pieces of
\* its arguments in a block of its own, in order, wherever the reads cut the
\* lines; one that does not gets the same of a Grok answer whose text is not
\* longer than what ProxyRequest logs.  Both get the last finish_reason.
ClientGetsAnswer ==
    /\ answer.kind = "sse" =>
          /\ Gets(sw.sent, 0, TextOf(lines))
          /\ \A x \in CallsOf(lines) :
                Named(lines, x) => Gets(sw.sent, sw.tools[x].block, ArgsOf(lines, x))
          /\ \A x, y \in CallsOf(lines) :
                x # y => sw.tools[x].block # sw.tools[y].block
          /\ sw.sent[Len(sw.sent) - 1].type = mapStopReason(FinishOf(lines))
    /\ answer.kind = "json" /\ via = "grok" /\ Cardinality(TextOf(lines)) <= LogLimit =>
          /\ answer.text = TextOf(lines)
          /\ answer.tools = [x \in CallsOf(lines) |-> ArgsOf(lines, x)]
          /\ FinishOf(lines) # "" => answer.stop = mapStopReason(FinishOf(lines))

\* The translated request has the tool calls and the tool results of the
\* conversation in their order: none is lost when a message is split into
\* several or several blocks are joined into one.
ToolHistory(msgs) ==
    FlattenSeq([i \in DOMAIN msgs |->
        Ids(SelectSeq(msgs[i].blocks, LAMBDA b : IsUse(b) \/ IsResult(b)))])

BodyHistory ==
    FlattenSeq([i \in DOMAIN body |->
        body[i].calls \o (IF body[i].result = "none" THEN <<>> ELSE <<body[i].result>>)])

TranslationKeepsTools ==
    [][Translate => BodyHistory' = ToolHistory(body)]_messagesVars
=============================================================================
