------------------------------ MODULE ChatStream ------------------------------
(***************************************************************************)
(* The Anthropic messages endpoint of src/internal/httpapi/anthropic.go:   *)
(* a conversation becomes an OpenAI request, and the completion, in one    *)
(* piece or as a stream of lines, an Anthropic message or a sequence of    *)
(* events.                                                                 *)
(*                                                                         *)
(* A text is a sequence of pieces; the content of a message is a text or a *)
(* sequence of blocks, of which only those of type "text" have one.        *)
(* A line of the upstream is a record.  Its kind is "chunk", "other" (no   *)
(* data: prefix), "garbage" (no JSON), "done" ([DONE]) or "long" (beyond   *)
(* the 64 KB of bufio.Scanner).  A chunk has text, a finish reason, a      *)
(* token count, any of them absent, and may have no choices.               *)
(***************************************************************************)
EXTENDS Naturals, Sequences, FiniteSets, SequencesExt

NoText == ""
NoReason == ""
NoUsage == 0

Chunk(choices, text, finish, usage) ==
    [kind |-> "chunk", choices |-> choices, text |-> text, finish |-> finish, usage |-> usage]

Marker(kind) ==
    [kind |-> kind, choices |-> FALSE, text |-> NoText, finish |-> NoReason, usage |-> NoUsage]

(* mapFinishReason *)
StopReason(finish) ==
    IF finish = "length" THEN "max_tokens"
    ELSE IF finish = "content_filter" THEN "stop_sequence" ELSE "end_turn"

(* Mutant: a chunk without choices is passed over, its usage too. *)
Apply_ChoicesFirst(turn, line) ==
    IF line.kind # "chunk" \/ ~ line.choices THEN turn
    ELSE [deltas |-> IF line.text = NoText THEN turn.deltas ELSE Append(turn.deltas, line.text),
          finish |-> IF line.finish = NoReason THEN turn.finish ELSE line.finish,
          tokens |-> IF line.usage = NoUsage THEN turn.tokens ELSE line.usage]

(* One turn of the loop.  The usage is taken before the choices are looked *)
(* at: upstream may send it in a chunk that has none.                      *)
Apply(turn, line) ==
    LET counted == [turn EXCEPT !.tokens = IF line.usage = NoUsage THEN @ ELSE line.usage] IN
    IF line.kind # "chunk" THEN turn
    ELSE IF ~ line.choices THEN counted
    ELSE [counted EXCEPT
            !.finish = IF line.finish = NoReason THEN @ ELSE line.finish,
            !.deltas = IF line.text = NoText THEN @ ELSE Append(@, line.text)]

(* The loop ends with the first of these; its error is not looked at. *)
Ends(line) == line.kind \in {"done", "long"}

(* How many lines the loop looks at. *)
Read(lines) ==
    LET end == SelectInSeq(lines, Ends) IN IF end = 0 THEN Len(lines) ELSE end - 1

(* The loop over the lines: the state after the first k of them. *)
ApplyTurns(lines) ==
    LET turns[k \in 0..Len(lines)] ==
            IF k = 0 THEN [deltas |-> <<>>, finish |-> NoReason, tokens |-> NoUsage]
            ELSE Apply(turns[k - 1], lines[k])
    IN turns

Event(type, value) == [type |-> type, value |-> value]

Events(lines) ==
    LET end == ApplyTurns(lines)[Read(lines)]
    IN <<Event("message_start", 0), Event("content_block_start", 0), Event("ping", 0)>>
       \o [k \in DOMAIN end.deltas |-> Event("content_block_delta", end.deltas[k])]
       \o <<Event("content_block_stop", 0),
            Event("message_delta", <<StopReason(end.finish), end.tokens>>),
            Event("message_stop", 0)>>

------------------------------------------------------------------------------
(* The request, and a reply in one piece. *)

Text(pieces) == [kind |-> "text", text |-> pieces]
Blocks(blocks) == [kind |-> "blocks", blocks |-> blocks]
Block(type, pieces) == [type |-> type, text |-> pieces]

(* anthropicContentStr *)
ContentStr(content) ==
    CASE content.kind = "text" -> content.text
      [] content.kind = "blocks" ->
            FlattenSeq([k \in DOMAIN content.blocks |->
                IF content.blocks[k].type = "text" THEN content.blocks[k].text ELSE <<>>])
      [] OTHER -> <<>>

Message(role, content) == [role |-> role, content |-> content]

(* The messages of the OpenAI request: the system prompt, then the turns. *)
Messages(system, turns) ==
    (IF system = <<>> THEN <<>> ELSE <<Message("system", system)>>)
    \o [k \in DOMAIN turns |-> Message(turns[k].role, ContentStr(turns[k].content))]

(* writeAnthropicResponse *)
Reply(completion) ==
    [content |-> Blocks(<<Block("text", IF completion.choices THEN completion.text ELSE <<>>)>>),
     stop |-> IF completion.choices THEN StopReason(completion.finish) ELSE "end_turn",
     tokens |-> completion.tokens]

------------------------------------------------------------------------------
(* What upstream said, without the loop: the places of the chunks before   *)
(* [DONE], and what they give at some of them.                             *)
Chunks(lines) ==
    {k \in DOMAIN lines : lines[k].kind = "chunk" /\ \A j \in 1..k : lines[j].kind # "done"}

(* The values at these places, in their order. *)
InOrder(places, value) ==
    [n \in 1..Cardinality(places) |->
        value[CHOOSE k \in places : Cardinality({j \in places : j <= k}) = n]]

(* The value at the last of these places, or the value of none. *)
Latest(places, value, none) ==
    IF places = {} THEN none ELSE value[CHOOSE k \in places : \A j \in places : j <= k]

Choosing(lines) == {k \in Chunks(lines) : lines[k].choices}

Said(lines) ==
    InOrder({k \in Choosing(lines) : lines[k].text # NoText}, [k \in DOMAIN lines |-> lines[k].text])

Finish(lines) ==
    Latest({k \in Choosing(lines) : lines[k].finish # NoReason},
           [k \in DOMAIN lines |-> lines[k].finish], NoReason)

Usage(lines) ==
    Latest({k \in Chunks(lines) : lines[k].usage # NoUsage},
           [k \in DOMAIN lines |-> lines[k].usage], NoUsage)

(* What a client puts together of the deltas it gets. *)
Collected(events) ==
    InOrder({k \in DOMAIN events : events[k].type = "content_block_delta"},
            [k \in DOMAIN events |-> events[k].value])

(* What the last event but one tells it. *)
Told(events) == events[Len(events) - 1].value

NoneTooLong(lines) == \A k \in DOMAIN lines : lines[k].kind # "long"

(* Unless a line is too long, the client gets every piece of text, in      *)
(* order and none after [DONE], the reason upstream gave last and the      *)
(* token count upstream gave last, whatever chunks carry them.             *)
SaysTheSame(lines) ==
    NoneTooLong(lines) =>
        /\ Collected(Events(lines)) = Said(lines)
        /\ Told(Events(lines)) = <<StopReason(Finish(lines)), Usage(lines)>>

(* The completion the same chunks would make in one piece. *)
Completion(lines) ==
    [choices |-> Choosing(lines) # {}, text |-> Said(lines),
     finish |-> Finish(lines), tokens |-> Usage(lines)]

(* What a client may send back of a reply: the content it got in one       *)
(* piece, or what it collected, as a text or in blocks, and with others.   *)
Contents(reply, collected) ==
    {reply.content, Text(collected), Blocks(<<Block("thinking", <<"hm">>)>> \o reply.content.blocks),
     Blocks([k \in DOMAIN collected |-> Block("text", <<collected[k]>>)])}

(* A client that has streamed a reply and one that got it in one piece     *)
(* know the same, and when they send it back as the next turn of the       *)
(* conversation, after their own and with whatever other blocks, the       *)
(* server reads there what it has said.                                    *)
WaysAgree(lines) ==
    LET reply == Reply(Completion(lines))
        Sent(content) == Messages(<<"rules">>, <<Message("user", Text(<<"hi">>)),
                                                 Message("assistant", content)>>)
    IN NoneTooLong(lines) =>
         /\ Told(Events(lines)) = <<reply.stop, reply.tokens>>
         /\ \A content \in Contents(reply, Collected(Events(lines))) :
                Sent(content)[3] = Message("assistant", Said(lines))

(* A reply that upstream broke off, by a line that is too long or by its   *)
(* end without [DONE] and without a finish reason, would be told from one  *)
(* that is complete.  It is not: it ends with end_turn, too.               *)
TellsBrokenOff(lines) ==
    (/\ \A k \in DOMAIN lines : lines[k].kind # "done"
     /\ \A k \in Chunks(lines) : lines[k].finish = NoReason)
        => Told(Events(lines))[1] # "end_turn"
==============================================================================
