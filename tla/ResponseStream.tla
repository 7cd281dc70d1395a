--------------------------- MODULE ResponseStream ---------------------------
(***************************************************************************)
(* The way of one request through the compatible routes, and of the answer *)
(* back: it is read in pieces that end anywhere, may break off, and is     *)
(* passed on while the events in it are still being put together to find   *)
(* the usage and the [DONE] that is kept from Claude Code.                 *)
(***************************************************************************)
EXTENDS Integers, Sequences, SequencesExt

CONSTANT Answers  \* the answers of the upstream that are tried: what they hold, symbol by symbol

(* A body is a sequence of symbols: "n" is an end of line, two of them end an event; the   *)
(* others are halves of the lines of an event.                                             *)

Symbols   == {"n", "t", "s", "e", "D"}
Kinds     == {"json", "events", "other"}
UsageKeys == {"input", "output"}

ASSUME AnswersAssumption == \A a \in Answers : a.body \in Seq(Symbols)

VARIABLES
  call,         \* what kind of request it is
  answer,       \* the answer of the upstream
  phase,        \* where the request is
  got,          \* how much of the body was read
  pending,      \* sseBuffer: of what was read, what is not yet an event
  usage,        \* as collected
  client,       \* what was written of the body
  reply,        \* whose status and headers went out
  stats,        \* the statistics that were recorded
  diagnostics   \* how many diagnostics were recorded, of the models list and of the request itself

streamVars == <<call, answer, phase, got, pending, usage, client, reply, stats, diagnostics>>

Absent  == -1  \* undefined; a 0 is a number like another
NoUsage == [k \in UsageKeys |-> Absent]

\* collectSseEventUsage: the first event of a message holds the input, and an output that
\* the last one corrects, be it to 0; anything that is not JSON holds nothing.
UsageIn(event) ==
  CASE event = <<"s", "s">> -> [input |-> 3, output |-> 1]
    [] event = <<"e", "e">> -> [input |-> Absent, output |-> 0]
    [] OTHER -> NoUsage

\* Mutant: what the later event does not hold is forgotten.
MutantMergeUsage(target, source) == IF source = NoUsage THEN target ELSE source

MergeUsage(target, source) == [k \in UsageKeys |-> IF source[k] # Absent THEN source[k] ELSE target[k]]

IsCopilotDone(event) == event = <<"D", "D">>

Optimized == call.optimized
Filters   == Optimized /\ answer.kind = "events"
Buffers   == answer.kind = "json" \/ (~answer.ok /\ (answer.kind = "events" \/ Optimized))

-----------------------------------------------------------------------------
(* The events in what was read. *)

\* An empty line ends an event.
EndsEvent(text) == Len(text) > 1 /\ text[Len(text)] = "n" /\ text[Len(text) - 1] = "n"

Unread == [events |-> <<>>, rest |-> <<>>]

Grown(split, symbol) ==
  LET event == Append(split.rest, symbol)
  IN IF EndsEvent(event) THEN [events |-> Append(split.events, event), rest |-> <<>>]
     ELSE [events |-> split.events, rest |-> event]

\* The events of a buffer that are complete, one after the other, and what is left of it.
Split(buffer) ==
  LET upTo[i \in 0..Len(buffer)] == IF i = 0 THEN Unread ELSE Grown(upTo[i - 1], buffer[i])
  IN upTo[Len(buffer)]

\* What an event holds, without the ends of line around it.
Content(event) ==
  LET held == {i \in DOMAIN event : event[i] # "n"}
  IN IF held = {} THEN <<>> ELSE SubSeq(event, Min(held), Max(held))

Collected(events, before) ==
  LET upTo[i \in 0..Len(events)] ==
        IF i = 0 THEN before ELSE MergeUsage(upTo[i - 1], UsageIn(Content(events[i])))
  IN upTo[Len(events)]

\* Mutant: an event is compared with the end it has.
MutantForwarded(events) ==
  FlattenSeq([i \in DOMAIN events |-> IF IsCopilotDone(events[i]) THEN <<>> ELSE events[i]])

Forwarded(events) ==
  FlattenSeq([i \in DOMAIN events |-> IF IsCopilotDone(Content(events[i])) THEN <<>> ELSE events[i]])

-----------------------------------------------------------------------------
(* The call. *)

StreamInit ==
  /\ call \in [shape : {"not-an-object", "no-model", "unsupported-tool", "fine"},
                  optimized : BOOLEAN, counting : BOOLEAN]
  /\ call.counting => call.optimized
  /\ call.shape = "unsupported-tool" => call.optimized
  /\ answer \in Answers
  /\ phase = "begin" /\ got = 0 /\ pending = <<>> /\ usage = NoUsage /\ client = <<>>
  /\ reply = "none" /\ stats = <<>> /\ diagnostics = [models |-> 0, forward |-> 0]

Proceeds(to)         == phase' = to
Replies(whose)   == reply' = whose
Counts(success, counted) == stats' = Append(stats, [success |-> success, usage |-> counted])
Diagnoses(request)       == diagnostics' = [diagnostics EXCEPT ![request] = @ + 1]
input  == <<call, answer>>
reader == <<got, pending, usage, client>>

RefuseBody ==
  /\ phase = "begin" /\ call.shape = "not-an-object"
  /\ Replies("proxy") /\ Proceeds("over") /\ UNCHANGED <<input, reader, stats, diagnostics>>

\* An error is recorded and told by the catch of the handler.
Thrown ==
  /\ Counts(FALSE, NoUsage) /\ Replies("proxy") /\ Proceeds("over")
  /\ UNCHANGED <<input, reader>>

RequireModel   == phase = "begin" /\ call.shape = "no-model" /\ Thrown /\ UNCHANGED diagnostics
PreflightError == phase = "begin" /\ call.shape = "unsupported-tool" /\ Thrown /\ UNCHANGED diagnostics

Authenticate ==
  /\ phase = "begin" /\ call.shape = "fine" /\ UNCHANGED diagnostics
  /\ \/ Thrown
     \/ Proceeds("models") /\ UNCHANGED <<input, reader, reply, stats>>

\* A look at the models list.  A refresh of it that fails is diagnosed, unless it was begun
\* by another request, which this one joined, or what came was not a list.
Looks == UNCHANGED diagnostics \/ Diagnoses("models")

\* assertModelSupportsPath: the model is in the list, which may be an old one whose refresh
\* failed; but the second look falls back on none.
ModelListed ==
  /\ phase \in {"models", "recheck"} /\ Proceeds("fetch")
  /\ IF phase = "models" THEN Looks ELSE UNCHANGED diagnostics
  /\ UNCHANGED <<input, reader, reply, stats>>

\* It is not in one that was not fetched just now.
RecheckModels ==
  /\ phase = "models" /\ Looks /\ Proceeds("recheck")
  /\ UNCHANGED <<input, reader, reply, stats>>

\* There is no list, or the model is not in it.
ModelRefused == phase \in {"models", "recheck"} /\ Looks /\ Thrown

FetchFails == phase = "fetch" /\ Thrown /\ Diagnoses("forward")

\* isTokenCountFallbackStatus: the tokens are estimated, and its body only diagnosed.
Estimates == call.counting /\ answer.status = "not-found"

\* pipeAndRecord sets status and headers; they go out with the first write.
Answered ==
  /\ phase = "fetch" /\ Proceeds(IF Estimates THEN "estimate" ELSE "pipe")
  /\ UNCHANGED <<input, reader, reply, stats, diagnostics>>

EstimateTokens ==
  /\ phase = "estimate"
  /\ Diagnoses("forward")
  /\ Counts(TRUE, [NoUsage EXCEPT !.input = 1]) /\ Replies("proxy") /\ Proceeds("over")
  /\ UNCHANGED <<input, reader>>

\* recordHttpFailure, of an answer that is an error.
DiagnosesFailure == IF answer.ok THEN UNCHANGED diagnostics ELSE Diagnoses("forward")

NoBody ==
  /\ phase = "pipe" /\ answer.body = <<>>
  /\ DiagnosesFailure
  /\ Counts(answer.ok, NoUsage) /\ Replies("upstream") /\ Proceeds("over")
  /\ UNCHANGED <<input, reader>>

\* A body of JSON is read whole; its usage is looked for wherever it is.
ReadBuffered ==
  /\ phase = "pipe" /\ answer.body # <<>> /\ Buffers
  /\ DiagnosesFailure
  /\ got' = Len(answer.body) /\ client' = answer.body
  /\ usage' = IF answer.kind = "json" THEN UsageIn(answer.body) ELSE NoUsage
  /\ Counts(answer.ok, usage') /\ Replies("upstream") /\ Proceeds("over")
  /\ UNCHANGED <<input, pending>>

\* forwardSseEvents where [DONE] is filtered; else the piece is written as it is, and
\* collectSseUsage looks for the events in it.
PassOn(buffer) ==
  LET split == Split(buffer)
  IN /\ pending' = split.rest
     /\ usage' = Collected(split.events, usage)
     /\ client' = client \o (IF Filters THEN Forwarded(split.events)
                             ELSE SubSeq(buffer, Len(pending) + 1, Len(buffer)))

Streams == phase = "pipe" /\ answer.body # <<>> /\ ~Buffers

ReadPiece(n) ==
  /\ Streams /\ got + n <= Len(answer.body) /\ n > 0
  /\ got' = got + n
  /\ PassOn(pending \o SubSeq(answer.body, got + 1, got + n))
  /\ reply' = IF client' = <<>> THEN reply ELSE "upstream"
  /\ UNCHANGED <<input, phase, stats, diagnostics>>

\* flushSseRemainder, and collectSseEventUsage where nothing is filtered.
Remainder ==
  [written |-> IF Filters /\ ~IsCopilotDone(Content(pending)) THEN pending ELSE <<>>,
   counted |-> MergeUsage(usage, UsageIn(Content(pending)))]

EndOfStream ==
  /\ Streams /\ got = Len(answer.body)
  /\ client' = client \o Remainder.written /\ usage' = Remainder.counted
  /\ DiagnosesFailure
  /\ Counts(answer.ok, usage') /\ Replies("upstream") /\ Proceeds("over")
  /\ UNCHANGED <<input, got, pending>>

\* Mutant: a stream that breaks is recorded by the handler that catches it, too.
MutantCaught == Counts(FALSE, NoUsage)

\* HandledUpstreamStreamError: what failed was recorded where it failed.
Caught == UNCHANGED stats

\* handleStreamReadFailure records it, and the catch of the handler ends the reply, or
\* answers if nothing went out.
ReadFails ==
  /\ phase = "pipe" /\ answer.body # <<>>
  /\ Diagnoses("forward")
  /\ Counts(FALSE, NoUsage) /\ Proceeds("caught")
  /\ UNCHANGED <<input, reader, reply>>

Catch ==
  /\ phase = "caught" /\ Caught
  /\ reply' = IF reply = "none" THEN "proxy" ELSE reply
  /\ Proceeds("broken") /\ UNCHANGED <<input, reader, diagnostics>>

StreamNext ==
  \/ RefuseBody \/ RequireModel \/ PreflightError \/ Authenticate \/ ModelListed \/ RecheckModels
  \/ ModelRefused \/ FetchFails \/ Answered \/ EstimateTokens
  \/ NoBody \/ ReadBuffered \/ EndOfStream \/ ReadFails \/ Catch
  \/ \E n \in 1..Len(answer.body) : ReadPiece(n)

StreamSpec == StreamInit /\ [][StreamNext]_streamVars

-----------------------------------------------------------------------------
(* Properties. *)

Whole == phase = "over" /\ reply = "upstream" /\ Len(stats) = 1 /\ got = Len(answer.body)

\* All that a body consists of.
Every(body) == Append(Split(body).events, Split(body).rest)

Wanted(body) ==
  IF Filters /\ ~Buffers
  THEN FlattenSeq([i \in DOMAIN Every(body) |->
         IF IsCopilotDone(Content(Every(body)[i])) THEN <<>> ELSE Every(body)[i]])
  ELSE body

\* Wherever the pieces end, the client gets what the upstream sent, in its order, without
\* the [DONE] where that is kept from it; and while it is sent, a beginning of it.
DeliveredExactly ==
  /\ IsPrefix(client, Wanted(answer.body))
  /\ Whole /\ stats[1].success => client = Wanted(answer.body)

\* Wherever the pieces end, the usage that is recorded is that of the whole answer.
UsageIsWhole ==
  Whole /\ ~Buffers /\ answer.body # <<>> =>
    LET every == Every(answer.body)
        last(k) == SelectLastInSeq(every, LAMBDA e : UsageIn(Content(e))[k] # Absent)
    IN \A k \in UsageKeys :
         stats[1].usage[k] = IF last(k) = 0 THEN Absent ELSE UsageIn(Content(every[last(k)]))[k]

\* However a request ends, it is counted once, as a success only if its answer was one and
\* went out whole; its failure upstream is diagnosed exactly once, also after failures of the
\* models list have been, of which a request that is forwarded has one at most.
CountedOnce ==
  phase \in {"over", "broken"} /\ call.shape # "not-an-object" =>
    LET success == stats[1].success
    IN /\ Len(stats) = 1
       /\ success => Estimates \/ (answer.ok /\ got = Len(answer.body))
       /\ success => diagnostics.forward = (IF Estimates THEN 1 ELSE 0)
       /\ reply = "upstream" /\ ~success => diagnostics.forward = 1
       /\ diagnostics.forward <= 1 /\ diagnostics.models <= 2
       /\ diagnostics.models = 2 => diagnostics.forward = 0 /\ reply = "proxy" /\ ~success
=============================================================================
