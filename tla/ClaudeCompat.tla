---------------------------- MODULE ClaudeCompat ----------------------------
(***************************************************************************)
(* What a request of Claude Code is turned into before it is forwarded: a  *)
(* pipeline of small repairs of its parameters and of its conversation,    *)
(* each of which the later ones must not undo.  The client sends its own   *)
(* conversation again with every turn, longer by what was said since, and  *)
(* what was repaired once is repaired anew.                                *)
(***************************************************************************)
EXTENDS Naturals, Sequences, SequencesExt

CONSTANTS
  Bodies,      \* the requests that are tried
  Turns,       \* what a conversation goes on with: the answer, mostly, and what is said to it
  MaxMessages  \* bound: the messages of a conversation that goes on

ThinkingModes == [type : {"none", "disabled", "enabled", "adaptive"}, budget : Nat]
RequestFields == {"messages", "model", "thinking", "effort", "max_tokens", "tool_choice", "tools", "betas",
                  "compact", "says"}

\* What every request has: numbers that are absent or not positive are 0; compact: its system
\* prompt starts with a summary.
IsRequest(body) == DOMAIN body = RequestFields /\ body.thinking \in ThinkingModes /\ body.max_tokens \in Nat

(* A conversation: messages of a role and a sequence of blocks; one whose content is a     *)
(* string is plain.  A text is known by what the pipeline looks for in it, and is of words  *)
(* else; today and tomorrow are texts of nothing but the date.                              *)
Roles    == {"user", "assistant", "system"}
Contents == {"words", "today", "tomorrow", "blank", "loaded", "summary", "continue"}

Text(t)         == [type |-> "text", text |-> t, marked |-> FALSE]
Thinking(valid) == [type |-> "thinking", valid |-> valid]
ToolUse         == [type |-> "tool_use"]
Result(parts, reference) == [type |-> "tool_result", parts |-> parts, reference |-> reference]

Texts    == [type : {"text"}, text : Contents, marked : BOOLEAN]
Results  == [type : {"tool_result"}, parts : Seq(Texts), reference : BOOLEAN]
Blocks   == Texts \cup {Thinking(valid) : valid \in BOOLEAN} \cup {ToolUse} \cup Results
Messages == [role : Roles, plain : BOOLEAN, blocks : Seq(Blocks)]

ASSUME BodiesAssumption == \A b \in Bodies : IsRequest(b) /\ b.messages \in Seq(Messages)
ASSUME TurnsAssumption  == Turns \subseteq Seq(Messages) /\ MaxMessages \in Nat

VARIABLES
  given,      \* the request as it came
  prepared,   \* what it is prepared to
  initiator   \* who Copilot is told has asked

compatVars == <<given, prepared, initiator>>

-----------------------------------------------------------------------------
(* The models, by family. *)

EnabledOnly  == [efforts |-> {}, thinking |-> "enabled-only", system |-> FALSE, strip1m |-> FALSE]
AllThinking  == [efforts |-> {"low", "high"}, thinking |-> "all", system |-> FALSE, strip1m |-> FALSE]
AdaptiveOnly == [efforts |-> {"low", "high", "xhigh"}, thinking |-> "adaptive-only", system |-> FALSE,
                 strip1m |-> FALSE]
MaxThinkingBudget == 32000

Profile(model) ==
  CASE model = "claude-haiku-4.5"  -> [EnabledOnly EXCEPT !.strip1m = TRUE]
    [] model = "claude-opus-4.7"   -> AdaptiveOnly
    [] model = "claude-opus-4.8"   -> [AdaptiveOnly EXCEPT !.system = TRUE]
    [] OTHER                       -> AllThinking

\* normalizeAnthropicModelId: without the date, and with the version in one part.
Canonical(model) ==
  CASE model \in {"claude-haiku-4-5-20251001", "claude-haiku-4-5"} -> "claude-haiku-4.5"
    [] model = "claude-opus-4-8" -> "claude-opus-4.8"
    [] OTHER -> model

NormalizeModel(body) == [body EXCEPT !.model = Canonical(body.model)]

-----------------------------------------------------------------------------
(* The parameters; 0 stands for a number that is absent or not positive. *)

Thinks(body) == body.thinking.type \notin {"none", "disabled"}
NoThinking   == [type |-> "none", budget |-> 0]
Least(a, b)  == IF a < b THEN a ELSE b

ApplyEffortPolicy(body) ==
  IF body.effort \in Profile(body.model).efforts THEN body ELSE [body EXCEPT !.effort = "none"]

ExplicitThinkingBudget(body) ==
  LET max == body.max_tokens  asked == body.thinking.budget
  IN CASE max \in 1..1024 -> 0
       [] asked > 0 -> IF max = 0 THEN asked ELSE Least(asked, max - 1)
       [] OTHER -> IF max = 0 THEN 1024 ELSE Least(4096, max - 1)

ApplyThinkingPolicy(body) ==
  LET policy == Profile(body.model).thinking  budget == ExplicitThinkingBudget(body)
  IN CASE policy = "enabled-only" /\ body.thinking.type = "adaptive" ->
            [body EXCEPT !.thinking =
               IF budget = 0 THEN NoThinking ELSE [type |-> "enabled", budget |-> budget]]
       [] policy = "adaptive-only" /\ body.thinking.type = "enabled" ->
            [body EXCEPT !.thinking = [type |-> "adaptive", budget |-> 0]]
       [] OTHER -> body

CapThinkingBudget(body) ==
  LET max == body.max_tokens
      cap == IF max = 0 THEN MaxThinkingBudget ELSE Least(MaxThinkingBudget, max - 1)
  IN CASE body.thinking.type # "enabled" \/ body.thinking.budget = 0 -> body
       [] max = 1 -> [body EXCEPT !.thinking = NoThinking, !.effort = "none"]
       [] OTHER   -> [body EXCEPT !.thinking.budget = Least(@, cap)]

DisableForcedToolChoice(body) ==
  IF Thinks(body) /\ body.tool_choice \in {"any", "tool"}
  THEN [body EXCEPT !.tool_choice = "auto"] ELSE body

ApplyModelProfile(body) ==
  DisableForcedToolChoice(CapThinkingBudget(ApplyEffortPolicy(ApplyThinkingPolicy(ApplyEffortPolicy(body)))))

SanitizeTools(body) == [body EXCEPT !.tools = @ \ {"ide execute"}]

-----------------------------------------------------------------------------
(* The conversation. *)

IsText(block)   == block.type = "text"
IsResult(block) == block.type = "tool_result"

\* The elements of s that are Kept, in their order: SelectSeq, which has no definition to
\* reason from.
Select(s, Kept(_)) == FlattenSeq([i \in DOMAIN s |-> IF Kept(s[i]) THEN <<s[i]>> ELSE <<>>])

OnMessages(body, Op(_)) == [body EXCEPT !.messages = [i \in DOMAIN @ |-> Op(@[i])]]
OnBlocks(message, Op(_)) == [message EXCEPT !.blocks = [i \in DOMAIN @ |-> Op(@[i])]]

StripText(text) == IF text.text \in {"today", "tomorrow"} THEN [text EXCEPT !.text = "blank"] ELSE text

\* The date is taken out of every text, those of a tool's result as well.
StripCurrentDateBlock(block) ==
  IF IsText(block) THEN StripText(block)
  ELSE IF IsResult(block) THEN [block EXCEPT !.parts = [i \in DOMAIN @ |-> StripText(@[i])]]
  ELSE block

StripDate(message) == IF message.plain THEN message ELSE OnBlocks(message, StripCurrentDateBlock)

StripVolatileCurrentDate(body) == OnMessages(body, StripDate)

FilterInvalidThinking(message) ==
  IF message.role = "assistant" /\ ~message.plain
  THEN [message EXCEPT !.blocks = Select(@, LAMBDA b : b.type # "thinking" \/ b.valid)] ELSE message

FilterInvalidAssistantThinkingBlocks(body) == OnMessages(body, FilterInvalidThinking)

\* Mutant: the texts are taken out of the message whether or not the result can have them.
MutantMergeToolResult(message) ==
  LET texts  == Select(message.blocks, LAMBDA b : IsText(b) /\ b.text # "blank")
      others == Select(message.blocks, LAMBDA b : ~IsText(b))
      target == SelectLastInSeq(others, IsResult)
  IN IF message.role # "user" \/ message.plain \/ target = 0 \/ texts = <<>> THEN message
     ELSE IF others[target].reference THEN [message EXCEPT !.blocks = others]
     ELSE [message EXCEPT !.blocks = [others EXCEPT ![target].parts = @ \o texts]]

\* The texts next to a tool result go into the last one, unless that holds a reference.
MergeToolResult(message) ==
  LET texts  == Select(message.blocks, LAMBDA b : IsText(b) /\ b.text # "blank")
      others == Select(message.blocks, LAMBDA b : ~IsText(b))
      target == SelectLastInSeq(others, IsResult)
  IN IF message.role # "user" \/ message.plain \/ target = 0 \/ texts = <<>> THEN message
     ELSE IF others[target].reference THEN message
     ELSE [message EXCEPT !.blocks = [others EXCEPT ![target].parts = @ \o texts]]

MergeToolResultTextBlocks(body) == OnMessages(body, MergeToolResult)

StripBoundary(message) ==
  IF message.plain THEN message
  ELSE [message EXCEPT !.blocks = Select(@, LAMBDA b : ~(IsText(b) /\ b.text = "loaded" /\ ~b.marked))]

\* A message of which nothing is left is dropped.
StripToolReferenceTurnBoundary(body) ==
  [body EXCEPT !.messages = Select([i \in DOMAIN @ |-> StripBoundary(@[i])], LAMBDA m : m.plain \/ m.blocks # <<>>)]

Prefixed(message) ==
  LET at == SelectInSeq(message.blocks, IsText)
  IN [message EXCEPT !.role = "user",
        !.blocks = IF at = 0 THEN <<[Text("blank") EXCEPT !.marked = TRUE]>> \o @
                   ELSE [@ EXCEPT ![at].marked = TRUE]]

\* Mutant: a system message may stand at the end, whatever will follow.
MutantLegalSystemPlacement(messages, i, previous) == previous = "user" /\ i = Len(messages)

\* previous: the role of the message before it, as it has been rewritten by then.
LegalSystemPlacement(messages, i, previous) ==
  previous = "user" /\ (i = Len(messages) \/ messages[i + 1].role = "assistant")

StaysSystem(body, i, previous) == Profile(body.model).system /\ LegalSystemPlacement(body.messages, i, previous)

RewriteMidConversationSystem(body) ==
  LET messages == body.messages
      role[i \in 0..Len(messages)] ==
        IF i = 0 THEN "none"
        ELSE IF messages[i].role = "system" /\ ~StaysSystem(body, i, role[i - 1]) THEN "user"
        ELSE messages[i].role
  IN [body EXCEPT !.messages =
        [i \in DOMAIN messages |-> IF role[i] = messages[i].role THEN messages[i] ELSE Prefixed(messages[i])]]

Continue == [role |-> "user", plain |-> FALSE, blocks |-> <<Text("continue")>>]

FixTrailingAssistant(body) ==
  IF body.messages # <<>> /\ Last(body.messages).role = "assistant"
  THEN [body EXCEPT !.messages = Append(@, Continue)] ELSE body

\* Mutant: the last message is looked at before the empty ones are dropped.
MutantPreprocess(body) ==
  RewriteMidConversationSystem(StripToolReferenceTurnBoundary(FixTrailingAssistant(
    MergeToolResultTextBlocks(SanitizeTools(FilterInvalidAssistantThinkingBlocks(
      ApplyModelProfile(StripVolatileCurrentDate(NormalizeModel(body)))))))))

\* preprocessClaudeCodeMessagesBody
Preprocess(body) ==
  FixTrailingAssistant(RewriteMidConversationSystem(StripToolReferenceTurnBoundary(
    MergeToolResultTextBlocks(SanitizeTools(FilterInvalidAssistantThinkingBlocks(
      ApplyModelProfile(StripVolatileCurrentDate(NormalizeModel(body)))))))))

-----------------------------------------------------------------------------
(* The headers. *)

\* anthropicBetaHeader: what the client sent and the body needs, of what is allowed.
Betas(body, counting) ==
  LET profile == Profile(body.model)
      added == (IF profile.thinking = "enabled-only" /\ body.thinking.type # "none"
                THEN {"interleaved-thinking"} ELSE {})
               \cup (IF "deferred" \in body.tools THEN {"advanced-tool-use"} ELSE {})
               \cup (IF counting THEN {"token-counting"} ELSE {})
      allowed == {"interleaved-thinking", "context-management", "advanced-tool-use",
                  "token-counting", "context-1m"}
  IN ((body.betas \cup added) \cap allowed) \ (IF profile.strip1m THEN {"context-1m"} ELSE {})

Unsupported(body) == "web search" \in body.tools

CollectText(message) ==
  FlattenSeq([i \in DOMAIN message.blocks |->
    LET block == message.blocks[i]
    IN IF IsText(block) THEN <<block>> ELSE IF IsResult(block) THEN block.parts ELSE <<>>])

Wording(message) == Select(CollectText(message), LAMBDA b : b.text # "blank" \/ b.marked)

LastOf(messages, role) == SelectLastInSeq(messages, LAMBDA m : m.role = role)

\* inferMessagesIntent: a summary, a tool's result or an automatic continuation is the agent's.
InferMessagesIntent(body) ==
  LET messages == body.messages
      user     == LastOf(messages, "user")
  IN IF \/ body.compact
        \/ user # 0 /\ Wording(messages[user]) # <<>> /\ Wording(messages[user])[1] = Text("summary")
        \/ messages # <<>> /\ ( SelectInSeq(Last(messages).blocks, IsResult) # 0
                                \/ Wording(Last(messages)) = <<Text("continue")>> )
     THEN "agent" ELSE "user"

\* resolveRequestIntent: a client that says who has asked is believed.
ResolveRequestIntent(body) ==
  IF body.says # "none" THEN body.says ELSE InferMessagesIntent(body)

-----------------------------------------------------------------------------

CompatInit == given \in Bodies /\ prepared = given /\ initiator = "none"

Done == initiator # "none"

\* prepareClaudeCodeMessagesRequest
Prepare ==
  /\ ~Done
  /\ prepared' = Preprocess(given)
  /\ initiator' = ResolveRequestIntent(prepared')
  /\ UNCHANGED given

\* The client writes the date anew into the texts that are nothing else.
Redate(block) == IF block.type = "text" /\ block.text = "today" THEN [block EXCEPT !.text = "tomorrow"] ELSE block
Redated(message) == IF message.plain THEN message ELSE OnBlocks(message, Redate)

\* The client, which keeps the conversation and does not see what it is prepared to, sends all
\* of it again and the turn after it; it may be another day.
NextTurn(turn) ==
  /\ Done /\ Len(given.messages) + Len(turn) <= MaxMessages
  /\ \E before \in {given.messages, OnMessages(given, Redated).messages} :
       given' = [given EXCEPT !.messages = before \o turn]
  /\ prepared' = Preprocess(given')
  /\ initiator' = ResolveRequestIntent(prepared')

CompatNext == Prepare \/ \E turn \in Turns : NextTurn(turn)
CompatSpec == CompatInit /\ [][CompatNext]_compatVars

-----------------------------------------------------------------------------
(* Properties. *)

\* Whatever the order of the steps does to one another, what is sent satisfies all that
\* they are for at once: a kind of thinking the model has, a budget below the tokens there
\* are, no forced tool while it thinks, an effort the model takes.
ParametersAccepted == Done =>
  LET profile == Profile(prepared.model)  thinking == prepared.thinking
  IN /\ profile.thinking = "enabled-only" => thinking.type # "adaptive"
     /\ profile.thinking = "adaptive-only" => thinking.type # "enabled"
     /\ thinking.type = "enabled" /\ thinking.budget > 0 =>
          /\ thinking.budget <= MaxThinkingBudget
          /\ prepared.max_tokens > 0 => thinking.budget < prepared.max_tokens
     /\ Thinks(prepared) => prepared.tool_choice \notin {"any", "tool"}
     /\ prepared.effort \in profile.efforts \cup {"none"}
     /\ \A counting \in BOOLEAN :
          /\ profile.strip1m => "context-1m" \notin Betas(prepared, counting)
          /\ Thinks(prepared) /\ thinking.type = "enabled" /\ profile.thinking = "enabled-only" =>
               "interleaved-thinking" \in Betas(prepared, counting)

\* The conversation that is sent is one the API takes, though messages are dropped and
\* rewritten on the way: it does not end with the assistant, no message is empty, and a
\* system message stands where one may stand.
ConversationAccepted == Done =>
  LET messages == prepared.messages
  IN /\ messages # <<>> => Last(messages).role # "assistant"
     /\ \A i \in DOMAIN messages :
          /\ messages[i].plain \/ messages[i].blocks # <<>>
          /\ messages[i].role = "system" =>
               /\ Profile(prepared.model).system
               /\ i > 1 /\ messages[i - 1].role = "user"
               /\ i = Len(messages) \/ messages[i + 1].role = "assistant"

Said(body) ==
  FlattenSeq([i \in DOMAIN body.messages |->
    Select(CollectText(body.messages[i]), LAMBDA b : b.text \in {"words", "summary"})])
Made(body) ==
  FlattenSeq([i \in DOMAIN body.messages |->
    Select(body.messages[i].blocks, LAMBDA b : IsResult(b) \/ b = ToolUse \/ b = Thinking(TRUE))])

\* The turn that the proxy adds is not counted as one of the user's.
ContinuationIsTheAgents ==
  Done /\ given.says = "none" /\ prepared.messages # <<>> /\ Last(prepared.messages) = Continue
    => initiator = "agent"

\* What is sent is right in all of these ways at once.
RequestIsSound == ParametersAccepted /\ ConversationAccepted /\ ContinuationIsTheAgents

\* Whatever is merged, dropped or rewritten, nothing that was said is lost, and every use of
\* a tool and every result is still there, in its order.
NothingSaidIsLost == Done =>
  /\ Len(Said(prepared)) = Len(Said(given))
  /\ [i \in DOMAIN Made(prepared) |-> Made(prepared)[i].type]
       = [i \in DOMAIN Made(given) |-> Made(given)[i].type]

\* What is sent of a conversation without the turn that the proxy adds to it; and of that what
\* a next request must have again: not a system message at its end when another follows than
\* the assistant's, for it may not stand before that.
SentOf(messages) == IF messages # <<>> /\ Last(messages) = Continue THEN Front(messages) ELSE messages
Retained(sent, next) ==
  IF /\ sent # <<>> /\ Last(sent).role = "system"
     /\ Len(next) > Len(sent) /\ next[Len(sent) + 1].role # "assistant"
  THEN Front(sent) ELSE sent

\* The cache of the upstream knows a conversation by what was sent before it.  However a turn
\* goes on, and though every message is cleaned, merged, dropped or rewritten anew and some
\* of that depends on the message after it, what was sent is sent again at the next turn.
PrefixKept ==
  [][Done => IsPrefix(Retained(SentOf(prepared.messages), prepared'.messages), prepared'.messages)]_compatVars
=============================================================================
