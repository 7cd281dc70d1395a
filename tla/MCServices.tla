----------------------------- MODULE MCServices ------------------------------
(* Small instances for TLC of what goes on in the services: the queue of logins and a crash *)
(* of it, one run of the device flow, the initialization of an identity, and what a request *)
(* and its answer go through.  They share nothing here, so that a behaviour is of one of    *)
(* them, which part names; the others rest in an initial state.                             *)
EXTENDS LoginQueue, IdentityLease, DeviceLogin, ClaudeCompat, ResponseStream, TLC

VARIABLE part

servicesVars == <<part, vars, leaseVars, deviceVars, compatVars, streamVars>>

OneAtATime == {1}

-----------------------------------------------------------------------------
(* Requests of Claude Code: three messages of each kind at most, with few parameters; and   *)
(* one message with any.                                                                    *)

User(blocks)      == [role |-> "user", plain |-> FALSE, blocks |-> blocks]
Assistant(blocks) == [role |-> "assistant", plain |-> FALSE, blocks |-> blocks]
Words             == Text("words")

MessagesTried ==
  { User(<<Words>>), User(<<Text("loaded")>>), User(<<Result(<<>>, FALSE)>>),
    User(<<Words, Result(<<>>, FALSE), Text("today")>>),
    User(<<Result(<<>>, FALSE), Result(<<Words>>, TRUE), Text("summary"), Text("loaded")>>),
    User(<<Text("today"), Text("summary")>>), [User(<<Words>>) EXCEPT !.plain = TRUE],
    Assistant(<<Words>>), Assistant(<<Thinking(FALSE)>>), Assistant(<<Thinking(TRUE), ToolUse>>),
    [role |-> "system", plain |-> TRUE, blocks |-> <<Words>>],
    [role |-> "system", plain |-> FALSE, blocks |-> <<Text("loaded"), Words>>] }

Plain == [model |-> "claude-opus-4-8", thinking |-> NoThinking, effort |-> "none", max_tokens |-> 0,
          tool_choice |-> "none", tools |-> {}, betas |-> {}, compact |-> FALSE, says |-> "none"]

\* What a conversation goes on with: an answer and what is said to it, an answer of which
\* nothing is left, or words without an answer to those before.
TurnsTried ==
  { <<Assistant(<<Words>>), User(<<Text("today"), Words>>)>>,
    <<Assistant(<<Thinking(TRUE), ToolUse>>), User(<<Result(<<Text("tomorrow")>>, FALSE), Words>>)>>,
    <<Assistant(<<Thinking(FALSE)>>), User(<<Words>>)>>,
    <<User(<<Text("loaded")>>), [role |-> "system", plain |-> TRUE, blocks |-> <<Words>>]>> }

Conversations ==
  {[messages |-> c] @@ [Plain EXCEPT !.model = m] :
     c \in BoundedSeq(MessagesTried, 3), m \in {"claude-opus-4-8", "claude-opus-4.7"}}

Parameters ==
  [messages : {<<User(<<Words>>)>>},
   model : {"claude-haiku-4-5-20251001", "claude-opus-4.7", "claude-opus-4-8", "claude-sonnet-4"},
   thinking : [type : {"disabled", "enabled", "adaptive"}, budget : {0, 500, 40000}] \cup {NoThinking},
   effort : {"none", "low", "xhigh"}, max_tokens : {0, 1, 500, 2000}, tool_choice : {"none", "any"},
   tools : {{}, {"ide execute", "deferred"}}, betas : {{"context-1m", "other"}}, compact : {FALSE},
   says : {"user"}]

Summaries == {[messages |-> <<m>>] @@ [Plain EXCEPT !.compact = TRUE] : m \in MessagesTried}

BodiesTried == Conversations \cup Parameters \cup Summaries

-----------------------------------------------------------------------------
(* Answers: up to three events in any order, or one that its end is missing of, or that     *)
(* has empty lines before it; and every kind of answer with a short body or none.           *)

Event(c)    == <<c, c, "n", "n">>
AllEvents   == {FlattenSeq([i \in DOMAIN s |-> Event(s[i])]) : s \in BoundedSeq({"t", "s", "e", "D"}, 3)}
Cut(c)      == Event("s") \o c
Unfinished  == {Cut(<<"e", "e">>), Cut(<<"D", "D">>), Cut(<<"t">>)}
Spaced      == {Cut(<<"n">>) \o Event("D"), Cut(<<"n", "n", "n">>) \o Event("e"), Cut(<<"n", "n">>)}

AnswersTried ==
  [ok : {TRUE}, status : {"fine"}, kind : {"events"}, body : AllEvents \cup Unfinished \cup Spaced]
    \cup {[ok |-> how = "fine", status |-> how, kind |-> kind, body |-> body] :
            how \in {"fine", "not-found", "failed"}, kind \in Kinds, body \in {<<>>, <<"s", "s">>}}

-----------------------------------------------------------------------------

\* The state in which a part rests that is not the one the behaviour is of.
RestingCompat == given = CHOOSE b \in Bodies : TRUE
RestingStream ==
  /\ call = [shape |-> "fine", optimized |-> FALSE, counting |-> FALSE]
  /\ answer = CHOOSE a \in Answers : TRUE

ServicesInit ==
  /\ part \in {"login", "lease", "device", "compat", "stream"}
  /\ Init
  /\ LeaseInit /\ (part # "lease" => driver = "sqlite")
  /\ DeviceInit /\ (part # "device" => site = "orderly" /\ provider = "custom" /\ ~debug)
  /\ part # "compat" => RestingCompat
  /\ CompatInit
  /\ part # "stream" => RestingStream
  /\ StreamInit

ServicesNext ==
  /\ UNCHANGED part
  /\ \/ part = "login" /\ Next /\ UNCHANGED <<leaseVars, deviceVars, compatVars, streamVars>>
     \/ part = "lease" /\ LeaseNext /\ UNCHANGED <<vars, deviceVars, compatVars, streamVars>>
     \/ part = "device" /\ DeviceNext /\ UNCHANGED <<vars, leaseVars, compatVars, streamVars>>
     \/ part = "compat" /\ CompatNext /\ UNCHANGED <<vars, leaseVars, deviceVars, streamVars>>
     \/ part = "stream" /\ StreamNext /\ UNCHANGED <<vars, leaseVars, deviceVars, compatVars>>

\* The fairness of each part, while the behaviour is of it.
Of(name, Action) == part = name /\ Action
ServicesFairness ==
  /\ WF_vars(Of("login", Drain)) /\ \A j \in 1..MaxJobs : WF_vars(Of("login", JobStep(j)))
  /\ WF_leaseVars(Of("lease", LeaseTick)) /\ WF_leaseVars(Of("lease", AnyArrives))
  /\ \A r \in Requests : WF_leaseVars(Of("lease", Advance(r)))
  /\ WF_deviceVars(Of("device", Browse \/ Ask))

ServicesSpec == ServicesInit /\ [][ServicesNext]_servicesVars /\ ServicesFairness

\* The state of each of the parts is of its type, whatever crashes or is retried; and no task
\* and no slot of the queue is lost by a crash of the login service.
StateIsSound ==
  /\ TypeOK /\ LeaseTypeOK /\ DeviceTypeOK
  /\ NothingStranded /\ SlotsAreHeld

\* EventuallyInitialized and LoginEnds, of the behaviours that are of these parts.
IdentityIsInitialized == []<>(part = "lease" => Initialized)
EveryLoginEnds        == []<>(part = "device" => Ended)
=============================================================================
