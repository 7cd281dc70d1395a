--------------------------- MODULE Requests_proofs ---------------------------
(***************************************************************************)
(* Proofs about what a request of Claude Code goes through, for every      *)
(* answer the upstream may give and wherever it ends or breaks off.        *)
(***************************************************************************)
EXTENDS ResponseStream, ClaudeCompat, SequenceTheorems, WellFoundedInduction, TLAPS

-----------------------------------------------------------------------------
(***************************************************************************)
(* A request is counted where it ends, and nowhere on the way: until then  *)
(* nothing was recorded, so that each end, which records what it knows,    *)
(* records it once.  A stream that broke is recorded before its error is   *)
(* thrown on to the handler.                                               *)
(***************************************************************************)
UnderWay == {"begin", "models", "recheck", "fetch", "estimate", "pipe"}

CountInv ==
  /\ phase \in UnderWay \cup {"caught", "broken", "over"}
  /\ diagnostics \in [models : Nat, forward : Nat]
  /\ phase \in UnderWay \cup {"caught"} => diagnostics.models <= 1
  /\ phase \in {"begin", "models"} => diagnostics.models = 0
  /\ phase \in UnderWay => stats = <<>> /\ diagnostics.forward = 0
  /\ phase = "estimate" => Estimates
  /\ phase = "pipe" => ~Estimates
  /\ phase = "caught" => Len(stats) = 1 /\ ~stats[1].success /\ diagnostics.forward = 1
  /\ answer.body = <<>> => got = 0
  /\ CountedOnce

\* What is appended to nothing is all there is.
LEMMA FirstCount == ASSUME NEW r PROVE Len(Append(<<>>, r)) = 1 /\ Append(<<>>, r)[1] = r
OBVIOUS

LEMMA CountedFirst == ASSUME NEW success, NEW counted, stats = <<>>, Counts(success, counted)
  PROVE Len(stats') = 1 /\ stats'[1].success = success
<1>. DEFINE r == [success |-> success, usage |-> counted]
<1>1. stats' = Append(<<>>, r)
  BY DEF Counts
<1>2. r.success = success
  OBVIOUS
<1>. HIDE DEF r
<1>. QED BY <1>1, <1>2, FirstCount

LEMMA InputStays == ASSUME UNCHANGED input PROVE Estimates' = Estimates /\ answer' = answer /\ call' = call
BY DEF input, Estimates

\* A diagnosis of the request itself, and what the end of it diagnoses.
LEMMA ForwardDiagnosed ==
  ASSUME diagnostics \in [models : Nat, forward : Nat], Diagnoses("forward")
  PROVE  /\ diagnostics' \in [models : Nat, forward : Nat]
         /\ diagnostics'.models = diagnostics.models /\ diagnostics'.forward = diagnostics.forward + 1
BY DEF Diagnoses

LEMMA FailureDiagnosed ==
  ASSUME diagnostics \in [models : Nat, forward : Nat], diagnostics.forward = 0, DiagnosesFailure
  PROVE  /\ diagnostics' \in [models : Nat, forward : Nat] /\ diagnostics'.models = diagnostics.models
         /\ diagnostics'.forward = IF answer.ok THEN 0 ELSE 1
BY ForwardDiagnosed DEF DiagnosesFailure

LEMMA Looked ==
  ASSUME diagnostics \in [models : Nat, forward : Nat], Looks
  PROVE  /\ diagnostics' \in [models : Nat, forward : Nat] /\ diagnostics'.forward = diagnostics.forward
         /\ diagnostics'.models \in {diagnostics.models, diagnostics.models + 1}
BY DEF Looks, Diagnoses

\* What has to be true of the end of a request.
LEMMA AtItsEnd ==
  ASSUME UNCHANGED input, phase' = "over", answer.body = <<>> => got' = 0,
         NEW success, Len(stats') = 1, stats'[1].success = success,
         success => Estimates \/ (answer.ok /\ got' = Len(answer.body)),
         diagnostics' \in [models : Nat, forward : Nat],
         success => diagnostics'.forward = IF Estimates THEN 1 ELSE 0,
         reply' = "upstream" /\ ~success => diagnostics'.forward = 1,
         diagnostics'.forward <= 1, diagnostics'.models <= 2,
         diagnostics'.models = 2 => diagnostics'.forward = 0 /\ reply' = "proxy" /\ ~success
  PROVE CountInv'
<1>1. Estimates' = Estimates /\ answer' = answer
  BY InputStays
<1>2. CountedOnce'
  BY <1>1, Zenon DEF CountedOnce
<1>. QED BY <1>1, <1>2 DEF CountInv, UnderWay

LEMMA CountStep == ASSUME CountInv, StreamNext PROVE CountInv'
<1>1. diagnostics \in [models : Nat, forward : Nat]
  BY DEF CountInv
<1>2. CASE RefuseBody
  BY <1>2, InputStays DEF RefuseBody, Replies, Proceeds, reader, input, CountInv, CountedOnce, UnderWay
<1>3. ASSUME phase \in UnderWay, Thrown, diagnostics' \in [models : Nat, forward : Nat],
             diagnostics'.forward <= 1, diagnostics'.models <= 2,
             diagnostics'.models = 2 => diagnostics'.forward = 0
      PROVE  CountInv'
  <2>1. Len(stats') = 1 /\ stats'[1].success = FALSE
    BY <1>3, CountedFirst DEF Thrown, CountInv
  <2>2. reply' = "proxy" /\ phase' = "over" /\ got' = got
    BY <1>3 DEF Thrown, Replies, Proceeds, reader
  <2>3. UNCHANGED input /\ (answer.body = <<>> => got' = 0)
    BY <1>3, <2>2 DEF Thrown, CountInv
  <2>. QED BY <1>3, <2>1, <2>2, <2>3, AtItsEnd
<1>4. CASE RequireModel \/ PreflightError
  <2>1. phase = "begin" /\ Thrown /\ UNCHANGED diagnostics
    BY <1>4 DEF RequireModel, PreflightError
  <2>. QED BY <1>1, <1>3, <2>1 DEF UnderWay, CountInv
<1>5. CASE Authenticate
  <2>1. CASE Thrown
    BY <1>1, <1>3, <1>5, <2>1 DEF Authenticate, UnderWay, CountInv
  <2>2. CASE Proceeds("models") /\ UNCHANGED <<input, reader, reply, stats>>
    BY <1>5, <2>2, InputStays DEF Authenticate, Proceeds, reader, CountInv, CountedOnce, UnderWay
  <2>. QED BY <1>5, <2>1, <2>2 DEF Authenticate
<1>14. CASE ModelListed
  <2>1. /\ phase \in {"models", "recheck"} /\ phase' = "fetch" /\ UNCHANGED <<input, got, stats>>
        /\ Looks /\ (phase = "recheck" => UNCHANGED diagnostics)
    <3>1. phase \in {"models", "recheck"} /\ phase' = "fetch" /\ UNCHANGED <<input, got, stats>>
      BY <1>14 DEF ModelListed, Proceeds, reader
    <3>2. Looks /\ (phase = "recheck" => UNCHANGED diagnostics)
      BY <1>14 DEF ModelListed, Looks
    <3>. QED BY <3>1, <3>2
  <2>2. diagnostics' \in [models : Nat, forward : Nat] /\ diagnostics'.forward = 0 /\ diagnostics'.models <= 1
    BY <1>1, <2>1, Looked DEF CountInv, UnderWay
  <2>. QED BY <2>1, <2>2, InputStays DEF CountInv, CountedOnce, UnderWay
<1>15. CASE RecheckModels
  <2>1. phase = "models" /\ phase' = "recheck" /\ UNCHANGED <<input, got, stats>> /\ Looks
    BY <1>15 DEF RecheckModels, Proceeds, reader
  <2>2. diagnostics' \in [models : Nat, forward : Nat] /\ diagnostics'.forward = 0 /\ diagnostics'.models <= 1
    BY <1>1, <2>1, Looked DEF CountInv, UnderWay
  <2>. QED BY <2>1, <2>2, InputStays DEF CountInv, CountedOnce, UnderWay
<1>16. CASE ModelRefused
  <2>1. phase \in {"models", "recheck"} /\ Thrown /\ Looks
    BY <1>16 DEF ModelRefused
  <2>2. diagnostics' \in [models : Nat, forward : Nat] /\ diagnostics'.forward = 0 /\ diagnostics'.models <= 2
    BY <1>1, <2>1, Looked DEF CountInv, UnderWay
  <2>. QED BY <1>3, <2>1, <2>2 DEF UnderWay
<1>17. CASE FetchFails
  <2>1. phase = "fetch" /\ Thrown /\ Diagnoses("forward")
    BY <1>17 DEF FetchFails
  <2>2. diagnostics' \in [models : Nat, forward : Nat] /\ diagnostics'.forward = 1 /\ diagnostics'.models <= 1
    BY <1>1, <2>1, ForwardDiagnosed DEF CountInv, UnderWay
  <2>. QED BY <1>3, <2>1, <2>2 DEF UnderWay
<1>6. CASE Answered
  <2>1. phase = "fetch" /\ phase' = (IF Estimates THEN "estimate" ELSE "pipe") /\ UNCHANGED <<input, got, stats, diagnostics>>
    BY <1>6 DEF Answered, Proceeds, reader
  <2>2. Estimates \in BOOLEAN
    BY DEF Estimates
  <2>. QED BY <2>1, <2>2, InputStays DEF CountInv, CountedOnce, UnderWay
<1>7. CASE EstimateTokens
  <2>1. Len(stats') = 1 /\ stats'[1].success = TRUE
    BY <1>7, CountedFirst DEF EstimateTokens, CountInv, UnderWay
  <2>2. reply' = "proxy" /\ phase' = "over" /\ got' = got /\ Estimates /\ phase = "estimate" /\ Diagnoses("forward")
    BY <1>7 DEF EstimateTokens, Replies, Proceeds, reader, CountInv
  <2>3. diagnostics' \in [models : Nat, forward : Nat] /\ diagnostics'.forward = 1 /\ diagnostics'.models <= 1
    BY <1>1, <2>2, ForwardDiagnosed DEF CountInv, UnderWay
  <2>4. UNCHANGED input /\ (answer.body = <<>> => got' = 0)
    BY <1>7, <2>2 DEF EstimateTokens, CountInv
  <2>. QED BY <2>1, <2>2, <2>3, <2>4, AtItsEnd
<1>18. ASSUME phase = "pipe", DiagnosesFailure, UNCHANGED input, phase' = "over", got' = Len(answer.body),
              Len(stats') = 1, stats'[1].success = answer.ok
       PROVE  CountInv'
  <2>1. ~Estimates /\ diagnostics.forward = 0 /\ diagnostics.models <= 1
    BY <1>18 DEF CountInv, UnderWay
  <2>2. /\ diagnostics' \in [models : Nat, forward : Nat] /\ diagnostics'.models <= 1
        /\ diagnostics'.forward = IF answer.ok THEN 0 ELSE 1
    BY <1>1, <1>18, <2>1, FailureDiagnosed
  <2>. QED BY <1>18, <2>1, <2>2, AtItsEnd
<1>8. CASE NoBody
  <2>1. Len(stats') = 1 /\ stats'[1].success = answer.ok
    BY <1>8, CountedFirst DEF NoBody, CountInv, UnderWay
  <2>2. phase' = "over" /\ got' = Len(answer.body) /\ UNCHANGED input /\ phase = "pipe" /\ DiagnosesFailure
    BY <1>8 DEF NoBody, Proceeds, reader, CountInv
  <2>. QED BY <1>18, <2>1, <2>2
<1>9. CASE ReadBuffered
  <2>1. Len(stats') = 1 /\ stats'[1].success = answer.ok
    BY <1>9, CountedFirst DEF ReadBuffered, CountInv, UnderWay
  <2>2. phase' = "over" /\ got' = Len(answer.body) /\ UNCHANGED input /\ phase = "pipe" /\ DiagnosesFailure
    BY <1>9 DEF ReadBuffered, Proceeds
  <2>. QED BY <1>18, <2>1, <2>2
<1>10. CASE EndOfStream
  <2>1. Len(stats') = 1 /\ stats'[1].success = answer.ok
    BY <1>10, CountedFirst DEF EndOfStream, Streams, CountInv, UnderWay
  <2>2. phase' = "over" /\ got' = Len(answer.body) /\ UNCHANGED input /\ phase = "pipe" /\ DiagnosesFailure
    BY <1>10 DEF EndOfStream, Streams, Proceeds
  <2>. QED BY <1>18, <2>1, <2>2
<1>11. CASE ReadFails
  <2>1. Len(stats') = 1 /\ stats'[1].success = FALSE
    BY <1>11, CountedFirst DEF ReadFails, CountInv, UnderWay
  <2>2. phase' = "caught" /\ got' = got /\ UNCHANGED input /\ phase = "pipe" /\ Diagnoses("forward")
    BY <1>11 DEF ReadFails, Proceeds, reader
  <2>3. diagnostics' \in [models : Nat, forward : Nat] /\ diagnostics'.forward = 1 /\ diagnostics'.models <= 1
    BY <1>1, <2>2, ForwardDiagnosed DEF CountInv, UnderWay
  <2>4. CountedOnce'
    BY <2>2 DEF CountedOnce
  <2>. QED BY <2>1, <2>2, <2>3, <2>4, InputStays DEF CountInv, UnderWay
<1>12. CASE Catch
  <2>1. phase = "caught" /\ phase' = "broken" /\ UNCHANGED <<got, stats, diagnostics>>
    BY <1>12 DEF Catch, Caught, Proceeds, reader
  <2>2. UNCHANGED input
    BY <1>12 DEF Catch
  <2>3. Len(stats') = 1 /\ ~stats'[1].success /\ diagnostics'.forward = 1 /\ diagnostics'.models <= 1
    BY <2>1 DEF CountInv
  <2>4. diagnostics'.forward <= 1 /\ diagnostics'.models <= 2 /\ diagnostics'.models # 2
    BY <1>1, <2>1, <2>3
  <2>5. CountedOnce'
    BY <2>3, <2>4, Zenon DEF CountedOnce
  <2>. QED BY <1>1, <2>1, <2>2, <2>5, InputStays DEF CountInv, UnderWay
<1>13. ASSUME NEW n \in 1..Len(answer.body), ReadPiece(n) PROVE CountInv'
  <2>1. answer.body # <<>> /\ phase = "pipe" /\ UNCHANGED <<phase, stats, diagnostics>>
    BY <1>13 DEF ReadPiece, Streams
  <2>. QED BY <1>13, <2>1, InputStays DEF ReadPiece, CountInv, CountedOnce, UnderWay
<1>. QED
  BY <1>2, <1>4, <1>5, <1>6, <1>7, <1>8, <1>9, <1>10, <1>11, <1>12, <1>13, <1>14, <1>15, <1>16, <1>17 DEF StreamNext

\* However a request of a client ends (src/proxy/src/routes/compatible.ts): it is in the statistics
\* once, as a success only if its answer was one and was read to its end; its own failure upstream is
\* diagnosed once, and failures of the models list, at most two, apart from it.
THEOREM RequestsCountedOnce == StreamSpec => []CountedOnce
<1>1. StreamInit => CountInv
  BY DEF StreamInit, CountInv, CountedOnce, UnderWay
<1>2. ASSUME CountInv, [StreamNext]_streamVars PROVE CountInv'
  <2>1. CASE UNCHANGED streamVars
    BY <1>2, <2>1 DEF streamVars, CountInv, CountedOnce, UnderWay, Estimates
  <2>. QED BY <1>2, <2>1, CountStep
<1>3. CountInv => CountedOnce
  BY DEF CountInv
<1>. QED BY <1>1, <1>2, <1>3, PTL DEF StreamSpec

-----------------------------------------------------------------------------
(***************************************************************************)
(* Induction over the numbers, for a set of them that is given; and what a *)
(* function is that is defined by its values before.                       *)
(***************************************************************************)
LEMMA Induction ==
  ASSUME NEW S, 0 \in S, \A n \in Nat : n \in S => n + 1 \in S
  PROVE  Nat \subseteq S
<1>. DEFINE T == Nat \ S
<1>1. SUFFICES ASSUME T # {} PROVE FALSE
  OBVIOUS
<1>2. PICK x \in T : \A y \in T : ~(<<y, x>> \in OpToRel(<, Nat))
  <2>. HIDE DEF T
  <2>1. T \subseteq Nat
    BY DEF T
  <2>. QED BY <1>1, <2>1, NatLessThanWellFounded, WFMin
<1>3. x \in Nat /\ x # 0
  OBVIOUS
<1>4. x - 1 \in Nat /\ x - 1 < x
  BY <1>3
<1>5. x - 1 \notin S
  BY <1>3, <1>4
<1>. QED BY <1>2, <1>3, <1>4, <1>5 DEF OpToRel

\* F is defined by what comes before, and only F is.
Unrolls(F, n, T, base, step) ==
  /\ F[0] = base
  /\ \A i \in 1..n : F[i] = step[i][F[i - 1]]
  /\ \A G : G[0] = base /\ (\A i \in 1..n : G[i - 1] \in T => G[i] = step[i][G[i - 1]])
              => \A i \in 0..n : G[i] = F[i]

LEMMA Recursion ==
  ASSUME NEW n \in Nat, NEW T, NEW base \in T, NEW step \in [1..n -> [T -> T]]
  PROVE  \E F \in [0..n -> T] : Unrolls(F, n, T, base, step)
<1>. DEFINE Good(m, F) == F[0] = base /\ \A i \in 1..m : F[i] = step[i][F[i - 1]]
            S == {m \in Nat : m <= n => \E F \in [0..m -> T] : Good(m, F)}
<1>1. 0 \in S
  <2>1. [i \in 0..0 |-> base] \in [0..0 -> T] /\ Good(0, [i \in 0..0 |-> base])
    OBVIOUS
  <2>. QED BY <2>1
<1>2. ASSUME NEW m \in Nat, m \in S PROVE m + 1 \in S
  <2>1. SUFFICES ASSUME m + 1 <= n PROVE \E F \in [0..m+1 -> T] : Good(m + 1, F)
    BY <1>2
  <2>2. PICK F \in [0..m -> T] : Good(m, F)
    BY <1>2, <2>1
  <2>. DEFINE H == [i \in 0..m+1 |-> IF i = m + 1 THEN step[m + 1][F[m]] ELSE F[i]]
  <2>3. m + 1 \in 1..n /\ m \in 0..m
    BY <2>1
  <2>4. H \in [0..m+1 -> T]
    BY <2>3
  <2>5. H[0] = base
    BY <2>2
  <2>6. ASSUME NEW i \in 1..m+1 PROVE H[i] = step[i][H[i - 1]]
    <3>1. i - 1 \in 0..m /\ H[i - 1] = F[i - 1]
      OBVIOUS
    <3>2. CASE i = m + 1
      BY <3>1, <3>2
    <3>3. CASE i # m + 1
      <4>1. i \in 1..m
        BY <3>3
      <4>. QED BY <4>1, <3>1, <3>3, <2>2
    <3>. QED BY <3>2, <3>3
  <2>7. Good(m + 1, H)
    BY <2>5, <2>6
  <2>. HIDE DEF H, Good
  <2>. QED BY <2>4, <2>7
<1>3. n \in S
  <2>. HIDE DEF S
  <2>. QED BY <1>1, <1>2, Induction
<1>4. PICK F \in [0..n -> T] : Good(n, F)
  BY <1>3
<1>5. ASSUME NEW G, G[0] = base, \A i \in 1..n : G[i - 1] \in T => G[i] = step[i][G[i - 1]]
      PROVE  \A i \in 0..n : G[i] = F[i]
  <2>. DEFINE R == {i \in Nat : i <= n => G[i] = F[i]}
  <2>1. 0 \in R
    BY <1>4, <1>5
  <2>2. ASSUME NEW i \in Nat, i \in R PROVE i + 1 \in R
    <3>1. SUFFICES ASSUME i + 1 <= n PROVE G[i + 1] = F[i + 1]
      OBVIOUS
    <3>2. G[i] = F[i] /\ F[i] \in T
      BY <2>2, <3>1
    <3>3. i + 1 \in 1..n /\ (i + 1) - 1 = i
      BY <3>1
    <3>. QED BY <3>2, <3>3, <1>4, <1>5
  <2>3. Nat \subseteq R
    <3>. HIDE DEF R
    <3>. QED BY <2>1, <2>2, Induction
  <2>. QED BY <2>3
<1>6. Unrolls(F, n, T, base, step)
  BY <1>4, <1>5 DEF Unrolls
<1>. QED BY <1>6
-----------------------------------------------------------------------------
(***************************************************************************)
(* Sequences, one element after the other.                                 *)
(***************************************************************************)
LEMMA SeqInduction ==
  ASSUME NEW T, NEW S, <<>> \in S, \A s \in Seq(T), x \in T : s \in S => Append(s, x) \in S
  PROVE  Seq(T) \subseteq S
<1>. DEFINE R == {n \in Nat : \A s \in Seq(T) : Len(s) = n => s \in S}
<1>1. 0 \in R
  <2>1. \A s \in Seq(T) : Len(s) = 0 => s = <<>>
    OBVIOUS
  <2>. QED BY <2>1
<1>2. ASSUME NEW n \in Nat, n \in R PROVE n + 1 \in R
  <2>1. SUFFICES ASSUME NEW s \in Seq(T), Len(s) = n + 1 PROVE s \in S
    OBVIOUS
  <2>. DEFINE u == SubSeq(s, 1, n)
  <2>2. u \in Seq(T) /\ Len(u) = n /\ s[n + 1] \in T
    BY <2>1
  <2>3. s = Append(u, s[n + 1])
    BY <2>1
  <2>4. u \in S
    BY <1>2, <2>2
  <2>. HIDE DEF u
  <2>. QED BY <2>2, <2>3, <2>4
<1>3. Nat \subseteq R
  <2>. HIDE DEF R
  <2>. QED BY <1>1, <1>2, Induction
<1>. QED BY <1>3

LEMMA AppendConcat ==
  ASSUME NEW T, NEW s \in Seq(T), NEW u \in Seq(T), NEW x \in T
  PROVE  s \o Append(u, x) = Append(s \o u, x) /\ s \o u \in Seq(T) /\ Append(u, x) \in Seq(T)
OBVIOUS

LEMMA AppendLast ==
  ASSUME NEW T, NEW s \in Seq(T), NEW x \in T
  PROVE  /\ Append(s, x) \in Seq(T) /\ Len(Append(s, x)) = Len(s) + 1
         /\ Append(s, x)[Len(s) + 1] = x
         /\ \A i \in 1..Len(s) : Append(s, x)[i] = s[i]
OBVIOUS

Joined(a, b) == a \o b

LEMMA JoinedType == \A T : \A a \in Seq(T), b \in Seq(T) : Joined(a, b) \in Seq(T)
BY DEF Joined

LEMMA JoinedNothing == \A T : \A a \in Seq(T) : Joined(a, <<>>) = a /\ Joined(<<>>, a) = a
BY ConcatEmptySeq DEF Joined

LEMMA JoinedInTurn == \A T :
  \A a \in Seq(T), b \in Seq(T), c \in Seq(T) : Joined(Joined(a, b), c) = Joined(a, Joined(b, c))
BY ConcatAssociative DEF Joined

\* F flattens more and more of s.
Flattens(F, s, T) ==
  /\ F \in [0..Len(s) -> Seq(T)]
  /\ F[0] = <<>> /\ \A i \in 1..Len(s) : F[i] = Joined(F[i - 1], s[i])
  /\ FlattenSeq(s) = F[Len(s)]
  /\ \A G : G[0] = <<>> /\ (\A i \in 1..Len(s) : G[i - 1] \in Seq(T) => G[i] = Joined(G[i - 1], s[i]))
              => \A i \in 0..Len(s) : G[i] = F[i]

LEMMA FlattenSteps == ASSUME NEW T, NEW s \in Seq(Seq(T)) PROVE \E F : Flattens(F, s, T)
<1>. DEFINE n == Len(s)
            step == [i \in 1..n |-> [t \in Seq(T) |-> Joined(t, s[i])]]
            Body(f) == [i \in 1..n |-> IF i = 1 THEN s[i] ELSE Joined(f[i - 1], s[i])]
            C == CHOOSE f : f = Body(f)
<1>1. n \in Nat /\ (\A i \in 1..n : s[i] \in Seq(T)) /\ <<>> \in Seq(T)
  OBVIOUS
<1>2. step \in [1..n -> [Seq(T) -> Seq(T)]]
  BY <1>1, JoinedType
<1>3. PICK F \in [0..n -> Seq(T)] : Unrolls(F, n, Seq(T), <<>>, step)
  <2>. HIDE DEF step, n, Body, C
  <2>. QED BY <1>1, <1>2, Recursion
<1>4. F[0] = <<>> /\ \A i \in 1..n : F[i] = Joined(F[i - 1], s[i])
  <2>1. ASSUME NEW i \in 1..n PROVE F[i - 1] \in Seq(T)
    <3>1. i - 1 \in 0..n
      BY <1>1
    <3>. QED BY <3>1
  <2>2. F[0] = <<>> /\ \A i \in 1..n : F[i] = step[i][F[i - 1]]
    <3>. HIDE DEF step, n
    <3>. QED BY <1>3 DEF Unrolls
  <2>. QED BY <2>1, <2>2
<1>5. ASSUME NEW G, G[0] = <<>>, \A i \in 1..n : G[i - 1] \in Seq(T) => G[i] = Joined(G[i - 1], s[i])
      PROVE  \A i \in 0..n : G[i] = F[i]
  <2>1. \A i \in 1..n : G[i - 1] \in Seq(T) => G[i] = step[i][G[i - 1]]
    BY <1>5
  <2>. HIDE DEF step, n
  <2>. QED BY <1>3, <1>5, <2>1 DEF Unrolls
<1>6. FlattenSeq(s) = F[n]
  <2>1. CASE n = 0
    <3>1. s = <<>>
      BY <2>1
    <3>. QED BY <1>4, <2>1, <3>1 DEF FlattenSeq
  <2>2. CASE n # 0
    <3>. DEFINE R == [i \in 1..n |-> F[i]]
    <3>1. \A i \in 1..n : Joined(<<>>, s[i]) = s[i]
      BY <1>1, JoinedNothing
    <3>2. ASSUME NEW i \in 1..n PROVE R[i] = IF i = 1 THEN s[i] ELSE Joined(R[i - 1], s[i])
      <4>1. CASE i = 1
        <5>1. F[i] = Joined(F[i - 1], s[i]) /\ i - 1 = 0
          BY <1>4, <4>1
        <5>. QED BY <1>4, <3>1, <4>1, <5>1
      <4>2. CASE i # 1
        <5>1. i - 1 \in 1..n
          BY <4>2
        <5>2. R[i - 1] = F[i - 1] /\ R[i] = F[i]
          BY <5>1
        <5>. HIDE DEF R
        <5>. QED BY <1>4, <4>2, <5>2
      <4>. QED BY <4>1, <4>2
    <3>3. R = Body(R)
      BY <3>2
    <3>4. C = Body(C)
      <4>. HIDE DEF Body, R
      <4>. QED BY <3>3
    <3>5. FlattenSeq(s) = C[n]
      BY <2>2 DEF FlattenSeq, Joined
    <3>. HIDE DEF C
    <3>. DEFINE G == [i \in 0..n |-> IF i = 0 THEN <<>> ELSE C[i]]
    <3>6. \A i \in 1..n : C[i] = IF i = 1 THEN s[i] ELSE Joined(C[i - 1], s[i])
      BY <3>4
    <3>7. ASSUME NEW i \in 1..n PROVE G[i] = Joined(G[i - 1], s[i])
      <4>1. CASE i = 1
        <5>1. G[i - 1] = <<>> /\ G[i] = s[i]
          BY <1>1, <3>6, <4>1
        <5>. HIDE DEF G
        <5>. QED BY <3>1, <5>1
      <4>2. CASE i # 1
        <5>1. G[i - 1] = C[i - 1] /\ G[i] = C[i]
          BY <1>1, <4>2
        <5>. HIDE DEF G
        <5>. QED BY <3>6, <4>2, <5>1
      <4>. QED BY <4>1, <4>2
    <3>8. G[0] = <<>> /\ G[n] = C[n] /\ n \in 0..n
      BY <1>1, <2>2
    <3>. HIDE DEF G
    <3>9. G[n] = F[n]
      BY <1>5, <3>7, <3>8
    <3>. QED BY <3>5, <3>8, <3>9
  <2>. QED BY <2>1, <2>2
<1>7. Flattens(F, s, T)
  BY <1>3, <1>4, <1>5, <1>6 DEF Flattens
<1>. QED BY <1>7

LEMMA FlattenNothing == FlattenSeq(<<>>) = <<>>
BY DEF FlattenSeq

LEMMA FlattenNext ==
  ASSUME NEW T, NEW s \in Seq(Seq(T)), NEW x \in Seq(T)
  PROVE  FlattenSeq(s) \in Seq(T) /\ FlattenSeq(Append(s, x)) = Joined(FlattenSeq(s), x)
<1>. DEFINE d == Append(s, x)
            n == Len(s)
<1>1. d \in Seq(Seq(T)) /\ Len(d) = n + 1 /\ n \in Nat /\ d[n + 1] = x /\ \A i \in 1..n : d[i] = s[i]
  BY AppendLast
<1>. HIDE DEF d, n
<1>2. PICK F : Flattens(F, s, T)
  BY FlattenSteps
<1>3. PICK G : Flattens(G, d, T)
  BY <1>1, FlattenSteps
<1>2a. /\ F \in [0..n -> Seq(T)] /\ FlattenSeq(s) = F[n]
      /\ \A H : H[0] = <<>> /\ (\A i \in 1..n : H[i - 1] \in Seq(T) => H[i] = Joined(H[i - 1], s[i]))
                  => \A i \in 0..n : H[i] = F[i]
  BY <1>2 DEF Flattens, n
<1>3a. /\ G[0] = <<>> /\ \A i \in 1..(n + 1) : G[i] = Joined(G[i - 1], d[i])
      /\ FlattenSeq(d) = G[n + 1]
  BY <1>1, <1>3 DEF Flattens
<1>4. ASSUME NEW i \in 1..n PROVE G[i] = Joined(G[i - 1], s[i])
  <2>1. d[i] = s[i]
    BY <1>1
  <2>2. i \in 1..(n + 1)
    <3>1. n \in Nat
      BY <1>1
    <3>. QED BY <3>1
  <2>3. G[i] = Joined(G[i - 1], d[i])
    BY <1>3a, <2>2
  <2>. QED BY <2>1, <2>3
<1>5. G[n] = F[n]
  <2>1. G[0] = <<>>
    BY <1>3a
  <2>2. \A i \in 1..n : G[i] = Joined(G[i - 1], s[i])
    BY <1>4
  <2>3. \A i \in 0..n : G[i] = F[i]
    BY <1>2a, <2>1, <2>2
  <2>4. n \in 0..n
    BY <1>1
  <2>. QED BY <2>3, <2>4
<1>6. G[n + 1] = Joined(G[n], x)
  BY <1>1, <1>3a
<1>7. F[n] \in Seq(T)
  BY <1>1, <1>2a
<1>. QED BY <1>2a, <1>3a, <1>5, <1>6, <1>7 DEF d

LEMMA FlattenType == \A T : \A s \in Seq(Seq(T)) : FlattenSeq(s) \in Seq(T)
<1>. SUFFICES ASSUME NEW T, NEW s \in Seq(Seq(T)) PROVE FlattenSeq(s) \in Seq(T)
  OBVIOUS
<1>1. <<>> \in Seq(T)
  OBVIOUS
<1>. QED BY <1>1, FlattenNext

LEMMA FlattenOne == \A T : \A x \in Seq(T) : FlattenSeq(<<x>>) = x
<1>. SUFFICES ASSUME NEW T, NEW x \in Seq(T) PROVE FlattenSeq(<<x>>) = x
  OBVIOUS
<1>1. <<>> \in Seq(Seq(T)) /\ <<x>> = Append(<<>>, x)
  OBVIOUS
<1>2. FlattenSeq(<<x>>) = Joined(<<>>, x)
  BY <1>1, FlattenNext, FlattenNothing
<1>. QED BY <1>2, JoinedNothing

LEMMA GreatestAndLeast ==
  ASSUME NEW n \in Nat, NEW I, I \subseteq 1..n, I # {}
  PROVE  /\ Max(I) \in I /\ \A j \in I : Max(I) >= j
         /\ Min(I) \in I /\ \A j \in I : Min(I) <= j
<1>1. I \subseteq Nat
  OBVIOUS
<1>2. \E m \in I : \A j \in I : m <= j
  <2>1. PICK m \in I : \A j \in I : ~(<<j, m>> \in OpToRel(<, Nat))
    BY <1>1, NatLessThanWellFounded, WFMin
  <2>2. ASSUME NEW j \in I PROVE m <= j
    <3>1. j \in Nat /\ m \in Nat /\ ~(j < m)
      BY <1>1, <2>1 DEF OpToRel
    <3>. QED BY <3>1
  <2>. QED BY <2>2
<1>3. \E m \in I : \A j \in I : m >= j
  <2>. DEFINE D == {i \in Nat : \E j \in I : i + j = n}
  <2>1. D \subseteq Nat /\ D # {}
    <3>1. PICK j \in I : TRUE
      OBVIOUS
    <3>2. n - j \in D
      BY <3>1
    <3>. QED BY <3>2
  <2>2. PICK d \in D : \A c \in D : ~(<<c, d>> \in OpToRel(<, Nat))
    <3>. HIDE DEF D
    <3>. QED BY <2>1, NatLessThanWellFounded, WFMin
  <2>3. PICK m \in I : d + m = n
    OBVIOUS
  <2>4. ASSUME NEW j \in I, ~(m >= j) PROVE FALSE
    <3>1. j \in Nat /\ m \in Nat /\ j <= n /\ m < j
      BY <1>1, <2>4
    <3>2. n - j \in Nat /\ (n - j) + j = n
      BY <3>1
    <3>3. n - j \in D
      BY <2>4, <3>2
    <3>4. d \in Nat /\ n - j < d
      BY <2>1, <2>3, <3>1
    <3>. QED BY <2>2, <3>2, <3>3, <3>4 DEF OpToRel
  <2>. QED BY <2>4
<1>. QED BY <1>2, <1>3, Zenon DEF Max, Min

-----------------------------------------------------------------------------
(***************************************************************************)
(* What a function makes of each element of a sequence, one after the      *)
(* other; a selection is one of these.                                     *)
(***************************************************************************)
Translated(f, s) == FlattenSeq([i \in DOMAIN s |-> f[s[i]]])

\* f makes a sequence of B of every element of A.
Makes(f, A, B) == \A a \in A : f[a] \in Seq(B)

LEMMA TranslatedNothing == \A f : Translated(f, <<>>) = <<>>
<1>. SUFFICES ASSUME NEW f PROVE Translated(f, <<>>) = <<>>
  OBVIOUS
<1>1. [i \in DOMAIN <<>> |-> f[<<>>[i]]] = <<>>
  OBVIOUS
<1>. QED BY <1>1, FlattenNothing DEF Translated

LEMMA TranslatedNext ==
  ASSUME NEW A, NEW B, NEW f, Makes(f, A, B), NEW s \in Seq(A), NEW x \in A
  PROVE  /\ Translated(f, s) \in Seq(B)
         /\ Translated(f, Append(s, x)) = Joined(Translated(f, s), f[x])
<1>. DEFINE Each(t) == [i \in DOMAIN t |-> f[t[i]]]
            d == Append(s, x)
<1>1. PICK n \in Nat : n = Len(s)
  OBVIOUS
<1>2. /\ d \in Seq(A) /\ Len(d) = n + 1 /\ DOMAIN d = 1..(n + 1) /\ d[n + 1] = x
      /\ DOMAIN s = 1..n /\ \A i \in 1..n : d[i] = s[i] /\ s[i] \in A
  BY <1>1, AppendLast
<1>. HIDE DEF d
<1>3. PICK y \in Seq(B) : y = f[x]
  BY DEF Makes
<1>4. PICK u : u = Each(s)
  OBVIOUS
<1>5. PICK v : v = Each(d)
  OBVIOUS
<1>6. u \in [1..n -> Seq(B)]
  BY <1>2, <1>4 DEF Makes
<1>7. u \in Seq(Seq(B)) /\ Len(u) = n
  BY <1>6
<1>8. v \in [1..(n + 1) -> Seq(B)] /\ v[n + 1] = y /\ \A i \in 1..n : v[i] = u[i]
  <2>1. DOMAIN v = 1..(n + 1) /\ v = [i \in 1..(n + 1) |-> f[d[i]]]
    BY <1>2, <1>5
  <2>2. \A i \in 1..(n + 1) : d[i] \in A
    BY <1>2
  <2>3. \A i \in 1..(n + 1) : v[i] = f[d[i]] /\ f[d[i]] \in Seq(B)
    BY <2>1, <2>2 DEF Makes
  <2>4. v[n + 1] = y
    BY <1>2, <1>3, <2>3
  <2>5. \A i \in 1..n : v[i] = u[i]
    BY <1>2, <1>4, <2>3
  <2>. QED BY <2>1, <2>3, <2>4, <2>5
<1>9. v = Append(u, y)
  <2>1. v \in Seq(Seq(B)) /\ Len(v) = n + 1
    BY <1>8
  <2>2. /\ Append(u, y) \in Seq(Seq(B)) /\ Len(Append(u, y)) = n + 1
        /\ Append(u, y)[n + 1] = y /\ \A i \in 1..n : Append(u, y)[i] = u[i]
    BY <1>7, AppendLast
  <2>3. \A i \in 1..(n + 1) : v[i] = Append(u, y)[i]
    BY <1>8, <2>2
  <2>. QED BY <2>1, <2>2, <2>3, SeqEqual
<1>10. Translated(f, s) = FlattenSeq(u) /\ Translated(f, d) = FlattenSeq(v)
  BY <1>4, <1>5 DEF Translated
<1>11. FlattenSeq(u) \in Seq(B) /\ FlattenSeq(Append(u, y)) = Joined(FlattenSeq(u), y)
  BY <1>7, FlattenNext, FlattenType
<1>. QED BY <1>3, <1>9, <1>10, <1>11 DEF d

\* The same, for who reasons about all sequences at once.
LEMMA TranslatedGrows == \A f, A, B : Makes(f, A, B) => \A s \in Seq(A), x \in A :
  Translated(f, Append(s, x)) = Joined(Translated(f, s), f[x])
BY TranslatedNext

LEMMA TranslatedType == \A f, A, B : Makes(f, A, B) => \A s \in Seq(A) : Translated(f, s) \in Seq(B)
<1>. SUFFICES ASSUME NEW f, NEW A, NEW B, Makes(f, A, B), NEW s \in Seq(A) PROVE Translated(f, s) \in Seq(B)
  OBVIOUS
<1>1. CASE s = <<>>
  <2>1. <<>> \in Seq(B)
    OBVIOUS
  <2>. QED BY <1>1, <2>1, TranslatedNothing
<1>2. CASE s # <<>>
  <2>1. PICK x \in A : x = s[1]
    BY <1>2
  <2>. QED BY <2>1, TranslatedNext
<1>. QED BY <1>1, <1>2

LEMMA TranslatedOne ==
  ASSUME NEW A, NEW B, NEW f, Makes(f, A, B), NEW x \in A
  PROVE  Translated(f, <<x>>) = f[x]
<1>1. PICK e \in Seq(A) : e = <<>> /\ <<x>> = Append(e, x)
  <2>1. <<>> \in Seq(A) /\ <<x>> = Append(<<>>, x)
    OBVIOUS
  <2>. QED BY <2>1
<1>2. PICK y \in Seq(B) : y = f[x]
  BY DEF Makes
<1>3. Translated(f, Append(e, x)) = Joined(Translated(f, e), y)
  BY <1>2, TranslatedGrows
<1>4. Translated(f, e) = <<>> /\ Joined(<<>>, y) = y
  BY <1>1, TranslatedNothing, JoinedNothing
<1>. QED BY <1>1, <1>2, <1>3, <1>4

LEMMA TranslatedJoined ==
  ASSUME NEW A, NEW B, NEW f, Makes(f, A, B), NEW s \in Seq(A), NEW t \in Seq(A)
  PROVE  Translated(f, s \o t) = Joined(Translated(f, s), Translated(f, t))
<1>. DEFINE S == {u \in Seq(A) : Translated(f, s \o u) = Joined(Translated(f, s), Translated(f, u))}
<1>1. <<>> \in S
  <2>1. s \o <<>> = s /\ <<>> \in Seq(A)
    BY ConcatEmptySeq
  <2>2. Translated(f, s) \in Seq(B)
    BY TranslatedType
  <2>. QED BY <2>1, <2>2, TranslatedNothing, JoinedNothing
<1>2. ASSUME NEW u \in Seq(A), NEW x \in A, u \in S PROVE Append(u, x) \in S
  <2>1. PICK v \in Seq(A) : v = s \o u
    <3>1. s \o u \in Seq(A)
      BY AppendConcat
    <3>. QED BY <3>1
  <2>2. s \o Append(u, x) = Append(v, x) /\ Append(u, x) \in Seq(A)
    BY <2>1, AppendConcat
  <2>3. PICK p \in Seq(B) : p = Translated(f, s)
    BY TranslatedType
  <2>4. PICK q \in Seq(B) : q = Translated(f, u)
    BY TranslatedType
  <2>5. PICK y \in Seq(B) : y = f[x]
    BY DEF Makes
  <2>6. Translated(f, Append(v, x)) = Joined(Translated(f, v), y) /\ Translated(f, Append(u, x)) = Joined(q, y)
    BY <2>4, <2>5, TranslatedGrows
  <2>7. Translated(f, v) = Joined(p, q)
    BY <1>2, <2>1, <2>3, <2>4
  <2>8. Joined(Joined(p, q), y) = Joined(p, Joined(q, y))
    BY JoinedInTurn
  <2>. QED BY <2>2, <2>3, <2>6, <2>7, <2>8
<1>3. Seq(A) \subseteq S
  <2>. HIDE DEF S
  <2>. QED BY <1>1, <1>2, SeqInduction
<1>. QED BY <1>3

LEMMA TranslatedTwice ==
  ASSUME NEW A, NEW B, NEW C, NEW f, NEW g, NEW h, Makes(f, A, B), Makes(g, B, C),
         \A a \in A : h[a] = Translated(g, f[a]), NEW s \in Seq(A)
  PROVE  Translated(g, Translated(f, s)) = Translated(h, s)
<1>. DEFINE S == {u \in Seq(A) : Translated(g, Translated(f, u)) = Translated(h, u)}
<1>1. Makes(h, A, C)
  BY TranslatedType DEF Makes
<1>2. <<>> \in S
  <2>1. <<>> \in Seq(A)
    OBVIOUS
  <2>. QED BY <2>1, TranslatedNothing
<1>3. ASSUME NEW u \in Seq(A), NEW x \in A, u \in S PROVE Append(u, x) \in S
  <2>1. PICK p \in Seq(B) : p = Translated(f, u)
    BY TranslatedType
  <2>2. PICK y \in Seq(B) : y = f[x]
    BY DEF Makes
  <2>3. Translated(f, Append(u, x)) = p \o y /\ Append(u, x) \in Seq(A)
    <3>1. Translated(f, Append(u, x)) = Joined(p, y)
      BY <2>1, <2>2, TranslatedGrows
    <3>2. Append(u, x) \in Seq(A)
      BY AppendConcat
    <3>. QED BY <3>1, <3>2 DEF Joined
  <2>4. Translated(g, p \o y) = Joined(Translated(g, p), Translated(g, y))
    BY TranslatedJoined
  <2>5. Translated(h, Append(u, x)) = Joined(Translated(h, u), h[x])
    BY <1>1, TranslatedGrows
  <2>6. Translated(g, p) = Translated(h, u) /\ h[x] = Translated(g, y)
    BY <1>3, <2>1, <2>2
  <2>. QED BY <2>3, <2>4, <2>5, <2>6
<1>4. Seq(A) \subseteq S
  <2>. HIDE DEF S
  <2>. QED BY <1>2, <1>3, SeqInduction
<1>. QED BY <1>4

\* What is made depends on the elements only.
LEMMA TranslatedAlike ==
  ASSUME NEW A, NEW B, NEW f, NEW g, NEW s \in Seq(A), NEW t \in Seq(B),
         Len(s) = Len(t), \A i \in 1..Len(s) : f[s[i]] = g[t[i]]
  PROVE  Translated(f, s) = Translated(g, t)
<1>1. DOMAIN s = 1..Len(s) /\ DOMAIN t = 1..Len(s)
  OBVIOUS
<1>2. [i \in DOMAIN s |-> f[s[i]]] = [i \in DOMAIN t |-> g[t[i]]]
  BY <1>1
<1>. QED BY <1>2 DEF Translated

\* x may stand before or after any sequence.
Commutes(x, V) == \A v \in Seq(V) : Joined(x, v) = Joined(v, x)

LEMMA TranslatedCommutes ==
  ASSUME NEW A, NEW V, NEW g, Makes(g, A, V), \A a \in A : Commutes(g[a], V), NEW s \in Seq(A)
  PROVE  Commutes(Translated(g, s), V)
<1>. DEFINE S == {u \in Seq(A) : Commutes(Translated(g, u), V)}
<1>1. <<>> \in S
  <2>1. <<>> \in Seq(A)
    OBVIOUS
  <2>. QED BY <2>1, TranslatedNothing, JoinedNothing DEF Commutes
<1>2. ASSUME NEW u \in Seq(A), NEW x \in A, u \in S PROVE Append(u, x) \in S
  <2>1. PICK p \in Seq(V) : p = Translated(g, u)
    BY TranslatedType
  <2>2. PICK q \in Seq(V) : q = g[x]
    BY DEF Makes
  <2>3. Translated(g, Append(u, x)) = Joined(p, q) /\ Append(u, x) \in Seq(A)
    BY <2>1, <2>2, TranslatedGrows
  <2>4. ASSUME NEW v \in Seq(V) PROVE Joined(Joined(p, q), v) = Joined(v, Joined(p, q))
    <3>1. Joined(q, v) = Joined(v, q) /\ Joined(p, v) = Joined(v, p)
      BY <1>2, <2>1, <2>2 DEF Commutes
    <3>2. Joined(Joined(p, q), v) = Joined(p, Joined(q, v))
      BY JoinedInTurn
    <3>3. Joined(p, Joined(v, q)) = Joined(Joined(p, v), q)
      BY JoinedInTurn
    <3>4. Joined(Joined(v, p), q) = Joined(v, Joined(p, q))
      BY JoinedInTurn
    <3>. QED BY <3>1, <3>2, <3>3, <3>4
  <2>. QED BY <2>3, <2>4 DEF Commutes
<1>3. Seq(A) \subseteq S
  <2>. HIDE DEF S
  <2>. QED BY <1>1, <1>2, SeqInduction
<1>. QED BY <1>3

\* A translation in two parts, the second of which may stand anywhere.
LEMMA TranslatedApart ==
  ASSUME NEW A, NEW V, NEW f, NEW g, NEW h, Makes(f, A, V), Makes(g, A, V), Makes(h, A, V),
         \A a \in A : h[a] = Joined(f[a], g[a]) /\ Commutes(g[a], V), NEW s \in Seq(A)
  PROVE  Translated(h, s) = Joined(Translated(f, s), Translated(g, s))
<1>. DEFINE S == {u \in Seq(A) : Translated(h, u) = Joined(Translated(f, u), Translated(g, u))}
<1>1. <<>> \in S
  <2>1. Joined(<<>>, <<>>) = <<>>
    <3>1. <<>> \in Seq({})
      OBVIOUS
    <3>. QED BY <3>1, JoinedNothing
  <2>2. <<>> \in Seq(A)
    OBVIOUS
  <2>. QED BY <2>1, <2>2, TranslatedNothing
<1>2. ASSUME NEW u \in Seq(A), NEW x \in A, u \in S PROVE Append(u, x) \in S
  <2>1. PICK F \in Seq(V) : F = Translated(f, u)
    BY TranslatedType
  <2>2. PICK G \in Seq(V) : G = Translated(g, u)
    BY TranslatedType
  <2>3. PICK p \in Seq(V) : p = f[x]
    BY DEF Makes
  <2>4. PICK q \in Seq(V) : q = g[x]
    BY DEF Makes
  <2>5. Joined(F, G) \in Seq(V) /\ Joined(F, p) \in Seq(V) /\ Joined(p, q) \in Seq(V) /\ Joined(G, q) \in Seq(V)
    BY JoinedType
  <2>6. Joined(p, G) = Joined(G, p)
    <3>1. \A a \in A : Commutes(g[a], V)
      OBVIOUS
    <3>2. Commutes(G, V)
      BY <2>2, <3>1, TranslatedCommutes
    <3>. QED BY <3>2 DEF Commutes
  <2>7. Translated(h, Append(u, x)) = Joined(Translated(h, u), h[x])
    BY TranslatedGrows
  <2>8. Translated(f, Append(u, x)) = Joined(F, p)
    BY <2>1, <2>3, TranslatedGrows
  <2>9. Translated(g, Append(u, x)) = Joined(G, q)
    BY <2>2, <2>4, TranslatedGrows
  <2>10. Translated(h, u) = Joined(F, G) /\ h[x] = Joined(p, q)
    BY <1>2, <2>1, <2>2, <2>3, <2>4
  <2>11. Joined(Joined(F, G), Joined(p, q)) = Joined(Joined(Joined(F, G), p), q)
    BY <2>5, JoinedInTurn
  <2>12. Joined(Joined(F, G), p) = Joined(F, Joined(G, p))
    BY JoinedInTurn
  <2>13. Joined(F, Joined(p, G)) = Joined(Joined(F, p), G)
    BY JoinedInTurn
  <2>14. Joined(Joined(Joined(F, p), G), q) = Joined(Joined(F, p), Joined(G, q))
    BY <2>5, JoinedInTurn
  <2>15. Append(u, x) \in Seq(A)
    OBVIOUS
  <2>16. Translated(h, Append(u, x)) = Joined(Joined(F, p), Joined(G, q))
    BY <2>6, <2>7, <2>10, <2>11, <2>12, <2>13, <2>14
  <2>. QED BY <2>8, <2>9, <2>15, <2>16
<1>3. Seq(A) \subseteq S
  <2>. HIDE DEF S
  <2>. QED BY <1>1, <1>2, SeqInduction
<1>. QED BY <1>3

\* One thing for each: the sequence of these.
Single(f, g, A, B) == \A a \in A : g[a] \in B /\ f[a] = <<(g[a])>>

OneForEach(g, s) == [i \in DOMAIN s |-> g[s[i]]]

LEMMA TranslatedSingly ==
  ASSUME NEW A, NEW B, NEW f, NEW g, Single(f, g, A, B), NEW s \in Seq(A)
  PROVE  Translated(f, s) = OneForEach(g, s)
<1>. SUFFICES ASSUME \A a \in A : g[a] \in B /\ f[a] = <<(g[a])>>
              PROVE  Translated(f, s) = [i \in DOMAIN s |-> g[s[i]]]
  BY DEF Single, OneForEach
<1>. DEFINE S == {u \in Seq(A) : Translated(f, u) = [i \in DOMAIN u |-> g[u[i]]]}
<1>1. <<>> \in S
  <2>1. [i \in DOMAIN <<>> |-> g[<<>>[i]]] = <<>> /\ <<>> \in Seq(A)
    OBVIOUS
  <2>. QED BY <2>1, TranslatedNothing
<1>2. ASSUME NEW u \in Seq(A), NEW x \in A, u \in S PROVE Append(u, x) \in S
  <2>. DEFINE d == Append(u, x)
  <2>1. PICK n \in Nat : n = Len(u)
    OBVIOUS
  <2>2. /\ d \in Seq(A) /\ Len(d) = n + 1 /\ DOMAIN d = 1..(n + 1) /\ d[n + 1] = x
        /\ DOMAIN u = 1..n /\ \A i \in 1..n : d[i] = u[i] /\ u[i] \in A
    BY <2>1, AppendLast
  <2>. HIDE DEF d
  <2>3. Makes(f, A, B)
    <3>1. ASSUME NEW a \in A PROVE f[a] \in Seq(B)
      <4>1. PICK b \in B : b = g[a]
        OBVIOUS
      <4>2. f[a] = <<b>>
        BY <4>1
      <4>. QED BY <4>2
    <3>. QED BY <3>1 DEF Makes
  <2>4. PICK y \in B : y = g[x]
    OBVIOUS
  <2>5. PICK p : p = [i \in 1..n |-> g[u[i]]]
    OBVIOUS
  <2>6. PICK q : q = [i \in 1..(n + 1) |-> g[d[i]]]
    OBVIOUS
  <2>7. p \in [1..n -> B]
    BY <2>2, <2>5
  <2>8. q \in [1..(n + 1) -> B]
    BY <2>2, <2>6
  <2>9. p \in Seq(B) /\ q \in Seq(B) /\ Len(p) = n /\ Len(q) = n + 1
    BY <2>7, <2>8
  <2>10. q = Append(p, y)
    <3>1. /\ Append(p, y) \in Seq(B) /\ Len(Append(p, y)) = n + 1
          /\ Append(p, y)[n + 1] = y /\ \A i \in 1..n : Append(p, y)[i] = p[i]
      BY <2>9, AppendLast
    <3>2. \A i \in 1..n : q[i] = p[i]
      BY <2>2, <2>5, <2>6
    <3>3. q[n + 1] = y
      BY <2>2, <2>4, <2>6
    <3>4. \A i \in 1..(n + 1) : q[i] = Append(p, y)[i]
      BY <3>1, <3>2, <3>3
    <3>. QED BY <2>9, <3>1, <3>4, SeqEqual
  <2>11. Translated(f, d) = Joined(Translated(f, u), f[x])
    BY <2>3, TranslatedGrows DEF d
  <2>12. Translated(f, u) = p /\ f[x] = <<y>>
    BY <1>2, <2>2, <2>4, <2>5
  <2>13. Joined(p, <<y>>) = Append(p, y)
    BY <2>9 DEF Joined
  <2>14. [i \in DOMAIN d |-> g[d[i]]] = q
    BY <2>2, <2>6
  <2>. QED BY <2>2, <2>10, <2>11, <2>12, <2>13, <2>14 DEF d
<1>3. Seq(A) \subseteq S
  <2>. HIDE DEF S
  <2>. QED BY <1>1, <1>2, SeqInduction
<1>. QED BY <1>3

LEMMA ReplacedType ==
  ASSUME NEW A, NEW u \in Seq(A), NEW j \in 1..Len(u), NEW e \in A
  PROVE  /\ [u EXCEPT ![j] = e] \in Seq(A) /\ Len([u EXCEPT ![j] = e]) = Len(u)
         /\ \A i \in 1..Len(u) : [u EXCEPT ![j] = e][i] = IF i = j THEN e ELSE u[i]
<1>1. PICK n \in Nat : n = Len(u) /\ DOMAIN u = 1..n /\ \A i \in 1..n : u[i] \in A
  OBVIOUS
<1>2. PICK v : v = [u EXCEPT ![j] = e]
  OBVIOUS
<1>3. v \in [1..n -> A] /\ \A i \in 1..n : v[i] = IF i = j THEN e ELSE u[i]
  BY <1>1, <1>2
<1>4. v \in Seq(A) /\ Len(v) = n
  BY <1>3
<1>. QED BY <1>1, <1>2, <1>3, <1>4

\* Where one element makes x more, so does the sequence.
LEMMA TranslatedReplaced ==
  ASSUME NEW A, NEW V, NEW w, Makes(w, A, V), NEW e \in A, NEW x \in Seq(V), Commutes(x, V), NEW s \in Seq(A),
         NEW k \in 1..Len(s), w[e] = Joined(w[s[k]], x)
  PROVE  Translated(w, [s EXCEPT ![k] = e]) = Joined(Translated(w, s), x)
<1>. DEFINE More(u, j) == Translated(w, [u EXCEPT ![j] = e]) = Joined(Translated(w, u), x)
            S == {u \in Seq(A) : \A j \in 1..Len(u) : w[e] = Joined(w[u[j]], x) => More(u, j)}
<1>1. <<>> \in S
  OBVIOUS
<1>2. ASSUME NEW u \in Seq(A), NEW y \in A, u \in S PROVE Append(u, y) \in S
  <2>. DEFINE d == Append(u, y)
  <2>1. PICK n \in Nat : n = Len(u)
    OBVIOUS
  <2>2. /\ d \in Seq(A) /\ Len(d) = n + 1 /\ DOMAIN d = 1..(n + 1) /\ d[n + 1] = y
        /\ DOMAIN u = 1..n /\ \A i \in 1..n : d[i] = u[i] /\ u[i] \in A
    BY <2>1, AppendLast
  <2>3. SUFFICES ASSUME NEW j \in 1..(n + 1), w[e] = Joined(w[d[j]], x) PROVE More(d, j)
    BY <2>2
  <2>4. PICK p \in Seq(V) : p = Translated(w, u)
    BY TranslatedType
  <2>5. PICK q \in Seq(V) : q = w[y]
    BY DEF Makes
  <2>6. Translated(w, d) = Joined(p, q)
    BY <2>4, <2>5, TranslatedGrows
  <2>. HIDE DEF d
  <2>7. CASE j = n + 1
    <3>1. [d EXCEPT ![j] = e] = Append(u, e)
      <4>1. [d EXCEPT ![j] = e] \in Seq(A) /\ Len([d EXCEPT ![j] = e]) = n + 1
        BY <2>2
      <4>2. /\ Append(u, e) \in Seq(A) /\ Len(Append(u, e)) = n + 1
            /\ Append(u, e)[n + 1] = e /\ \A i \in 1..n : Append(u, e)[i] = u[i]
        BY <2>1, AppendLast
      <4>3. \A i \in 1..(n + 1) : [d EXCEPT ![j] = e][i] = Append(u, e)[i]
        BY <2>2, <2>7, <4>2
      <4>. QED BY <4>1, <4>2, <4>3, SeqEqual
    <3>2. w[e] = Joined(q, x)
      BY <2>2, <2>3, <2>5, <2>7
    <3>3. Translated(w, Append(u, e)) = Joined(p, w[e])
      BY <2>4, TranslatedGrows
    <3>4. Joined(p, Joined(q, x)) = Joined(Joined(p, q), x)
      BY JoinedInTurn
    <3>. QED BY <2>6, <3>1, <3>2, <3>3, <3>4
  <2>8. CASE j # n + 1
    <3>1. j \in 1..n /\ d[j] = u[j]
      BY <2>2, <2>8
    <3>2. PICK v \in Seq(A) : v = [u EXCEPT ![j] = e]
      <4>1. [u EXCEPT ![j] = e] \in Seq(A)
        BY <2>1, <3>1, ReplacedType
      <4>. QED BY <4>1
    <3>3. Len(v) = n /\ \A i \in 1..n : v[i] = IF i = j THEN e ELSE u[i]
      BY <2>1, <3>1, <3>2, ReplacedType
    <3>4. [d EXCEPT ![j] = e] = Append(v, y)
      <4>1. [d EXCEPT ![j] = e] \in Seq(A) /\ Len([d EXCEPT ![j] = e]) = n + 1
        BY <2>2
      <4>2. /\ Append(v, y) \in Seq(A) /\ Len(Append(v, y)) = n + 1
            /\ Append(v, y)[n + 1] = y /\ \A i \in 1..n : Append(v, y)[i] = v[i]
        <5>1. /\ Append(v, y) \in Seq(A) /\ Len(Append(v, y)) = Len(v) + 1
              /\ Append(v, y)[Len(v) + 1] = y
              /\ \A i \in 1..Len(v) : Append(v, y)[i] = v[i]
          BY AppendLast
        <5>. QED BY <3>3, <5>1
      <4>3. ASSUME NEW i \in 1..(n + 1) PROVE [d EXCEPT ![j] = e][i] = Append(v, y)[i]
        <5>1. CASE i = n + 1
          BY <2>2, <2>8, <4>2, <5>1
        <5>2. CASE i # n + 1
          <6>1. i \in 1..n
            BY <5>2
          <6>. QED BY <2>2, <3>3, <4>2, <6>1
        <5>. QED BY <5>1, <5>2
      <4>. QED BY <4>1, <4>2, <4>3, SeqEqual
    <3>5. Translated(w, v) = Joined(p, x)
      <4>1. w[e] = Joined(w[u[j]], x) => More(u, j)
        BY <1>2, <2>1, <3>1
      <4>. QED BY <2>3, <2>4, <3>1, <3>2, <4>1
    <3>6. Translated(w, Append(v, y)) = Joined(Joined(p, x), q)
      BY <2>5, <3>5, TranslatedGrows
    <3>7. Joined(Joined(p, x), q) = Joined(p, Joined(x, q))
      BY JoinedInTurn
    <3>8. Joined(x, q) = Joined(q, x)
      BY DEF Commutes
    <3>9. Joined(p, Joined(q, x)) = Joined(Joined(p, q), x)
      BY JoinedInTurn
    <3>. QED BY <2>6, <3>4, <3>6, <3>7, <3>8, <3>9
  <2>. QED BY <2>7, <2>8
<1>3. Seq(A) \subseteq S
  <2>. HIDE DEF S
  <2>. QED BY <1>1, <1>2, SeqInduction
<1>. QED BY <1>3

LEMMA TranslatedNil ==
  ASSUME NEW A, NEW f, \A a \in A : f[a] = <<>>, NEW s \in Seq(A)
  PROVE  Translated(f, s) = <<>>
<1>. DEFINE S == {u \in Seq(A) : Translated(f, u) = <<>>}
<1>1. <<>> \in S
  <2>1. <<>> \in Seq(A)
    OBVIOUS
  <2>. QED BY <2>1, TranslatedNothing
<1>2. ASSUME NEW u \in Seq(A), NEW x \in A, u \in S PROVE Append(u, x) \in S
  <2>1. Makes(f, A, {}) /\ <<>> \in Seq({})
    <3>1. <<>> \in Seq({})
      OBVIOUS
    <3>2. \A a \in A : f[a] \in Seq({})
      BY <3>1
    <3>. QED BY <3>1, <3>2 DEF Makes
  <2>2. Translated(f, Append(u, x)) = Joined(Translated(f, u), f[x])
    BY <2>1, TranslatedGrows
  <2>3. Translated(f, u) = <<>> /\ f[x] = <<>> /\ Append(u, x) \in Seq(A)
    BY <1>2
  <2>. QED BY <2>1, <2>2, <2>3, JoinedNothing
<1>3. Seq(A) \subseteq S
  <2>. HIDE DEF S
  <2>. QED BY <1>1, <1>2, SeqInduction
<1>. QED BY <1>3

-----------------------------------------------------------------------------
(***************************************************************************)
(* The events in what was read.                                            *)
(***************************************************************************)
Strings == Seq(Symbols)
EventLists == Seq(Strings)
Splits == [events : EventLists, rest : Strings]

LEMMA UnreadType == Unread \in Splits /\ Unread.events = <<>> /\ Unread.rest = <<>>
BY DEF Unread, Splits, EventLists, Strings

LEMMA GrownType ==
  ASSUME NEW split \in Splits, NEW c \in Symbols
  PROVE  Grown(split, c) \in Splits
<1>1. split.events \in Seq(Strings) /\ split.rest \in Seq(Symbols)
  BY DEF Splits, EventLists, Strings
<1>2. Append(split.rest, c) \in Strings /\ <<>> \in Strings
  BY <1>1 DEF Strings
<1>3. Append(split.events, Append(split.rest, c)) \in EventLists
  BY <1>1, <1>2, AppendProperties DEF EventLists
<1>. QED BY <1>1, <1>2, <1>3, Zenon DEF Grown, Splits, EventLists

\* What goes before has no part in how a text grows.
LEMMA GrownAfter ==
  ASSUME NEW t \in Splits, NEW u, NEW e \in Seq(Strings), u.events = e \o t.events, u.rest = t.rest,
         NEW c \in Symbols
  PROVE  Grown(u, c).events = e \o Grown(t, c).events /\ Grown(u, c).rest = Grown(t, c).rest
<1>1. PICK te \in Seq(Strings), tr \in Seq(Symbols) : t.events = te /\ t.rest = tr
  BY DEF Splits, Strings, EventLists
<1>. DEFINE x == Append(tr, c)
<1>2. x \in Strings
  BY DEF Strings
<1>3. Append(t.rest, c) = x /\ Append(u.rest, c) = x
  BY <1>1
<1>. HIDE DEF x
<1>4. e \o Append(te, x) = Append(e \o te, x)
  BY <1>2, AppendConcat
<1>5. CASE EndsEvent(x)
  <2>1. Grown(t, c) = [events |-> Append(te, x), rest |-> <<>>]
    BY <1>1, <1>3, <1>5 DEF Grown
  <2>2. Grown(u, c) = [events |-> Append(e \o te, x), rest |-> <<>>]
    BY <1>1, <1>3, <1>5 DEF Grown
  <2>3. Grown(t, c).events = Append(te, x) /\ Grown(t, c).rest = <<>>
    BY <2>1
  <2>4. Grown(u, c).events = Append(e \o te, x) /\ Grown(u, c).rest = <<>>
    BY <2>2
  <2>. QED BY <1>4, <2>3, <2>4
<1>6. CASE ~EndsEvent(x)
  <2>1. Grown(t, c) = [events |-> te, rest |-> x]
    BY <1>1, <1>3, <1>6 DEF Grown
  <2>2. Grown(u, c) = [events |-> e \o te, rest |-> x]
    BY <1>1, <1>3, <1>6 DEF Grown
  <2>. QED BY <2>1, <2>2
<1>. QED BY <1>5, <1>6

\* Split goes through a text symbol by symbol, and in one way only.
LEMMA SplitSteps ==
  ASSUME NEW b \in Strings
  PROVE  \E F \in [0..Len(b) -> Splits] :
           /\ F[0] = Unread /\ \A i \in 1..Len(b) : F[i] = Grown(F[i - 1], b[i])
           /\ Split(b) = F[Len(b)]
           /\ \A G : G[0] = Unread /\ (\A i \in 1..Len(b) : G[i - 1] \in Splits => G[i] = Grown(G[i - 1], b[i]))
                       => \A i \in 0..Len(b) : G[i] = F[i]
<1>. DEFINE n == Len(b)
            step == [i \in 1..n |-> [s \in Splits |-> Grown(s, b[i])]]
            Body(f) == [i \in 0..n |-> IF i = 0 THEN Unread ELSE Grown(f[i - 1], b[i])]
            C == CHOOSE f : f = Body(f)
<1>1. n \in Nat /\ \A i \in 1..n : b[i] \in Symbols
  BY DEF Strings
<1>2. step \in [1..n -> [Splits -> Splits]]
  BY <1>1, GrownType
<1>3a. PICK F \in [0..n -> Splits] : Unrolls(F, n, Splits, Unread, step)
  <2>1. n \in Nat /\ Unread \in Splits
    BY <1>1, UnreadType
  <2>. HIDE DEF step, n, Body, C
  <2>. QED BY <1>2, <2>1, Recursion
<1>3. /\ F[0] = Unread
      /\ \A i \in 1..n : F[i] = step[i][F[i - 1]]
      /\ \A G : G[0] = Unread /\ (\A i \in 1..n : G[i - 1] \in Splits => G[i] = step[i][G[i - 1]])
                  => \A i \in 0..n : G[i] = F[i]
  <2>. HIDE DEF step, n
  <2>. QED BY <1>3a DEF Unrolls
<1>4. \A i \in 1..n : F[i] = Grown(F[i - 1], b[i])
  <2>1. \A i \in 1..n : F[i - 1] \in Splits
    BY <1>1
  <2>. QED BY <1>3, <2>1
<1>5. F = Body(F)
  BY <1>3, <1>4
<1>6. C = Body(C)
  <2>. HIDE DEF Body
  <2>. QED BY <1>5
<1>7. Split(b) = C[n]
  BY DEF Split
<1>8. \A i \in 0..n : C[i] = F[i]
  <2>1. C[0] = Unread
    <3>. HIDE DEF C
    <3>. QED BY <1>6, <1>1
  <2>2. \A i \in 1..n : C[i] = Grown(C[i - 1], b[i])
    <3>. HIDE DEF C
    <3>. QED BY <1>6
  <2>3. \A i \in 1..n : C[i - 1] \in Splits => C[i] = step[i][C[i - 1]]
    <3>. HIDE DEF C
    <3>. QED BY <2>2
  <2>. HIDE DEF C, step
  <2>. QED BY <1>3, <2>1, <2>3
<1>9. \A G : G[0] = Unread /\ (\A i \in 1..n : G[i - 1] \in Splits => G[i] = Grown(G[i - 1], b[i]))
               => \A i \in 0..n : G[i] = F[i]
  <2>1. SUFFICES ASSUME NEW G, G[0] = Unread, \A i \in 1..n : G[i - 1] \in Splits => G[i] = Grown(G[i - 1], b[i])
                 PROVE  \A i \in 0..n : G[i] = F[i]
    OBVIOUS
  <2>2. \A i \in 1..n : G[i - 1] \in Splits => G[i] = step[i][G[i - 1]]
    BY <2>1
  <2>. HIDE DEF step
  <2>. QED BY <1>3, <2>1, <2>2
<1>10. Split(b) = F[n]
  BY <1>1, <1>7, <1>8
<1>. HIDE DEF C
<1>. QED BY <1>3, <1>4, <1>9, <1>10

LEMMA SplitNothing == Split(<<>>) = Unread
<1>1. <<>> \in Strings /\ Len(<<>>) = 0
  BY DEF Strings
<1>. QED BY <1>1, SplitSteps

LEMMA SplitNext ==
  ASSUME NEW b \in Strings, NEW c \in Symbols
  PROVE  Split(b) \in Splits /\ Split(Append(b, c)) = Grown(Split(b), c)
<1>. DEFINE d == Append(b, c)
            n == Len(b)
<1>1. d \in Strings /\ Len(d) = n + 1 /\ n \in Nat /\ d[n + 1] = c /\ \A i \in 1..n : d[i] = b[i]
  BY AppendLast DEF Strings
<1>. HIDE DEF d, n
<1>2. PICK F \in [0..n -> Splits] :
        /\ Split(b) = F[n]
        /\ \A G : G[0] = Unread /\ (\A i \in 1..n : G[i - 1] \in Splits => G[i] = Grown(G[i - 1], b[i]))
                    => \A i \in 0..n : G[i] = F[i]
  BY SplitSteps DEF n
<1>3. PICK G \in [0..(n + 1) -> Splits] :
        /\ G[0] = Unread /\ \A i \in 1..(n + 1) : G[i] = Grown(G[i - 1], d[i])
        /\ Split(d) = G[n + 1]
  BY <1>1, SplitSteps
<1>4. \A i \in 1..n : G[i] = Grown(G[i - 1], b[i])
  BY <1>1, <1>3
<1>5. G[n] = F[n]
  BY <1>1, <1>2, <1>3, <1>4
<1>6. G[n + 1] = Grown(G[n], c)
  BY <1>1, <1>3
<1>7. F[n] \in Splits
  BY <1>1, <1>2
<1>. QED BY <1>2, <1>3, <1>5, <1>6, <1>7 DEF d

LEMMA SplitType == ASSUME NEW b \in Strings PROVE Split(b) \in Splits
<1>. DEFINE S == {t \in Strings : Split(t) \in Splits}
<1>1. <<>> \in S
  BY SplitNothing, UnreadType DEF Strings
<1>2. \A t \in Strings, c \in Symbols : t \in S => Append(t, c) \in S
  BY SplitNext, GrownType, AppendConcat DEF Strings
<1>3. Strings \subseteq S
  <2>. HIDE DEF S
  <2>. QED BY <1>1, <1>2, SeqInduction DEF Strings
<1>. QED BY <1>3

\* No event ends in what is left.
LEMMA RestIsOpen ==
  ASSUME NEW b \in Strings
  PROVE  Split(Split(b).rest) = [events |-> <<>>, rest |-> Split(b).rest]
<1>. DEFINE S == {t \in Strings : Split(Split(t).rest) = [events |-> <<>>, rest |-> Split(t).rest]}
<1>1. <<>> \in S
  BY SplitNothing, UnreadType DEF Strings, Unread
<1>2. ASSUME NEW t \in Strings, NEW c \in Symbols, t \in S PROVE Append(t, c) \in S
  <2>. DEFINE r == Split(t).rest
  <2>1. r \in Strings /\ Append(t, c) \in Strings /\ Append(r, c) \in Strings
    BY SplitType DEF Splits, Strings
  <2>2. Split(Append(t, c)) = Grown(Split(t), c)
    BY SplitNext
  <2>3. Split(Append(r, c)) = Grown([events |-> <<>>, rest |-> r], c)
    BY <1>2, <2>1, SplitNext
  <2>4. CASE EndsEvent(Append(r, c))
    <3>1. Split(Append(t, c)).rest = <<>>
      BY <2>2, <2>4 DEF Grown
    <3>. QED BY <3>1, <2>1, SplitNothing DEF Unread
  <2>5. CASE ~EndsEvent(Append(r, c))
    <3>1. Split(Append(t, c)).rest = Append(r, c)
      BY <2>2, <2>5 DEF Grown
    <3>2. Split(Append(r, c)) = [events |-> <<>>, rest |-> Append(r, c)]
      BY <2>3, <2>5 DEF Grown
    <3>. QED BY <3>1, <3>2, <2>1
  <2>. QED BY <2>4, <2>5
<1>3. Strings \subseteq S
  <2>. HIDE DEF S
  <2>. QED BY <1>1, <1>2, SeqInduction DEF Strings
<1>. QED BY <1>3

\* Wherever a text is cut, the events of its two parts are its events, when what is left
\* of the first goes before the second.
LEMMA SplitInPieces ==
  ASSUME NEW b \in Strings, NEW p \in Strings
  PROVE  LET s == Split(b)  t == Split(s.rest \o p)
         IN /\ t.events \in EventLists /\ s.events \in EventLists
            /\ Split(b \o p).events = s.events \o t.events
            /\ Split(b \o p).rest = t.rest
<1>1. PICK e \in Seq(Strings), r \in Seq(Symbols) : Split(b).events = e /\ Split(b).rest = r
  BY SplitType DEF Splits, Strings, EventLists
<1>. DEFINE Q(q) == /\ Split(b \o q).events = e \o Split(r \o q).events
                    /\ Split(b \o q).rest = Split(r \o q).rest
            S == {q \in Strings : Q(q)}
<1>2. \A q \in Strings : r \o q \in Strings /\ b \o q \in Strings
  BY ConcatProperties DEF Strings
<1>3. <<>> \in S
  <2>1. b \o <<>> = b /\ r \o <<>> = r /\ e \o <<>> = e /\ <<>> \in Strings
    BY ConcatEmptySeq DEF Strings
  <2>2. Split(r) = [events |-> <<>>, rest |-> r]
    BY <1>1, RestIsOpen
  <2>3. Split(r).events = <<>> /\ Split(r).rest = r
    BY <2>2
  <2>4. Q(<<>>)
    BY <1>1, <2>1, <2>3
  <2>. HIDE DEF Q
  <2>. QED BY <2>1, <2>4
<1>4. ASSUME NEW q \in Strings, NEW c \in Symbols, q \in S PROVE Append(q, c) \in S
  <2>1. /\ Split(r \o q) \in Splits
        /\ Split(b \o q).events = e \o Split(r \o q).events
        /\ Split(b \o q).rest = Split(r \o q).rest
    BY <1>2, <1>4, SplitType
  <2>2. Split(b \o Append(q, c)) = Grown(Split(b \o q), c)
    <3>1. b \o Append(q, c) = Append(b \o q, c)
      BY AppendConcat DEF Strings
    <3>. QED BY <1>2, <3>1, SplitNext
  <2>3. Split(r \o Append(q, c)) = Grown(Split(r \o q), c)
    <3>1. r \o Append(q, c) = Append(r \o q, c)
      BY AppendConcat DEF Strings
    <3>. QED BY <1>2, <3>1, SplitNext
  <2>4. Q(Append(q, c))
    <3>1. PICK t \in Splits : t = Split(r \o q)
      BY <2>1
    <3>2. PICK u : u = Split(b \o q)
      OBVIOUS
    <3>3. u.events = e \o t.events /\ u.rest = t.rest
      BY <2>1, <3>1, <3>2
    <3>4. Grown(u, c).events = e \o Grown(t, c).events /\ Grown(u, c).rest = Grown(t, c).rest
      BY <3>3, GrownAfter
    <3>. QED BY <2>2, <2>3, <3>1, <3>2, <3>4
  <2>5. Append(q, c) \in Strings
    BY DEF Strings
  <2>. HIDE DEF Q
  <2>. QED BY <2>4, <2>5
<1>5. Strings \subseteq S
  <2>. HIDE DEF S
  <2>. QED BY <1>3, <1>4, SeqInduction DEF Strings
<1>6. Q(p)
  BY <1>5
<1>7. Split(r \o p) \in Splits /\ Split(b) \in Splits
  BY <1>2, SplitType
<1>. QED BY <1>1, <1>6, <1>7 DEF Splits

-----------------------------------------------------------------------------
(***************************************************************************)
(* What is written, and the usage that is collected.                       *)
(***************************************************************************)
LEMMA StringsJoin ==
  /\ \A a \in Strings, b \in Strings : Joined(a, b) \in Strings
  /\ \A a \in Strings : Joined(a, <<>>) = a /\ Joined(<<>>, a) = a
  /\ \A a \in Strings, b \in Strings, c \in Strings : Joined(Joined(a, b), c) = Joined(a, Joined(b, c))
BY JoinedType, JoinedNothing, JoinedInTurn DEF Strings

LEMMA StringsFlatten ==
  ASSUME NEW s \in EventLists, NEW x \in Strings
  PROVE  FlattenSeq(s) \in Strings /\ FlattenSeq(Append(s, x)) = Joined(FlattenSeq(s), x)
BY FlattenNext DEF EventLists, Strings

\* What is written of an event.
Sent(e) == IF IsCopilotDone(Content(e)) THEN <<>> ELSE e

LEMMA SentType == \A e \in Strings : Sent(e) \in Strings
BY DEF Sent, Strings

LEMMA ForwardedNext ==
  ASSUME NEW s \in EventLists, NEW x \in Strings
  PROVE  Forwarded(s) \in Strings /\ Forwarded(Append(s, x)) = Joined(Forwarded(s), Sent(x))
<1>. DEFINE Shown(t) == [i \in DOMAIN t |-> Sent(t[i])]
<1>1. \A t : Forwarded(t) = FlattenSeq(Shown(t))
  BY DEF Forwarded, Sent
<1>2. Shown(s) \in EventLists /\ Sent(x) \in Strings
  BY SentType DEF EventLists
<1>3. Shown(Append(s, x)) = Append(Shown(s), Sent(x))
  <2>1. DOMAIN s = 1..Len(s) /\ Len(s) \in Nat
    BY DEF EventLists
  <2>2. Append(s, x) \in EventLists /\ DOMAIN Append(s, x) = 1..(Len(s) + 1)
    BY DEF EventLists
  <2>3. Shown(Append(s, x)) \in EventLists /\ Len(Shown(Append(s, x))) = Len(s) + 1
    BY <2>2, SentType DEF EventLists
  <2>4. Append(Shown(s), Sent(x)) \in EventLists /\ Len(Append(Shown(s), Sent(x))) = Len(s) + 1
    BY <1>2, <2>1 DEF EventLists
  <2>5. ASSUME NEW i \in 1..(Len(s) + 1) PROVE Shown(Append(s, x))[i] = Append(Shown(s), Sent(x))[i]
    <3>1. CASE i = Len(s) + 1
      BY <1>2, <2>1, <2>2, <3>1 DEF EventLists
    <3>2. CASE i # Len(s) + 1
      BY <1>2, <2>1, <2>2, <3>2 DEF EventLists
    <3>. QED BY <3>1, <3>2
  <2>. HIDE DEF Shown
  <2>. QED BY <2>3, <2>4, <2>5, SeqEqual DEF EventLists
<1>. HIDE DEF Shown
<1>. QED BY <1>1, <1>2, <1>3, StringsFlatten

LEMMA ForwardedNothing == Forwarded(<<>>) = <<>>
<1>1. [i \in DOMAIN <<>> |-> Sent(<<>>[i])] = <<>>
  OBVIOUS
<1>. QED BY <1>1, FlattenNothing DEF Forwarded, Sent

LEMMA ForwardedType == \A s \in EventLists : Forwarded(s) \in Strings
BY ForwardedNext, <<>> \in Strings DEF Strings

LEMMA ForwardedInTurn ==
  ASSUME NEW a \in EventLists, NEW b \in EventLists
  PROVE  Forwarded(a \o b) = Joined(Forwarded(a), Forwarded(b))
<1>. DEFINE S == {t \in EventLists : Forwarded(a \o t) = Joined(Forwarded(a), Forwarded(t))}
<1>1. <<>> \in S
  <2>1. a \o <<>> = a /\ <<>> \in EventLists
    BY ConcatEmptySeq DEF EventLists
  <2>. QED BY <2>1, ForwardedNothing, ForwardedType, StringsJoin
<1>2. ASSUME NEW t \in EventLists, NEW x \in Strings, t \in S PROVE Append(t, x) \in S
  <2>1. a \o Append(t, x) = Append(a \o t, x) /\ a \o t \in EventLists /\ Append(t, x) \in EventLists
    BY AppendConcat DEF EventLists
  <2>2. Forwarded(a) \in Strings /\ Forwarded(t) \in Strings /\ Sent(x) \in Strings
    BY ForwardedType, SentType
  <2>3. /\ Forwarded(Append(a \o t, x)) = Joined(Forwarded(a \o t), Sent(x))
        /\ Forwarded(Append(t, x)) = Joined(Forwarded(t), Sent(x))
    BY <2>1, ForwardedNext
  <2>4. Forwarded(a \o Append(t, x)) = Joined(Forwarded(a), Forwarded(Append(t, x)))
    BY <1>2, <2>1, <2>2, <2>3, StringsJoin
  <2>. QED BY <2>1, <2>4
<1>3. EventLists \subseteq S
  <2>. HIDE DEF S
  <2>. QED BY <1>1, <1>2, SeqInduction DEF EventLists
<1>. QED BY <1>3

Usages == [UsageKeys -> Nat \cup {Absent}]

LEMMA UsageInType == \A e : UsageIn(e) \in Usages
BY DEF UsageIn, Usages, NoUsage, UsageKeys

LEMMA NoUsageType == NoUsage \in Usages
BY DEF Usages, NoUsage

LEMMA MergeUsageType == \A u \in Usages, v \in Usages : MergeUsage(u, v) \in Usages
BY DEF Usages, MergeUsage

\* The usage of an event, merged into what was collected.
Merged(u, event) == MergeUsage(u, UsageIn(Content(event)))

LEMMA MergedType == \A u \in Usages : \A e : Merged(u, e) \in Usages
BY UsageInType, MergeUsageType DEF Merged

LEMMA CollectedSteps ==
  ASSUME NEW s \in EventLists, NEW u \in Usages
  PROVE  \E F \in [0..Len(s) -> Usages] :
           /\ F[0] = u /\ \A i \in 1..Len(s) : F[i] = Merged(F[i - 1], s[i])
           /\ Collected(s, u) = F[Len(s)]
           /\ \A G : G[0] = u /\ (\A i \in 1..Len(s) : G[i - 1] \in Usages => G[i] = Merged(G[i - 1], s[i]))
                       => \A i \in 0..Len(s) : G[i] = F[i]
<1>. DEFINE n == Len(s)
            step == [i \in 1..n |-> [t \in Usages |-> Merged(t, s[i])]]
            Body(f) == [i \in 0..n |-> IF i = 0 THEN u ELSE Merged(f[i - 1], s[i])]
            C == CHOOSE f : f = Body(f)
<1>1. n \in Nat
  BY DEF EventLists
<1>2. step \in [1..n -> [Usages -> Usages]]
  BY MergedType
<1>3a. PICK F \in [0..n -> Usages] : Unrolls(F, n, Usages, u, step)
  <2>. HIDE DEF step, n, Body, C
  <2>. QED BY <1>1, <1>2, Recursion
<1>3. /\ F[0] = u
      /\ \A i \in 1..n : F[i] = step[i][F[i - 1]]
      /\ \A G : G[0] = u /\ (\A i \in 1..n : G[i - 1] \in Usages => G[i] = step[i][G[i - 1]])
                  => \A i \in 0..n : G[i] = F[i]
  <2>. HIDE DEF step, n
  <2>. QED BY <1>3a DEF Unrolls
<1>4. \A i \in 1..n : F[i] = Merged(F[i - 1], s[i])
  <2>1. \A i \in 1..n : F[i - 1] \in Usages
    BY <1>1
  <2>. QED BY <1>3, <2>1
<1>5. F = Body(F)
  BY <1>3, <1>4
<1>6. C = Body(C)
  <2>. HIDE DEF Body
  <2>. QED BY <1>5
<1>7. Collected(s, u) = C[n]
  BY DEF Collected, Merged
<1>8. \A i \in 0..n : C[i] = F[i]
  <2>1. C[0] = u
    <3>. HIDE DEF C
    <3>. QED BY <1>6, <1>1
  <2>2. \A i \in 1..n : C[i] = Merged(C[i - 1], s[i])
    <3>. HIDE DEF C
    <3>. QED BY <1>6
  <2>3. \A i \in 1..n : C[i - 1] \in Usages => C[i] = step[i][C[i - 1]]
    <3>. HIDE DEF C
    <3>. QED BY <2>2
  <2>. HIDE DEF C, step
  <2>. QED BY <1>3, <2>1, <2>3
<1>9. \A G : G[0] = u /\ (\A i \in 1..n : G[i - 1] \in Usages => G[i] = Merged(G[i - 1], s[i]))
               => \A i \in 0..n : G[i] = F[i]
  <2>1. SUFFICES ASSUME NEW G, G[0] = u, \A i \in 1..n : G[i - 1] \in Usages => G[i] = Merged(G[i - 1], s[i])
                 PROVE  \A i \in 0..n : G[i] = F[i]
    OBVIOUS
  <2>2. \A i \in 1..n : G[i - 1] \in Usages => G[i] = step[i][G[i - 1]]
    BY <2>1
  <2>. HIDE DEF step
  <2>. QED BY <1>3, <2>1, <2>2
<1>10. Collected(s, u) = F[n]
  BY <1>1, <1>7, <1>8
<1>. HIDE DEF C
<1>. QED BY <1>3, <1>4, <1>9, <1>10

LEMMA CollectedNothing == \A u \in Usages : Collected(<<>>, u) = u
<1>1. <<>> \in EventLists /\ Len(<<>>) = 0
  BY DEF EventLists
<1>. QED BY <1>1, CollectedSteps

LEMMA CollectedNext ==
  ASSUME NEW s \in EventLists, NEW x \in Strings, NEW u \in Usages
  PROVE  Collected(s, u) \in Usages /\ Collected(Append(s, x), u) = Merged(Collected(s, u), x)
<1>. DEFINE d == Append(s, x)
            n == Len(s)
<1>1. d \in EventLists /\ Len(d) = n + 1 /\ n \in Nat /\ d[n + 1] = x /\ \A i \in 1..n : d[i] = s[i]
  BY AppendLast DEF EventLists
<1>. HIDE DEF d, n
<1>2. PICK F \in [0..n -> Usages] :
        /\ Collected(s, u) = F[n]
        /\ \A G : G[0] = u /\ (\A i \in 1..n : G[i - 1] \in Usages => G[i] = Merged(G[i - 1], s[i]))
                    => \A i \in 0..n : G[i] = F[i]
  BY CollectedSteps DEF n
<1>3. PICK G \in [0..(n + 1) -> Usages] :
        /\ G[0] = u /\ \A i \in 1..(n + 1) : G[i] = Merged(G[i - 1], d[i])
        /\ Collected(d, u) = G[n + 1]
  <2>1. \E G \in [0..Len(d) -> Usages] :
          /\ G[0] = u /\ \A i \in 1..Len(d) : G[i] = Merged(G[i - 1], d[i])
          /\ Collected(d, u) = G[Len(d)]
    <3>1. d \in EventLists
      BY <1>1
    <3>. QED BY <3>1, CollectedSteps
  <2>. QED BY <1>1, <2>1
<1>4. \A i \in 1..n : G[i] = Merged(G[i - 1], s[i])
  BY <1>1, <1>3
<1>5. G[n] = F[n]
  BY <1>1, <1>2, <1>3, <1>4
<1>6. G[n + 1] = Merged(G[n], x)
  BY <1>1, <1>3
<1>7. F[n] \in Usages
  BY <1>1, <1>2
<1>. QED BY <1>2, <1>3, <1>5, <1>6, <1>7 DEF d

LEMMA CollectedType == \A s \in EventLists, u \in Usages : Collected(s, u) \in Usages
BY CollectedNext, <<>> \in Strings DEF Strings

LEMMA CollectedInTurn ==
  ASSUME NEW a \in EventLists, NEW b \in EventLists, NEW u \in Usages
  PROVE  Collected(a \o b, u) = Collected(b, Collected(a, u))
<1>. DEFINE S == {t \in EventLists : Collected(a \o t, u) = Collected(t, Collected(a, u))}
<1>1. <<>> \in S
  <2>1. a \o <<>> = a /\ <<>> \in EventLists
    BY ConcatEmptySeq DEF EventLists
  <2>. QED BY <2>1, CollectedNothing, CollectedType
<1>2. ASSUME NEW t \in EventLists, NEW x \in Strings, t \in S PROVE Append(t, x) \in S
  <2>1. a \o Append(t, x) = Append(a \o t, x) /\ a \o t \in EventLists /\ Append(t, x) \in EventLists
    BY AppendConcat DEF EventLists
  <2>2. Collected(a, u) \in Usages
    BY CollectedType
  <2>3. /\ Collected(Append(a \o t, x), u) = Merged(Collected(a \o t, u), x)
        /\ Collected(Append(t, x), Collected(a, u)) = Merged(Collected(t, Collected(a, u)), x)
    BY <2>1, <2>2, CollectedNext
  <2>4. Collected(a \o Append(t, x), u) = Collected(Append(t, x), Collected(a, u))
    BY <1>2, <2>1, <2>3
  <2>. QED BY <2>1, <2>4
<1>3. EventLists \subseteq S
  <2>. HIDE DEF S
  <2>. QED BY <1>1, <1>2, SeqInduction DEF EventLists
<1>. QED BY <1>3

\* The last event of s that holds some k, or 0.
LastWith(s, k) == SelectLastInSeq(s, LAMBDA e : UsageIn(Content(e))[k] # Absent)

LEMMA LastWithIs ==
  ASSUME NEW s \in EventLists, NEW k \in UsageKeys
  PROVE  \/ LastWith(s, k) = 0 /\ \A i \in 1..Len(s) : UsageIn(Content(s[i]))[k] = Absent
         \/ /\ LastWith(s, k) \in 1..Len(s) /\ UsageIn(Content(s[LastWith(s, k)]))[k] # Absent
            /\ \A i \in 1..Len(s) : i > LastWith(s, k) => UsageIn(Content(s[i]))[k] = Absent
<1>. DEFINE I == {i \in 1..Len(s) : UsageIn(Content(s[i]))[k] # Absent}
<1>1. LastWith(s, k) = IF I # {} THEN Max(I) ELSE 0
  BY DEF LastWith, SelectLastInSeq
<1>2. CASE I = {}
  BY <1>1, <1>2
<1>3. CASE I # {}
  <2>1. Len(s) \in Nat
    BY DEF EventLists
  <2>5. Max(I) \in I /\ \A j \in I : Max(I) >= j
    <3>1. I \subseteq 1..Len(s)
      OBVIOUS
    <3>. HIDE DEF I
    <3>. QED BY <1>3, <2>1, <3>1, GreatestAndLeast
  <2>6. PICK l : l = LastWith(s, k)
    OBVIOUS
  <2>7. l \in I /\ \A j \in I : l >= j
    BY <1>1, <1>3, <2>5, <2>6
  <2>8. \A i \in 1..Len(s) : i > l => UsageIn(Content(s[i]))[k] = Absent
    <3>1. SUFFICES ASSUME NEW i \in 1..Len(s), i > l, i \in I PROVE FALSE
      OBVIOUS
    <3>2. l >= i /\ l \in 1..Len(s)
      BY <2>7, <3>1
    <3>. QED BY <2>1, <3>1, <3>2
  <2>. QED BY <2>6, <2>7, <2>8
<1>. QED BY <1>2, <1>3

\* v is what the last event of s that holds any k holds of it.
IsLast(s, k, v) ==
  \/ v = Absent /\ \A i \in 1..Len(s) : UsageIn(Content(s[i]))[k] = Absent
  \/ \E l \in 1..Len(s) :
       /\ UsageIn(Content(s[l]))[k] # Absent /\ v = UsageIn(Content(s[l]))[k]
       /\ \A i \in 1..Len(s) : i > l => UsageIn(Content(s[i]))[k] = Absent

LEMMA CollectedIsLast ==
  ASSUME NEW k \in UsageKeys
  PROVE  \A s \in EventLists : IsLast(s, k, Collected(s, NoUsage)[k])
<1>. DEFINE S == {s \in EventLists : IsLast(s, k, Collected(s, NoUsage)[k])}
<1>1. <<>> \in S
  <2>1. <<>> \in EventLists /\ Len(<<>>) = 0
    BY DEF EventLists
  <2>2. Collected(<<>>, NoUsage)[k] = Absent
    BY CollectedNothing, NoUsageType DEF NoUsage
  <2>. QED BY <2>1, <2>2 DEF IsLast
<1>2. ASSUME NEW t \in EventLists, NEW x \in Strings, t \in S PROVE Append(t, x) \in S
  <2>. DEFINE n == Len(t)
              d == Append(t, x)
              v == UsageIn(Content(x))
  <2>1. d \in EventLists /\ Len(d) = n + 1 /\ n \in Nat /\ d[n + 1] = x /\ \A i \in 1..n : d[i] = t[i]
    BY AppendLast DEF EventLists
  <2>2. PICK c \in Usages : c = Collected(t, NoUsage)
    BY CollectedType, NoUsageType
  <2>3. Collected(d, NoUsage)[k] = IF v[k] # Absent THEN v[k] ELSE c[k]
    BY <2>2, CollectedNext, NoUsageType DEF Merged, MergeUsage
  <2>4. IsLast(t, k, c[k])
    BY <1>2, <2>2
  <2>. HIDE DEF d, n
  <2>5. UsageIn(Content(d[n + 1])) = v
    BY <2>1
  <2>. HIDE DEF v
  <2>6. CASE v[k] # Absent
    <3>1. Collected(d, NoUsage)[k] = v[k] /\ n + 1 \in 1..Len(d)
      BY <2>1, <2>3, <2>6
    <3>2. \A i \in 1..Len(d) : ~(i > n + 1)
      BY <2>1
    <3>3. IsLast(d, k, v[k])
      BY <2>5, <2>6, <3>1, <3>2 DEF IsLast
    <3>. QED BY <2>1, <3>1, <3>3 DEF d
  <2>7. CASE v[k] = Absent
    <3>1. Collected(d, NoUsage)[k] = c[k]
      BY <2>3, <2>7
    <3>2. \A i \in 1..Len(d) : i \in 1..n \/ i = n + 1
      BY <2>1
    <3>3. 1..n \subseteq 1..Len(d)
      BY <2>1
    <3>4. \A i \in 1..n : UsageIn(Content(d[i])) = UsageIn(Content(t[i]))
      BY <2>1
    <3>5. CASE c[k] = Absent /\ \A i \in 1..n : UsageIn(Content(t[i]))[k] = Absent
      <4>1. \A i \in 1..Len(d) : UsageIn(Content(d[i]))[k] = Absent
        BY <2>5, <2>7, <3>2, <3>4, <3>5
      <4>. QED BY <2>1, <3>1, <3>5, <4>1 DEF IsLast, d
    <3>6. ASSUME NEW l \in 1..n, UsageIn(Content(t[l]))[k] # Absent, c[k] = UsageIn(Content(t[l]))[k],
                 \A i \in 1..n : i > l => UsageIn(Content(t[i]))[k] = Absent
          PROVE  d \in S
      <4>1. l \in 1..Len(d) /\ UsageIn(Content(d[l]))[k] # Absent /\ c[k] = UsageIn(Content(d[l]))[k]
        BY <3>3, <3>4, <3>6
      <4>2. \A i \in 1..Len(d) : i > l => UsageIn(Content(d[i]))[k] = Absent
        BY <2>5, <2>7, <3>2, <3>4, <3>6
      <4>. QED BY <2>1, <3>1, <4>1, <4>2 DEF IsLast
    <3>. QED BY <2>4, <3>5, <3>6 DEF IsLast, n, d
  <2>. QED BY <2>6, <2>7
<1>3. EventLists \subseteq S
  <2>. HIDE DEF S
  <2>. QED BY <1>1, <1>2, SeqInduction DEF EventLists
<1>. QED BY <1>3

\* What is collected is, of each number, the last that an event holds.
LEMMA CollectedLast ==
  ASSUME NEW s \in EventLists, NEW k \in UsageKeys
  PROVE  Collected(s, NoUsage)[k]
           = IF LastWith(s, k) = 0 THEN Absent ELSE UsageIn(Content(s[LastWith(s, k)]))[k]
<1>1. PICK l : l = LastWith(s, k)
  OBVIOUS
<1>2. PICK v : v = Collected(s, NoUsage)[k]
  OBVIOUS
<1>3. Len(s) \in Nat
  BY DEF EventLists
<1>4. IsLast(s, k, v)
  BY <1>2, CollectedIsLast
<1>5. \/ l = 0 /\ \A i \in 1..Len(s) : UsageIn(Content(s[i]))[k] = Absent
      \/ /\ l \in 1..Len(s) /\ UsageIn(Content(s[l]))[k] # Absent
         /\ \A i \in 1..Len(s) : i > l => UsageIn(Content(s[i]))[k] = Absent
  BY <1>1, LastWithIs
<1>6. v = IF l = 0 THEN Absent ELSE UsageIn(Content(s[l]))[k]
  BY <1>3, <1>4, <1>5 DEF IsLast
<1>. QED BY <1>1, <1>2, <1>6

-----------------------------------------------------------------------------
(***************************************************************************)
(* The whole of a body.                                                    *)
(***************************************************************************)
LEMMA EveryIs ==
  ASSUME NEW b \in Strings
  PROVE  /\ Every(b) \in EventLists
         /\ Forwarded(Every(b)) = Joined(Forwarded(Split(b).events), Sent(Split(b).rest))
         /\ Collected(Every(b), NoUsage) = Merged(Collected(Split(b).events, NoUsage), Split(b).rest)
<1>1. PICK e \in EventLists, r \in Strings : e = Split(b).events /\ r = Split(b).rest
  BY SplitType DEF Splits
<1>2. Every(b) = Append(e, r)
  BY <1>1 DEF Every
<1>3. Append(e, r) \in EventLists
  BY DEF EventLists
<1>4. Forwarded(Append(e, r)) = Joined(Forwarded(e), Sent(r))
  BY ForwardedNext
<1>5. Collected(Append(e, r), NoUsage) = Merged(Collected(e, NoUsage), r)
  BY CollectedNext, NoUsageType
<1>. QED BY <1>1, <1>2, <1>3, <1>4, <1>5

LEMMA WantedIs ==
  ASSUME NEW b \in Strings
  PROVE  Wanted(b) = (IF Filters /\ ~Buffers THEN Forwarded(Every(b)) ELSE b) /\ Wanted(b) \in Strings
<1>1. Wanted(b) = IF Filters /\ ~Buffers THEN Forwarded(Every(b)) ELSE b
  BY DEF Wanted, Forwarded
<1>2. Forwarded(Every(b)) \in Strings
  BY EveryIs, ForwardedType
<1>. QED BY <1>1, <1>2

LEMMA PrefixOfJoined ==
  ASSUME NEW a \in Strings, NEW b \in Strings
  PROVE  IsPrefix(a, Joined(a, b)) /\ IsPrefix(<<>>, a)
BY DEF IsPrefix, Joined, Strings

LEMMA Reading ==
  ASSUME NEW b \in Strings, NEW g \in Nat, NEW n \in Nat, g + n <= Len(b)
  PROVE  /\ SubSeq(b, 1, g) \in Strings /\ SubSeq(b, g + 1, g + n) \in Strings
         /\ SubSeq(b, 1, g + n) = SubSeq(b, 1, g) \o SubSeq(b, g + 1, g + n)
         /\ SubSeq(b, 1, 0) = <<>> /\ SubSeq(b, 1, Len(b)) = b
BY DEF Strings

LEMMA SecondPart ==
  ASSUME NEW a \in Strings, NEW b \in Strings
  PROVE  SubSeq(a \o b, Len(a) + 1, Len(a \o b)) = b
BY DEF Strings

-----------------------------------------------------------------------------
(***************************************************************************)
(* One answer on its way.                                                  *)
(***************************************************************************)
Read == SubSeq(answer.body, 1, got)

\* What was read is split, counted and passed on as if it had come in one piece.
OnItsWay ==
  /\ pending = Split(Read).rest
  /\ usage = Collected(Split(Read).events, NoUsage)
  /\ client = IF Filters THEN Forwarded(Split(Read).events) ELSE Read
  /\ Buffers => got = 0

NothingYet == got = 0 /\ pending = <<>> /\ usage = NoUsage /\ client = <<>>

Finished ==
  \/ reply = "proxy" /\ client = <<>>
  \/ reply = "upstream" /\ answer.body = <<>> /\ client = <<>>
  \/ reply = "upstream" /\ Buffers /\ client = answer.body
  \/ /\ reply = "upstream" /\ ~Buffers /\ client = Wanted(answer.body)
     /\ stats = <<[success |-> answer.ok, usage |-> Collected(Every(answer.body), NoUsage)]>>

StreamInv ==
  /\ answer \in Answers
  /\ got \in Nat /\ got <= Len(answer.body)
  /\ phase \in {"begin", "models", "recheck", "fetch", "estimate", "pipe", "caught", "broken", "over"}
  /\ phase \in {"begin", "models", "recheck", "fetch", "estimate"} => NothingYet
  /\ phase \in {"begin", "models", "recheck", "fetch", "estimate", "pipe"} => stats = <<>>
  /\ phase \in {"pipe", "caught", "broken"} => OnItsWay
  /\ phase = "over" => Finished

LEMMA BodyType == StreamInv => answer.body \in Strings /\ Len(answer.body) \in Nat /\ Read \in Strings
BY AnswersAssumption DEF StreamInv, Strings, Read

\* At first nothing is under way.
LEMMA Beginning ==
  ASSUME StreamInv, NothingYet
  PROVE  OnItsWay
<1>1. Read = <<>> /\ got = 0
  BY BodyType, Reading DEF Read, NothingYet
<1>2. Split(<<>>).rest = <<>> /\ Split(<<>>).events = <<>>
  BY SplitNothing, UnreadType
<1>3. Collected(<<>>, NoUsage) = NoUsage
  BY CollectedNothing, NoUsageType
<1>. QED BY <1>1, <1>2, <1>3, ForwardedNothing DEF OnItsWay, NothingYet

LEMMA PieceKeeps ==
  ASSUME StreamInv, NEW n \in 1..Len(answer.body), ReadPiece(n)
  PROVE  OnItsWay' /\ got' \in Nat /\ got' <= Len(answer.body)
<1>. DEFINE p == SubSeq(answer.body, got + 1, got + n)
<1>1. answer.body \in Strings /\ Read \in Strings /\ Len(answer.body) \in Nat
  BY BodyType
<1>2. phase = "pipe" /\ ~Buffers /\ OnItsWay /\ got \in Nat /\ n \in Nat /\ got + n <= Len(answer.body)
  BY DEF StreamInv, ReadPiece, Streams
<1>3. answer' = answer /\ call' = call /\ got' = got + n
  BY DEF ReadPiece, input
<1>4. p \in Strings /\ Read' = Read \o p
  BY <1>1, <1>2, <1>3, Reading DEF Read
<1>5. (Filters' <=> Filters) /\ (Buffers' <=> Buffers)
  BY <1>3 DEF Filters, Buffers, Optimized
<1>6. PassOn(pending \o p)
  BY DEF ReadPiece
<1>. HIDE DEF p
<1>7. PICK r, e : r = Split(Read).rest /\ e = Split(Read).events
  OBVIOUS
<1>8. r \in Strings /\ e \in EventLists
  BY <1>1, <1>7, SplitType DEF Splits
<1>9. pending = r
  BY <1>2, <1>7 DEF OnItsWay
<1>10. PICK b : b = r \o p
  OBVIOUS
<1>11. b \in Strings
  BY <1>4, <1>8, <1>10, ConcatProperties DEF Strings
<1>12. PICK tr, te : tr = Split(b).rest /\ te = Split(b).events
  OBVIOUS
<1>13. te \in EventLists
  BY <1>11, <1>12, SplitType DEF Splits
<1>14. Split(Read \o p).events = e \o te /\ Split(Read \o p).rest = tr
  BY <1>1, <1>4, <1>7, <1>10, <1>12, SplitInPieces
<1>15. /\ pending' = tr
       /\ usage' = Collected(te, usage)
       /\ client' = client \o (IF Filters THEN Forwarded(te) ELSE SubSeq(b, Len(r) + 1, Len(b)))
  BY <1>6, <1>9, <1>10, <1>12 DEF PassOn
<1>16. pending' = Split(Read').rest
  BY <1>4, <1>14, <1>15
<1>17. usage' = Collected(Split(Read').events, NoUsage)
  BY <1>2, <1>4, <1>7, <1>8, <1>13, <1>14, <1>15, CollectedInTurn, NoUsageType DEF OnItsWay
<1>18. CASE Filters
  <2>1. client = Forwarded(e) /\ client' = client \o Forwarded(te)
    BY <1>2, <1>7, <1>15, <1>18 DEF OnItsWay
  <2>2. Forwarded(e \o te) = Forwarded(e) \o Forwarded(te)
    BY <1>8, <1>13, ForwardedInTurn DEF Joined
  <2>3. client' = Forwarded(Split(Read').events)
    BY <1>4, <1>14, <2>1, <2>2
  <2>. QED BY <1>2, <1>3, <1>5, <1>16, <1>17, <1>18, <2>3 DEF OnItsWay
<1>19. CASE ~Filters
  <2>1. client = Read /\ SubSeq(b, Len(r) + 1, Len(b)) = p
    BY <1>2, <1>4, <1>8, <1>10, <1>19, SecondPart DEF OnItsWay
  <2>2. client' = Read'
    BY <1>4, <1>15, <1>19, <2>1
  <2>. QED BY <1>2, <1>3, <1>5, <1>16, <1>17, <1>19, <2>2 DEF OnItsWay
<1>20. got' \in Nat /\ got' <= Len(answer.body)
  BY <1>2, <1>3
<1>. QED BY <1>18, <1>19, <1>20

LEMMA EndKeeps ==
  ASSUME StreamInv, EndOfStream
  PROVE  Finished'
<1>. DEFINE body == answer.body
<1>1. body \in Strings /\ Len(body) \in Nat
  BY BodyType
<1>2. /\ phase = "pipe" /\ ~Buffers /\ got = Len(body) /\ OnItsWay /\ stats = <<>>
      /\ answer' = answer /\ call' = call
      /\ client' = client \o Remainder.written /\ usage' = Remainder.counted
      /\ stats' = Append(stats, [success |-> answer.ok, usage |-> usage']) /\ reply' = "upstream"
  BY DEF StreamInv, EndOfStream, Streams, Counts, Replies, input
<1>3. Read = body
  BY <1>1, <1>2, Reading DEF Read
<1>4. PICK r, e : r = Split(body).rest /\ e = Split(body).events
  OBVIOUS
<1>5. r \in Strings /\ e \in EventLists
  BY <1>1, <1>4, SplitType DEF Splits
<1>6. pending = r /\ usage = Collected(e, NoUsage)
  BY <1>2, <1>3, <1>4 DEF OnItsWay
<1>7. usage' = Collected(Every(body), NoUsage)
  BY <1>1, <1>2, <1>4, <1>6, EveryIs DEF Remainder, Merged
<1>8. (Filters' <=> Filters) /\ (Buffers' <=> Buffers)
  BY <1>2 DEF Filters, Buffers, Optimized
<1>9. client' = IF Filters THEN Forwarded(Every(body)) ELSE body
  <2>1. CASE Filters
    <3>1. client = Forwarded(e) /\ Remainder.written = Sent(r)
      BY <1>2, <1>3, <1>4, <1>6, <2>1 DEF OnItsWay, Remainder, Sent
    <3>2. Forwarded(Every(body)) = Forwarded(e) \o Sent(r)
      BY <1>1, <1>4, EveryIs DEF Joined
    <3>. QED BY <1>2, <2>1, <3>1, <3>2
  <2>2. CASE ~Filters
    <3>1. client = body /\ Remainder.written = <<>>
      BY <1>2, <1>3, <2>2 DEF OnItsWay, Remainder
    <3>2. body \o <<>> = body
      BY <1>1, ConcatEmptySeq DEF Strings
    <3>. QED BY <1>2, <2>2, <3>1, <3>2
  <2>. QED BY <2>1, <2>2
<1>10. Wanted(body)' = IF Filters THEN Forwarded(Every(body)) ELSE body
  <2>1. Wanted(body) = IF Filters THEN Forwarded(Every(body)) ELSE body
    BY <1>1, <1>2, WantedIs
  <2>2. Wanted(body)' = Wanted(body)
    BY <1>2, <1>8 DEF Wanted
  <2>. QED BY <2>1, <2>2
<1>11. stats' = <<[success |-> answer.ok, usage |-> usage']>>
  BY <1>2
<1>. QED BY <1>2, <1>7, <1>8, <1>9, <1>10, <1>11 DEF Finished

LEMMA NothingRead ==
  ASSUME UNCHANGED <<input, reader>>
  PROVE  /\ answer' = answer /\ got' = got /\ client' = client
         /\ (OnItsWay' <=> OnItsWay) /\ (NothingYet' <=> NothingYet) /\ (Buffers' <=> Buffers)
<1>1. call' = call /\ answer' = answer /\ got' = got /\ pending' = pending /\ usage' = usage /\ client' = client
  BY DEF input, reader
<1>2. (Filters' <=> Filters) /\ (Buffers' <=> Buffers) /\ Read' = Read
  BY <1>1 DEF Filters, Buffers, Optimized, Read
<1>. QED BY <1>1, <1>2 DEF OnItsWay, NothingYet

LEMMA StreamInvInit == StreamInit => StreamInv
<1>. SUFFICES ASSUME StreamInit PROVE StreamInv
  OBVIOUS
<1>1. answer \in Answers /\ phase = "begin" /\ stats = <<>> /\ got = 0 /\ NothingYet
  BY DEF StreamInit, NothingYet
<1>2. Len(answer.body) \in Nat
  BY <1>1, AnswersAssumption
<1>. QED BY <1>1, <1>2 DEF StreamInv

LEMMA StreamInvStep == StreamInv /\ [StreamNext]_streamVars => StreamInv'
<1>. SUFFICES ASSUME StreamInv, [StreamNext]_streamVars PROVE StreamInv'
  OBVIOUS
<1>1. ASSUME UNCHANGED <<input, reader>>, phase \in {"begin", "models", "recheck", "fetch"},
             phase' = "over", reply' = "proxy"
      PROVE  StreamInv'
  <2>1. answer' = answer /\ got' = got /\ client' = <<>>
    BY <1>1, NothingRead DEF StreamInv, NothingYet
  <2>. QED BY <1>1, <2>1 DEF StreamInv, Finished
<1>2. CASE RefuseBody
  BY <1>1, <1>2 DEF RefuseBody, Replies, Proceeds
<1>3. CASE RequireModel \/ PreflightError \/ ModelRefused \/ FetchFails
  BY <1>1, <1>3 DEF RequireModel, PreflightError, ModelRefused, FetchFails, Thrown, Replies, Proceeds
<1>4. CASE Authenticate \/ ModelListed \/ RecheckModels
  <2>1. CASE Authenticate /\ Thrown
    BY <1>1, <2>1 DEF Authenticate, Thrown, Replies, Proceeds
  <2>2. CASE ~(Authenticate /\ Thrown)
    <3>1. /\ UNCHANGED <<input, reader>> /\ phase' \in {"models", "recheck", "fetch"} /\ stats' = stats
          /\ phase \in {"begin", "models", "recheck"}
      BY <1>4, <2>2 DEF Authenticate, ModelListed, RecheckModels, Proceeds
    <3>. QED BY <3>1, NothingRead DEF StreamInv
  <2>. QED BY <2>1, <2>2
<1>5. CASE Answered
  <2>1. UNCHANGED <<input, reader>> /\ phase' \in {"estimate", "pipe"} /\ stats' = stats /\ phase = "fetch"
    BY <1>5 DEF Answered, Proceeds
  <2>2. NothingYet /\ OnItsWay
    BY <2>1, Beginning DEF StreamInv
  <2>. QED BY <2>1, <2>2, NothingRead DEF StreamInv
<1>6. CASE EstimateTokens
  <2>1. UNCHANGED <<input, reader>> /\ phase' = "over" /\ reply' = "proxy" /\ phase = "estimate"
    BY <1>6 DEF EstimateTokens, Proceeds, Replies
  <2>2. answer' = answer /\ got' = got /\ client' = <<>>
    BY <2>1, NothingRead DEF StreamInv, NothingYet
  <2>. QED BY <2>1, <2>2 DEF StreamInv, Finished
<1>7. CASE NoBody
  <2>1. UNCHANGED <<input, reader>> /\ phase' = "over" /\ reply' = "upstream" /\ phase = "pipe" /\ answer.body = <<>>
    BY <1>7 DEF NoBody, Proceeds, Replies
  <2>2. answer' = answer /\ got' = got /\ client' = client /\ OnItsWay
    BY <2>1, NothingRead DEF StreamInv
  <2>3. client = <<>>
    <3>1. Read = <<>>
      BY <2>1, BodyType, Reading DEF StreamInv, Read
    <3>2. Split(Read).events = <<>>
      BY <3>1, SplitNothing, UnreadType
    <3>. QED BY <2>2, <3>1, <3>2, ForwardedNothing DEF OnItsWay
  <2>. QED BY <2>1, <2>2, <2>3 DEF StreamInv, Finished
<1>8. CASE ReadBuffered
  <2>1. /\ call' = call /\ answer' = answer /\ got' = Len(answer.body) /\ client' = answer.body
        /\ phase' = "over" /\ reply' = "upstream" /\ Buffers
    BY <1>8 DEF ReadBuffered, Proceeds, Replies, input
  <2>2. Buffers'
    BY <2>1 DEF Buffers, Optimized
  <2>3. Len(answer.body) \in Nat
    BY BodyType
  <2>. QED BY <2>1, <2>2, <2>3 DEF StreamInv, Finished
<1>9. CASE EndOfStream
  <2>1. answer' = answer /\ got' = got /\ phase' = "over"
    BY <1>9 DEF EndOfStream, Proceeds, input
  <2>. QED BY <1>9, <2>1, EndKeeps DEF StreamInv
<1>10. CASE ReadFails
  <2>1. UNCHANGED <<input, reader>> /\ phase = "pipe" /\ phase' = "caught"
    BY <1>10 DEF ReadFails, Proceeds
  <2>. QED BY <2>1, NothingRead DEF StreamInv
<1>11. CASE Catch
  <2>1. UNCHANGED <<input, reader>> /\ phase = "caught" /\ phase' = "broken"
    BY <1>11 DEF Catch, Proceeds
  <2>. QED BY <2>1, NothingRead DEF StreamInv
<1>12. CASE \E n \in 1..Len(answer.body) : ReadPiece(n)
  <2>1. PICK n \in 1..Len(answer.body) : ReadPiece(n)
    BY <1>12
  <2>2. answer' = answer /\ phase' = "pipe" /\ stats' = stats /\ phase = "pipe"
    BY <2>1 DEF ReadPiece, Streams, input
  <2>. QED BY <2>1, <2>2, PieceKeeps DEF StreamInv
<1>13. CASE UNCHANGED streamVars
  <2>1. UNCHANGED <<input, reader>> /\ phase' = phase /\ stats' = stats /\ reply' = reply /\ call' = call
    BY <1>13 DEF streamVars, input, reader
  <2>2. Wanted(answer.body)' = Wanted(answer.body) /\ (Finished' <=> Finished)
    BY <2>1, NothingRead DEF Wanted, Filters, Buffers, Optimized, Finished
  <2>. QED BY <2>1, <2>2, NothingRead DEF StreamInv
<1>. QED BY <1>2, <1>3, <1>4, <1>5, <1>6, <1>7, <1>8, <1>9, <1>10, <1>11, <1>12, <1>13 DEF StreamNext

\* However an answer is cut, it is split, counted and passed on as if it had come whole.
THEOREM StreamInvariance == StreamSpec => []StreamInv
<1>. QED BY StreamInvInit, StreamInvStep, PTL DEF StreamSpec

LEMMA PassedOnIsWanted ==
  ASSUME StreamInv, OnItsWay
  PROVE  IsPrefix(client, Wanted(answer.body))
<1>. DEFINE body == answer.body
            q == SubSeq(body, got + 1, Len(body))
<1>1. body \in Strings /\ got \in Nat /\ got <= Len(body) /\ Len(body) \in Nat /\ Read \in Strings
  BY BodyType DEF StreamInv
<1>2. q \in Strings /\ body = Read \o q
  <2>1. Len(body) - got \in Nat /\ got + (Len(body) - got) = Len(body)
    BY <1>1
  <2>2. PICK n \in Nat : got + n = Len(body)
    BY <2>1
  <2>3. /\ SubSeq(body, got + 1, got + n) \in Strings
        /\ SubSeq(body, 1, got + n) = SubSeq(body, 1, got) \o SubSeq(body, got + 1, got + n)
        /\ SubSeq(body, 1, Len(body)) = body
    <3>1. got + n <= Len(body) /\ body \in Strings /\ got \in Nat
      BY <1>1, <2>2
    <3>. HIDE DEF body
    <3>. QED BY <3>1, Reading
  <2>. QED BY <2>2, <2>3 DEF Read
<1>. HIDE DEF q
<1>3. PICK r, e : r = Split(Read).rest /\ e = Split(Read).events
  OBVIOUS
<1>4. r \in Strings /\ e \in EventLists
  BY <1>1, <1>3, SplitType DEF Splits
<1>5. CASE Buffers
  <2>1. Read = <<>>
    BY <1>1, <1>5, Reading DEF OnItsWay, Read
  <2>2. client = <<>>
    BY <2>1, SplitNothing, UnreadType, ForwardedNothing DEF OnItsWay
  <2>. QED BY <1>1, <2>2, WantedIs, PrefixOfJoined
<1>6. CASE ~Buffers /\ ~Filters
  BY <1>1, <1>2, <1>6, WantedIs, PrefixOfJoined DEF OnItsWay, Joined
<1>7. CASE ~Buffers /\ Filters
  <2>1. PICK te \in EventLists : Split(Read \o q).events = e \o te
    BY <1>1, <1>2, <1>3, SplitInPieces
  <2>2. PICK tr \in Strings : tr = Split(body).rest
    BY <1>1, SplitType DEF Splits
  <2>3. Wanted(body) = Joined(Forwarded(e \o te), Sent(tr))
    BY <1>1, <1>2, <1>7, <2>1, <2>2, WantedIs, EveryIs
  <2>4. Forwarded(e \o te) = Joined(Forwarded(e), Forwarded(te))
    BY <1>4, ForwardedInTurn
  <2>5. Forwarded(e) \in Strings /\ Forwarded(te) \in Strings /\ Sent(tr) \in Strings
    BY <1>4, ForwardedType, SentType
  <2>6. Wanted(body) = Joined(Forwarded(e), Joined(Forwarded(te), Sent(tr)))
    BY <2>3, <2>4, <2>5, StringsJoin
  <2>7. Joined(Forwarded(te), Sent(tr)) \in Strings
    BY <2>5, StringsJoin
  <2>. QED BY <1>3, <1>7, <2>5, <2>6, <2>7, PrefixOfJoined DEF OnItsWay
<1>. QED BY <1>5, <1>6, <1>7

LEMMA WholeIsWanted ==
  ASSUME StreamInv, phase = "over", reply = "upstream"
  PROVE  client = Wanted(answer.body)
<1>. DEFINE body == answer.body
<1>1. body \in Strings
  BY BodyType
<1>2. CASE Buffers /\ client = body
  BY <1>1, <1>2, WantedIs
<1>3. CASE body = <<>> /\ client = <<>>
  <2>1. Split(<<>>).events = <<>> /\ Split(<<>>).rest = <<>> /\ <<>> \in Strings
    BY SplitNothing, UnreadType DEF Strings
  <2>2. Forwarded(Every(<<>>)) = Joined(<<>>, Sent(<<>>)) /\ Sent(<<>>) = <<>>
    BY <2>1, EveryIs, ForwardedNothing DEF Sent
  <2>3. Forwarded(Every(<<>>)) = <<>>
    BY <2>1, <2>2, StringsJoin
  <2>. QED BY <1>3, <2>1, <2>3, WantedIs
<1>. QED BY <1>2, <1>3 DEF StreamInv, Finished

\* Wherever the pieces of an answer end, what the client gets is a beginning of what it is
\* to get, and all of it where the answer goes out whole.
THEOREM Delivered == StreamSpec => []DeliveredExactly
<1>1. StreamInv => DeliveredExactly
  <2>. SUFFICES ASSUME StreamInv PROVE DeliveredExactly
    OBVIOUS
  <2>. DEFINE body == answer.body
  <2>1. body \in Strings /\ Wanted(body) \in Strings
    BY BodyType, WantedIs
  <2>2. CASE phase \in {"pipe", "caught", "broken"}
    BY <2>2, PassedOnIsWanted DEF StreamInv, DeliveredExactly, Whole
  <2>3. CASE phase = "over" /\ reply = "upstream"
    <3>1. client = Wanted(body)
      BY <2>3, WholeIsWanted
    <3>2. Joined(client, <<>>) = client /\ <<>> \in Strings
      BY <2>1, <3>1, StringsJoin DEF Strings
    <3>3. IsPrefix(client, client)
      BY <2>1, <3>1, <3>2, PrefixOfJoined
    <3>. QED BY <3>1, <3>3 DEF DeliveredExactly
  <2>4. CASE phase = "over" /\ reply # "upstream"
    <3>1. client = <<>>
      BY <2>4 DEF StreamInv, Finished
    <3>. QED BY <2>1, <2>4, <3>1, PrefixOfJoined DEF DeliveredExactly, Whole
  <2>5. CASE phase \in {"begin", "models", "recheck", "fetch", "estimate"}
    <3>1. client = <<>>
      BY <2>5 DEF StreamInv, NothingYet
    <3>. QED BY <2>1, <2>5, <3>1, PrefixOfJoined DEF DeliveredExactly, Whole
  <2>. QED BY <2>2, <2>3, <2>4, <2>5 DEF StreamInv
<1>. QED BY <1>1, StreamInvariance, PTL

\* Wherever the pieces of an answer end, the usage that is recorded of an answer that went
\* out whole is what its last events hold of it.
THEOREM UsageOfTheWhole == StreamSpec => []UsageIsWhole
<1>1. StreamInv => UsageIsWhole
  <2>. SUFFICES ASSUME StreamInv, Whole, ~Buffers, answer.body # <<>>, NEW k \in UsageKeys
                PROVE  stats[1].usage[k] = IF LastWith(Every(answer.body), k) = 0 THEN Absent
                         ELSE UsageIn(Content(Every(answer.body)[LastWith(Every(answer.body), k)]))[k]
    BY DEF UsageIsWhole, LastWith
  <2>1. stats[1].usage = Collected(Every(answer.body), NoUsage)
    BY DEF StreamInv, Finished, Whole
  <2>2. Every(answer.body) \in EventLists
    BY BodyType, EveryIs
  <2>. QED BY <2>1, <2>2, CollectedLast
<1>. QED BY <1>1, StreamInvariance, PTL

-----------------------------------------------------------------------------
(***************************************************************************)
(* The parameters.                                                         *)
(***************************************************************************)
TakesThinking(body) ==
  /\ Profile(body.model).thinking = "enabled-only" => body.thinking.type # "adaptive"
  /\ Profile(body.model).thinking = "adaptive-only" => body.thinking.type # "enabled"
TakesEffort(body) == body.effort \in Profile(body.model).efforts \cup {"none"}

BudgetFits(body) == body.thinking.type = "enabled" /\ body.thinking.budget > 0 =>
  /\ body.thinking.budget <= MaxThinkingBudget
  /\ body.max_tokens > 0 => body.thinking.budget < body.max_tokens
NotForced(body) == Thinks(body) => body.tool_choice \notin {"any", "tool"}

Fits(body) == TakesThinking(body) /\ TakesEffort(body) /\ BudgetFits(body) /\ NotForced(body)

\* Of two requests, that they are the same but for the conversation and the tools.
SameParameters(a, b) ==
  /\ a.model = b.model /\ a.thinking = b.thinking /\ a.effort = b.effort
  /\ a.max_tokens = b.max_tokens /\ a.tool_choice = b.tool_choice

LEMMA EffortFits == ASSUME NEW b, IsRequest(b)
  PROVE LET r == ApplyEffortPolicy(b)
        IN /\ IsRequest(r) /\ TakesEffort(r) /\ r.model = b.model /\ r.thinking = b.thinking
           /\ r.max_tokens = b.max_tokens /\ r.tool_choice = b.tool_choice
BY DEF ApplyEffortPolicy, IsRequest, RequestFields, TakesEffort

LEMMA BudgetIsNat == ASSUME NEW b, IsRequest(b) PROVE ExplicitThinkingBudget(b) \in Nat
BY DEF ExplicitThinkingBudget, Least, IsRequest, ThinkingModes

LEMMA ThinkingFits == ASSUME NEW b, IsRequest(b)
  PROVE LET r == ApplyThinkingPolicy(b)
        IN IsRequest(r) /\ TakesThinking(r) /\ r.model = b.model
BY BudgetIsNat DEF ApplyThinkingPolicy, IsRequest, RequestFields, ThinkingModes, NoThinking, TakesThinking

LEMMA BudgetIsCapped == ASSUME NEW b, IsRequest(b), TakesThinking(b), TakesEffort(b)
  PROVE LET r == CapThinkingBudget(b)
        IN IsRequest(r) /\ TakesThinking(r) /\ TakesEffort(r) /\ BudgetFits(r) /\ r.model = b.model
BY DEF CapThinkingBudget, IsRequest, RequestFields, ThinkingModes, NoThinking, TakesThinking, TakesEffort, BudgetFits,
     Least, MaxThinkingBudget

LEMMA ChoiceIsFree == ASSUME NEW b, IsRequest(b), TakesThinking(b), TakesEffort(b), BudgetFits(b)
  PROVE LET r == DisableForcedToolChoice(b) IN IsRequest(r) /\ Fits(r)
BY DEF DisableForcedToolChoice, IsRequest, RequestFields, ThinkingModes, Thinks, TakesThinking, TakesEffort, BudgetFits,
     NotForced, Fits

LEMMA ProfileFits == ASSUME NEW b, IsRequest(b) PROVE IsRequest(ApplyModelProfile(b)) /\ Fits(ApplyModelProfile(b))
<1>. DEFINE b1 == ApplyEffortPolicy(b)  b2 == ApplyThinkingPolicy(b1)  b3 == ApplyEffortPolicy(b2)
            b4 == CapThinkingBudget(b3)
<1>1. IsRequest(b1)
  BY EffortFits
<1>2. IsRequest(b2) /\ TakesThinking(b2)
  BY <1>1, ThinkingFits
<1>3. IsRequest(b3) /\ TakesEffort(b3) /\ b3.model = b2.model /\ b3.thinking = b2.thinking
  BY <1>2, EffortFits
<1>4. TakesThinking(b3)
  BY <1>2, <1>3 DEF TakesThinking
<1>5. IsRequest(b4) /\ TakesThinking(b4) /\ TakesEffort(b4) /\ BudgetFits(b4)
  BY <1>3, <1>4, BudgetIsCapped
<1>. QED BY <1>5, ChoiceIsFree DEF ApplyModelProfile

\* A step that only touches the conversation, or the tools.
LEMMA FitsStill == ASSUME NEW a, NEW b, IsRequest(a), DOMAIN b = DOMAIN a, SameParameters(a, b)
  PROVE IsRequest(b) /\ (Fits(a) => Fits(b))
BY DEF SameParameters, IsRequest, Fits, TakesThinking, TakesEffort, BudgetFits, NotForced, Thinks

LEMMA MessagesOnly == ASSUME NEW a, IsRequest(a), NEW messages
  PROVE LET b == [a EXCEPT !.messages = messages] IN IsRequest(b) /\ (Fits(a) => Fits(b))
<1>. DEFINE b == [a EXCEPT !.messages = messages]
<1>1. DOMAIN b = DOMAIN a /\ SameParameters(a, b)
  BY DEF IsRequest, RequestFields, SameParameters
<1>. QED BY <1>1, FitsStill

\* Whatever the request: what it is prepared to has parameters that its model takes.
LEMMA PreparedFits == ASSUME NEW b, IsRequest(b) PROVE Fits(Preprocess(b))
<1>. DEFINE b1 == NormalizeModel(b)  b2 == StripVolatileCurrentDate(b1)  b3 == ApplyModelProfile(b2)
            b4 == FilterInvalidAssistantThinkingBlocks(b3)  b5 == SanitizeTools(b4)
            b6 == MergeToolResultTextBlocks(b5)  b7 == StripToolReferenceTurnBoundary(b6)
            b8 == RewriteMidConversationSystem(b7)
<1>1. IsRequest(b1)
  BY DEF NormalizeModel, IsRequest, RequestFields
<1>2. IsRequest(b2)
  BY <1>1, MessagesOnly DEF StripVolatileCurrentDate, OnMessages
<1>3. IsRequest(b3) /\ Fits(b3)
  BY <1>2, ProfileFits
<1>4. IsRequest(b4) /\ Fits(b4)
  BY <1>3, MessagesOnly DEF FilterInvalidAssistantThinkingBlocks, OnMessages
<1>5. IsRequest(b5) /\ Fits(b5)
  <2>1. DOMAIN b5 = DOMAIN b4 /\ SameParameters(b4, b5)
    BY <1>4 DEF SanitizeTools, IsRequest, RequestFields, SameParameters
  <2>. QED BY <1>4, <2>1, FitsStill
<1>6. IsRequest(b6) /\ Fits(b6)
  BY <1>5, MessagesOnly DEF MergeToolResultTextBlocks, OnMessages
<1>7. IsRequest(b7) /\ Fits(b7)
  BY <1>6, MessagesOnly DEF StripToolReferenceTurnBoundary
<1>8. IsRequest(b8) /\ Fits(b8)
  BY <1>7, MessagesOnly DEF RewriteMidConversationSystem
<1>9. Fits(FixTrailingAssistant(b8))
  BY <1>8, MessagesOnly DEF FixTrailingAssistant
<1>. QED BY <1>9 DEF Preprocess

\* The headers follow from the parameters.
LEMMA BetasFollow == ASSUME NEW b, NEW counting \in BOOLEAN
  PROVE /\ Profile(b.model).strip1m => "context-1m" \notin Betas(b, counting)
        /\ Thinks(b) /\ b.thinking.type = "enabled" /\ Profile(b.model).thinking = "enabled-only" =>
             "interleaved-thinking" \in Betas(b, counting)
BY DEF Betas, Thinks

-----------------------------------------------------------------------------
(***************************************************************************)
(* The conversation.                                                       *)
(***************************************************************************)
LEMMA BlockTypes ==
  \A b \in Blocks : /\ IsText(b) => b \in Texts
                    /\ IsResult(b) => b \in Results
BY DEF Blocks, IsText, IsResult, Texts, Results, Thinking, ToolUse

LEMMA Selected ==
  ASSUME NEW S, NEW s \in Seq(S), NEW K
  PROVE  FlattenSeq([i \in DOMAIN s |-> IF s[i] \in K THEN <<s[i]>> ELSE <<>>]) \in Seq(S \cap K)
<1>. DEFINE f == [i \in DOMAIN s |-> IF s[i] \in K THEN <<s[i]>> ELSE <<>>]
<1>1. DOMAIN s = 1..Len(s) /\ Len(s) \in Nat /\ \A i \in 1..Len(s) : s[i] \in S
  OBVIOUS
<1>2. ASSUME NEW i \in 1..Len(s) PROVE f[i] \in Seq(S \cap K)
  <2>1. PICK x \in S : x = s[i]
    BY <1>1
  <2>2. x \in K => <<x>> \in Seq(S \cap K)
    OBVIOUS
  <2>3. f[i] = (IF x \in K THEN <<x>> ELSE <<>>) /\ <<>> \in Seq(S \cap K)
    BY <1>1, <2>1
  <2>. HIDE DEF f
  <2>. QED BY <2>2, <2>3
<1>3. f \in Seq(Seq(S \cap K))
  <2>1. f \in [1..Len(s) -> Seq(S \cap K)]
    BY <1>1, <1>2
  <2>. HIDE DEF f
  <2>. QED BY <1>1, <2>1
<1>4. FlattenSeq(f) \in Seq(S \cap K)
  <2>. HIDE DEF f
  <2>. QED BY <1>3, FlattenType
<1>. QED BY <1>4

\* The elements of s that are in K.
Chosen(s, K) == FlattenSeq([i \in DOMAIN s |-> IF s[i] \in K THEN <<s[i]>> ELSE <<>>])

LEMMA OfWider == \A S, T : S \subseteq T => Seq(S) \subseteq Seq(T)
OBVIOUS

LEMMA Mapped ==
  ASSUME NEW S, NEW s \in Seq(S), NEW T, NEW f, f = [i \in DOMAIN s |-> f[i]], \A i \in DOMAIN s : f[i] \in T
  PROVE  f \in Seq(T)
<1>1. DOMAIN s = 1..Len(s) /\ Len(s) \in Nat
  OBVIOUS
<1>. QED BY <1>1

LEMMA BlocksOnly ==
  ASSUME NEW m \in Messages, NEW blocks \in Seq(Blocks)
  PROVE  [m EXCEPT !.blocks = blocks] \in Messages
BY DEF Messages

LEMMA TextStripped ==
  \A t \in Texts : /\ StripText(t) \in Texts
                   /\ StripText(t) = t \/ (t.text \in {"today", "tomorrow"} /\ StripText(t).text = "blank")
<1>. SUFFICES ASSUME NEW t \in Texts
              PROVE  /\ StripText(t) \in Texts
                     /\ StripText(t) = t \/ (t.text \in {"today", "tomorrow"} /\ StripText(t).text = "blank")
  OBVIOUS
<1>1. CASE t.text \in {"today", "tomorrow"}
  <2>1. StripText(t) = [t EXCEPT !.text = "blank"]
    BY <1>1 DEF StripText
  <2>2. [t EXCEPT !.text = "blank"] \in Texts /\ [t EXCEPT !.text = "blank"].text = "blank"
    BY DEF Texts, Contents
  <2>. QED BY <1>1, <2>1, <2>2
<1>2. CASE t.text \notin {"today", "tomorrow"}
  BY <1>2 DEF StripText
<1>. QED BY <1>1, <1>2

LEMMA BlockStripped == \A b \in Blocks : StripCurrentDateBlock(b) \in Blocks
<1>. SUFFICES ASSUME NEW b \in Blocks PROVE StripCurrentDateBlock(b) \in Blocks
  OBVIOUS
<1>1. CASE IsText(b)
  BY <1>1, BlockTypes, TextStripped DEF StripCurrentDateBlock, Blocks
<1>2. CASE ~IsText(b) /\ IsResult(b)
  <2>1. b \in Results
    BY <1>2, BlockTypes
  <2>2. PICK s \in Seq(Texts) : s = b.parts
    BY <2>1 DEF Results
  <2>3. PICK t : t = [i \in DOMAIN s |-> StripText(s[i])]
    OBVIOUS
  <2>4. t \in Seq(Texts)
    <3>1. (\A i \in DOMAIN s : t[i] \in Texts) /\ t = [i \in DOMAIN s |-> t[i]]
      BY <2>3, TextStripped
    <3>. QED BY <3>1, Mapped
  <2>5. [b EXCEPT !.parts = t] \in Results
    BY <2>1, <2>4 DEF Results
  <2>6. StripCurrentDateBlock(b) = [b EXCEPT !.parts = t]
    BY <1>2, <2>2, <2>3 DEF StripCurrentDateBlock
  <2>. QED BY <2>5, <2>6 DEF Blocks
<1>3. CASE ~IsText(b) /\ ~IsResult(b)
  BY <1>3 DEF StripCurrentDateBlock
<1>. QED BY <1>1, <1>2, <1>3

LEMMA DateStripped == \A m \in Messages : StripDate(m) \in Messages
<1>. SUFFICES ASSUME NEW m \in Messages PROVE StripDate(m) \in Messages
  OBVIOUS
<1>1. m.blocks \in Seq(Blocks)
  BY DEF Messages
<1>. DEFINE f == [i \in DOMAIN m.blocks |-> StripCurrentDateBlock(m.blocks[i])]
<1>2. f \in Seq(Blocks)
  <2>1. \A i \in DOMAIN m.blocks : f[i] \in Blocks
    BY <1>1, BlockStripped
  <2>2. f = [i \in DOMAIN m.blocks |-> f[i]]
    OBVIOUS
  <2>. HIDE DEF f
  <2>. QED BY <1>1, <2>1, <2>2, Mapped
<1>3. StripDate(m) = m \/ StripDate(m) = [m EXCEPT !.blocks = f]
  BY DEF StripDate, OnBlocks
<1>. HIDE DEF f
<1>. QED BY <1>2, <1>3, BlocksOnly

LEMMA ThinkingFiltered == \A m \in Messages : FilterInvalidThinking(m) \in Messages
<1>. SUFFICES ASSUME NEW m \in Messages PROVE FilterInvalidThinking(m) \in Messages
  OBVIOUS
<1>. DEFINE K == {b \in Blocks : b.type # "thinking" \/ b.valid}
            g == FlattenSeq([i \in DOMAIN m.blocks |-> IF m.blocks[i] \in K THEN <<m.blocks[i]>> ELSE <<>>])
<1>1. m.blocks \in Seq(Blocks)
  BY DEF Messages
<1>2. g \in Seq(Blocks)
  <2>. HIDE DEF K
  <2>1. g \in Seq(Blocks \cap K)
    BY <1>1, Selected
  <2>. HIDE DEF g
  <2>. QED BY <2>1, OfWider
<1>3. [i \in DOMAIN m.blocks |-> IF m.blocks[i] \in K THEN <<m.blocks[i]>> ELSE <<>>]
        = [i \in DOMAIN m.blocks |->
             IF m.blocks[i].type # "thinking" \/ m.blocks[i].valid THEN <<m.blocks[i]>> ELSE <<>>]
  BY <1>1
<1>4. FilterInvalidThinking(m) = m \/ FilterInvalidThinking(m) = [m EXCEPT !.blocks = g]
  BY <1>3 DEF FilterInvalidThinking, Select
<1>. HIDE DEF g
<1>. QED BY <1>2, <1>4, BlocksOnly

LEMMA ResultMerged == \A m \in Messages : MergeToolResult(m) \in Messages
<1>. SUFFICES ASSUME NEW m \in Messages PROVE MergeToolResult(m) \in Messages
  OBVIOUS
<1>. DEFINE K == {b \in Blocks : IsText(b) /\ b.text # "blank"}
            L == {b \in Blocks : ~IsText(b)}
            texts  == FlattenSeq([i \in DOMAIN m.blocks |-> IF m.blocks[i] \in K THEN <<m.blocks[i]>> ELSE <<>>])
            others == FlattenSeq([i \in DOMAIN m.blocks |-> IF m.blocks[i] \in L THEN <<m.blocks[i]>> ELSE <<>>])
            target == SelectLastInSeq(others, IsResult)
            merged == [others EXCEPT ![target].parts = @ \o texts]
<1>1. m.blocks \in Seq(Blocks)
  BY DEF Messages
<1>2. [i \in DOMAIN m.blocks |-> IF m.blocks[i] \in K THEN <<m.blocks[i]>> ELSE <<>>]
        = [i \in DOMAIN m.blocks |->
             IF IsText(m.blocks[i]) /\ m.blocks[i].text # "blank" THEN <<m.blocks[i]>> ELSE <<>>]
  BY <1>1
<1>3. [i \in DOMAIN m.blocks |-> IF m.blocks[i] \in L THEN <<m.blocks[i]>> ELSE <<>>]
        = [i \in DOMAIN m.blocks |-> IF ~IsText(m.blocks[i]) THEN <<m.blocks[i]>> ELSE <<>>]
  BY <1>1
<1>4. texts \in Seq(Texts)
  <2>1. Blocks \cap K \subseteq Texts
    BY BlockTypes
  <2>. HIDE DEF K
  <2>2. texts \in Seq(Blocks \cap K)
    BY <1>1, Selected
  <2>. HIDE DEF texts
  <2>. QED BY <2>1, <2>2, OfWider
<1>5. others \in Seq(Blocks)
  <2>. HIDE DEF L
  <2>1. others \in Seq(Blocks \cap L)
    BY <1>1, Selected
  <2>. HIDE DEF others
  <2>. QED BY <2>1, OfWider
<1>6. \/ MergeToolResult(m) = m
      \/ target # 0 /\ MergeToolResult(m) = [m EXCEPT !.blocks = merged]
  <2>1. Select(m.blocks, LAMBDA b : IsText(b) /\ b.text # "blank") = texts
    BY <1>2 DEF Select
  <2>2. Select(m.blocks, LAMBDA b : ~IsText(b)) = others
    BY <1>3 DEF Select
  <2>. HIDE DEF texts, others
  <2>. QED BY <2>1, <2>2 DEF MergeToolResult
<1>. HIDE DEF texts, others
<1>7. ASSUME target # 0 PROVE merged \in Seq(Blocks)
  <2>1. target \in 1..Len(others) /\ IsResult(others[target])
    <3>. DEFINE I == {i \in 1..Len(others) : IsResult(others[i])}
    <3>1. target = IF I # {} THEN Max(I) ELSE 0
      BY DEF SelectLastInSeq
    <3>2. Len(others) \in Nat
      BY <1>5
    <3>3. target \in I
      <4>1. I \subseteq 1..Len(others) /\ I # {} /\ target = Max(I)
        BY <1>7, <3>1
      <4>. HIDE DEF I, target
      <4>. QED BY <3>2, <4>1, GreatestAndLeast
    <3>. QED BY <3>3
  <2>. HIDE DEF target
  <2>2. PICK r : r = others[target]
    OBVIOUS
  <2>3. r \in Results
    BY <1>5, <2>1, <2>2, BlockTypes
  <2>4. PICK parts \in Seq(Texts) : parts = r.parts \o texts
    <3>1. PICK q \in Seq(Texts) : q = r.parts
      BY <2>3 DEF Results
    <3>2. q \o texts \in Seq(Texts)
      BY <1>4
    <3>. QED BY <3>1, <3>2
  <2>5. PICK e \in Blocks : e = [r EXCEPT !.parts = parts]
    BY <2>3 DEF Results, Blocks
  <2>6. merged = [others EXCEPT ![target] = e]
    BY <2>2, <2>4, <2>5
  <2>7. [others EXCEPT ![target] = e] \in Seq(Blocks)
    BY <1>5, <2>1
  <2>. QED BY <2>6, <2>7
<1>. HIDE DEF merged
<1>. QED BY <1>6, <1>7, BlocksOnly

\* The messages of which something is left.
Filled == {m \in Messages : m.plain \/ m.blocks # <<>>}

LEMMA BoundaryCut == \A m \in Messages : StripBoundary(m) \in Messages
<1>. SUFFICES ASSUME NEW m \in Messages PROVE StripBoundary(m) \in Messages
  OBVIOUS
<1>. DEFINE K == {x \in Blocks : ~(IsText(x) /\ x.text = "loaded" /\ ~x.marked)}
<1>1. PICK s \in Seq(Blocks) : s = m.blocks
  BY DEF Messages
<1>2. Chosen(s, K) \in Seq(Blocks)
  <2>. HIDE DEF K
  <2>1. Chosen(s, K) \in Seq(Blocks \cap K)
    BY Selected DEF Chosen
  <2>. QED BY <2>1, OfWider
<1>3. [i \in DOMAIN s |-> IF s[i] \in K THEN <<s[i]>> ELSE <<>>]
        = [i \in DOMAIN s |->
             IF ~(IsText(s[i]) /\ s[i].text = "loaded" /\ ~s[i].marked) THEN <<s[i]>> ELSE <<>>]
  OBVIOUS
<1>4. StripBoundary(m) = m \/ StripBoundary(m) = [m EXCEPT !.blocks = Chosen(s, K)]
  BY <1>1, <1>3 DEF StripBoundary, Select, Chosen
<1>. HIDE DEF K
<1>. QED BY <1>2, <1>4, BlocksOnly

LEMMA BoundaryStripped ==
  ASSUME NEW b, IsRequest(b), NEW ms \in Seq(Messages), b.messages = ms
  PROVE  LET f == [i \in DOMAIN ms |-> StripBoundary(ms[i])]
         IN /\ f \in Seq(Messages) /\ Chosen(f, Filled) \in Seq(Filled)
            /\ StripToolReferenceTurnBoundary(b) = [b EXCEPT !.messages = Chosen(f, Filled)]
<1>1. PICK f : f = [i \in DOMAIN ms |-> StripBoundary(ms[i])]
  OBVIOUS
<1>2. f \in Seq(Messages)
  <2>1. \A i \in DOMAIN ms : f[i] \in Messages
    BY <1>1, BoundaryCut
  <2>2. f = [i \in DOMAIN ms |-> f[i]]
    BY <1>1
  <2>. QED BY <2>1, <2>2, Mapped
<1>3. Chosen(f, Filled) \in Seq(Filled)
  <2>1. Chosen(f, Filled) \in Seq(Messages \cap Filled)
    BY <1>2, Selected DEF Chosen
  <2>2. Messages \cap Filled \subseteq Filled
    OBVIOUS
  <2>. QED BY <2>1, <2>2, OfWider
<1>4. [i \in DOMAIN f |-> IF f[i] \in Filled THEN <<f[i]>> ELSE <<>>]
        = [i \in DOMAIN f |-> IF f[i].plain \/ f[i].blocks # <<>> THEN <<f[i]>> ELSE <<>>]
  BY <1>2 DEF Filled
<1>5. StripToolReferenceTurnBoundary(b) = [b EXCEPT !.messages = Chosen(f, Filled)]
  BY <1>1, <1>4 DEF StripToolReferenceTurnBoundary, Select, Chosen
<1>. QED BY <1>1, <1>2, <1>3, <1>5

\* The role of each message is decided by those before it.
LEMMA RolesInTurn ==
  ASSUME NEW b, IsRequest(b), b.messages \in Seq(Messages)
  PROVE  \E R \in [0..Len(b.messages) -> Roles \cup {"none"}] :
           /\ R[0] = "none"
           /\ \A i \in 1..Len(b.messages) :
                R[i] = IF b.messages[i].role = "system" /\ ~StaysSystem(b, i, R[i - 1]) THEN "user"
                       ELSE b.messages[i].role
           /\ RewriteMidConversationSystem(b) = [b EXCEPT !.messages =
                [i \in DOMAIN b.messages |->
                   IF R[i] = b.messages[i].role THEN b.messages[i] ELSE Prefixed(b.messages[i])]]
<1>. DEFINE ms == b.messages
            n == Len(ms)
            T == Roles \cup {"none"}
            RoleAfter(i, t) == IF ms[i].role = "system" /\ ~StaysSystem(b, i, t) THEN "user" ELSE ms[i].role
            step == [i \in 1..n |-> [t \in T |-> RoleAfter(i, t)]]
            Body(f) == [i \in 0..n |-> IF i = 0 THEN "none" ELSE RoleAfter(i, f[i - 1])]
            C == CHOOSE f : f = Body(f)
<1>1. n \in Nat /\ (\A i \in 1..n : ms[i] \in Messages) /\ DOMAIN ms = 1..n
  OBVIOUS
<1>2. step \in [1..n -> [T -> T]]
  <2>1. ASSUME NEW i \in 1..n, NEW t \in T PROVE RoleAfter(i, t) \in T
    <3>1. ms[i].role \in Roles
      BY <1>1 DEF Messages
    <3>. QED BY <3>1 DEF Roles
  <2>. HIDE DEF RoleAfter, T
  <2>. QED BY <2>1
<1>3. PICK R \in [0..n -> T] : Unrolls(R, n, T, "none", step)
  <2>1. "none" \in T
    OBVIOUS
  <2>. HIDE DEF step, n, T, Body, C
  <2>. QED BY <1>1, <1>2, <2>1, Recursion
<1>4. /\ R[0] = "none"
      /\ \A i \in 1..n : R[i] = step[i][R[i - 1]]
      /\ \A G : G[0] = "none" /\ (\A i \in 1..n : G[i - 1] \in T => G[i] = step[i][G[i - 1]])
                  => \A i \in 0..n : G[i] = R[i]
  <2>. HIDE DEF step, n, T
  <2>. QED BY <1>3 DEF Unrolls
<1>5. \A i \in 1..n : R[i] = RoleAfter(i, R[i - 1])
  <2>1. \A i \in 1..n : R[i - 1] \in T
    <3>. HIDE DEF T, n
    <3>. QED BY <1>1
  <2>. HIDE DEF RoleAfter, T, n
  <2>. QED BY <1>4, <2>1
<1>6. C = Body(C)
  <2>1. R = Body(R)
    <3>. HIDE DEF RoleAfter, T, n
    <3>. QED BY <1>4, <1>5
  <2>. HIDE DEF Body
  <2>. QED BY <2>1
<1>7. \A i \in 0..n : C[i] = R[i]
  <2>. HIDE DEF C, RoleAfter
  <2>1. C[0] = "none" /\ \A i \in 1..n : C[i] = RoleAfter(i, C[i - 1])
    <3>. HIDE DEF n
    <3>. QED BY <1>1, <1>6
  <2>2. \A i \in 1..n : C[i - 1] \in T => C[i] = step[i][C[i - 1]]
    <3>. HIDE DEF n, T
    <3>. QED BY <2>1
  <2>. HIDE DEF step, n, T
  <2>. QED BY <1>4, <2>1, <2>2
<1>8. RewriteMidConversationSystem(b) = [b EXCEPT !.messages =
        [i \in DOMAIN ms |-> IF C[i] = ms[i].role THEN ms[i] ELSE Prefixed(ms[i])]]
  BY DEF RewriteMidConversationSystem
<1>9. [i \in DOMAIN ms |-> IF C[i] = ms[i].role THEN ms[i] ELSE Prefixed(ms[i])]
        = [i \in DOMAIN ms |-> IF R[i] = ms[i].role THEN ms[i] ELSE Prefixed(ms[i])]
  <2>. HIDE DEF C, n
  <2>. QED BY <1>1, <1>7
<1>10. RewriteMidConversationSystem(b) = [b EXCEPT !.messages =
         [i \in DOMAIN ms |-> IF R[i] = ms[i].role THEN ms[i] ELSE Prefixed(ms[i])]]
  BY <1>8, <1>9
<1>. HIDE DEF C
<1>. QED BY <1>4, <1>5, <1>10

LEMMA PrefixedFills ==
  \A m \in Filled : LET p == Prefixed(m) IN p.role = "user" /\ (p.plain \/ p.blocks # <<>>)
<1>. SUFFICES ASSUME NEW m \in Filled
              PROVE  Prefixed(m).role = "user" /\ (Prefixed(m).plain \/ Prefixed(m).blocks # <<>>)
  OBVIOUS
<1>. DEFINE at == SelectInSeq(m.blocks, IsText)
            blank == [Text("blank") EXCEPT !.marked = TRUE]
            blocks == IF at = 0 THEN <<blank>> \o m.blocks ELSE [m.blocks EXCEPT ![at].marked = TRUE]
<1>1. m \in Messages /\ m.blocks \in Seq(Blocks)
  BY DEF Filled, Messages
<1>2. Prefixed(m) = [m EXCEPT !.role = "user", !.blocks = blocks]
  BY DEF Prefixed
<1>3. m.blocks # <<>> => blocks # <<>>
  <2>. HIDE DEF at, blank
  <2>1. <<blank>> \o m.blocks # <<>>
    BY <1>1
  <2>2. ASSUME m.blocks # <<>> PROVE [m.blocks EXCEPT ![at].marked = TRUE] # <<>>
    <3>1. 1 \in DOMAIN m.blocks
      BY <1>1, <2>2
    <3>2. 1 \in DOMAIN [m.blocks EXCEPT ![at].marked = TRUE]
      BY <3>1
    <3>. QED BY <3>2
  <2>. QED BY <2>1, <2>2
<1>. HIDE DEF blocks
<1>4. Prefixed(m).role = "user" /\ Prefixed(m).plain = m.plain /\ Prefixed(m).blocks = blocks
  BY <1>1, <1>2 DEF Messages
<1>. QED BY <1>3, <1>4 DEF Filled

\* A conversation the API takes, but that it may end with the assistant.
Placed(messages, model) ==
  /\ messages \in [1..Len(messages) -> Range(messages)] /\ Len(messages) \in Nat
  /\ \A i \in 1..Len(messages) :
       /\ messages[i].plain \/ messages[i].blocks # <<>>
       /\ messages[i].role = "system" =>
            /\ Profile(model).system
            /\ i > 1 /\ messages[i - 1].role = "user"
            /\ i = Len(messages) \/ messages[i + 1].role = "assistant"

LEMMA SystemPlaced ==
  ASSUME NEW b, IsRequest(b), b.messages \in Seq(Filled)
  PROVE  \E s : RewriteMidConversationSystem(b) = [b EXCEPT !.messages = s] /\ Placed(s, b.model)
<1>. DEFINE ms == b.messages
            n == Len(ms)
<1>1. Filled \subseteq Messages
  BY DEF Filled
<1>2. ms \in Seq(Messages) /\ n \in Nat /\ DOMAIN ms = 1..n /\ \A i \in 1..n : ms[i] \in Filled
  BY <1>1, OfWider
<1>3. PICK R \in [0..n -> Roles \cup {"none"}] :
        /\ R[0] = "none"
        /\ \A i \in 1..n : R[i] = IF ms[i].role = "system" /\ ~StaysSystem(b, i, R[i - 1]) THEN "user"
                                  ELSE ms[i].role
        /\ RewriteMidConversationSystem(b) = [b EXCEPT !.messages =
             [i \in DOMAIN ms |-> IF R[i] = ms[i].role THEN ms[i] ELSE Prefixed(ms[i])]]
  BY <1>2, RolesInTurn
<1>. DEFINE s == [i \in DOMAIN ms |-> IF R[i] = ms[i].role THEN ms[i] ELSE Prefixed(ms[i])]
<1>. HIDE DEF n
<1>4. Len(s) = n /\ s \in [1..n -> Range(s)]
  BY <1>2 DEF Range
<1>5. \A i \in 1..n : s[i] = IF R[i] = ms[i].role THEN ms[i] ELSE Prefixed(ms[i])
  BY <1>2
<1>. HIDE DEF s
<1>6. ASSUME NEW i \in 1..n PROVE s[i].role = R[i] /\ (s[i].plain \/ s[i].blocks # <<>>)
  <2>1. CASE R[i] = ms[i].role
    BY <1>2, <1>5, <2>1 DEF Filled
  <2>2. CASE R[i] # ms[i].role
    BY <1>2, <1>3, <1>5, <2>2, PrefixedFills
  <2>. QED BY <2>1, <2>2
<1>7. ASSUME NEW i \in 1..n, s[i].role = "system"
      PROVE  /\ Profile(b.model).system
             /\ i > 1 /\ s[i - 1].role = "user"
             /\ i = n \/ s[i + 1].role = "assistant"
  <2>1. ms[i].role = "system" /\ StaysSystem(b, i, R[i - 1])
    <3>1. R[i] = "system"
      BY <1>6, <1>7
    <3>. QED BY <1>3, <3>1
  <2>2. Profile(b.model).system /\ R[i - 1] = "user" /\ (i = n \/ ms[i + 1].role = "assistant")
    BY <2>1 DEF StaysSystem, LegalSystemPlacement, n
  <2>3. i # 1
    BY <1>3, <2>2
  <2>4. i > 1 /\ s[i - 1].role = "user"
    <3>1. i - 1 \in 1..n
      BY <1>2, <2>3
    <3>. QED BY <1>6, <2>2, <3>1
  <2>5. i = n \/ s[i + 1].role = "assistant"
    <3>1. SUFFICES ASSUME i # n PROVE s[i + 1].role = "assistant"
      OBVIOUS
    <3>2. i + 1 \in 1..n
      BY <1>2, <3>1
    <3>3. R[i + 1] = ms[i + 1].role
      BY <1>3, <2>2, <3>1, <3>2
    <3>. QED BY <1>6, <2>2, <3>1, <3>2, <3>3
  <2>. QED BY <2>2, <2>4, <2>5
<1>8. Placed(s, b.model)
  BY <1>2, <1>4, <1>6, <1>7 DEF Placed
<1>. QED BY <1>3, <1>8 DEF s

-----------------------------------------------------------------------------
(***************************************************************************)
(* All of the pipeline.                                                    *)
(***************************************************************************)
Accepted(messages, model) ==
  /\ messages # <<>> => Last(messages).role # "assistant"
  /\ \A i \in DOMAIN messages :
       /\ messages[i].plain \/ messages[i].blocks # <<>>
       /\ messages[i].role = "system" =>
            /\ Profile(model).system
            /\ i > 1 /\ messages[i - 1].role = "user"
            /\ i = Len(messages) \/ messages[i + 1].role = "assistant"

LEMMA TrailingFixed ==
  ASSUME NEW b, IsRequest(b), Placed(b.messages, b.model)
  PROVE  /\ Accepted(FixTrailingAssistant(b).messages, FixTrailingAssistant(b).model)
         /\ FixTrailingAssistant(b).says = b.says
<1>. DEFINE ms == b.messages
            n == Len(ms)
<1>1. n \in Nat /\ DOMAIN ms = 1..n
  BY DEF Placed
<1>2. CASE ~(ms # <<>> /\ Last(ms).role = "assistant")
  <2>1. FixTrailingAssistant(b) = b
    BY <1>2 DEF FixTrailingAssistant
  <2>. QED BY <1>1, <1>2, <2>1 DEF Placed, Accepted
<1>3. CASE ms # <<>> /\ Last(ms).role = "assistant"
  <2>. DEFINE s == Append(ms, Continue)
  <2>1. FixTrailingAssistant(b) = [b EXCEPT !.messages = s]
    BY <1>3 DEF FixTrailingAssistant
  <2>. HIDE DEF s
  <2>2. /\ FixTrailingAssistant(b).messages = s /\ FixTrailingAssistant(b).model = b.model
        /\ FixTrailingAssistant(b).says = b.says
    BY <2>1 DEF IsRequest, RequestFields
  <2>3. Len(s) = n + 1 /\ DOMAIN s = 1..(n + 1) /\ s[n + 1] = Continue /\ \A i \in 1..n : s[i] = ms[i]
    <3>. DEFINE T == Range(ms) \cup {Continue}
    <3>1. ms \in Seq(T) /\ Continue \in T
      BY <1>1 DEF Placed
    <3>. HIDE DEF T
    <3>2. s \in Seq(T) /\ Len(s) = n + 1 /\ s[n + 1] = Continue /\ \A i \in 1..n : s[i] = ms[i]
      BY <3>1, AppendLast DEF s
    <3>. QED BY <3>2
  <2>4. n >= 1 /\ ms[n].role = "assistant"
    BY <1>1, <1>3 DEF Last, Placed
  <2>5. Continue.role = "user" /\ Continue.blocks # <<>>
    BY DEF Continue
  <2>6. Last(s).role # "assistant"
    BY <2>3, <2>5 DEF Last
  <2>7. ASSUME NEW i \in 1..(n + 1)
        PROVE  /\ s[i].plain \/ s[i].blocks # <<>>
               /\ s[i].role = "system" =>
                    /\ Profile(b.model).system
                    /\ i > 1 /\ s[i - 1].role = "user"
                    /\ i = n + 1 \/ s[i + 1].role = "assistant"
    <3>1. CASE i = n + 1
      BY <2>3, <2>5, <3>1
    <3>2. CASE i # n + 1
      <4>1. i \in 1..n /\ s[i] = ms[i]
        BY <1>1, <2>3, <3>2
      <4>2. ms[i].plain \/ ms[i].blocks # <<>>
        BY <4>1 DEF Placed
      <4>3. SUFFICES ASSUME ms[i].role = "system"
                     PROVE  /\ Profile(b.model).system
                            /\ i > 1 /\ s[i - 1].role = "user"
                            /\ s[i + 1].role = "assistant"
        BY <4>1, <4>2
      <4>4. /\ Profile(b.model).system
            /\ i > 1 /\ ms[i - 1].role = "user"
            /\ i = n \/ ms[i + 1].role = "assistant"
        BY <4>1, <4>3 DEF Placed
      <4>5. i # n
        BY <2>4, <4>3
      <4>6. i - 1 \in 1..n /\ i + 1 \in 1..n
        BY <1>1, <4>1, <4>4, <4>5
      <4>. QED BY <2>3, <4>4, <4>5, <4>6
    <3>. QED BY <3>1, <3>2
  <2>. QED BY <2>2, <2>3, <2>6, <2>7 DEF Accepted
<1>. QED BY <1>2, <1>3

\* The model, the conversation, and who the client says has asked, stay whatever else is set.
Same(a, b) == a.model = b.model /\ a.messages = b.messages /\ a.says = b.says

LEMMA ProfileSpares == ASSUME NEW b, IsRequest(b) PROVE Same(ApplyModelProfile(b), b)
<1>1. ASSUME NEW a, IsRequest(a)
      PROVE  /\ Same(ApplyEffortPolicy(a), a) /\ Same(ApplyThinkingPolicy(a), a)
             /\ Same(CapThinkingBudget(a), a) /\ Same(DisableForcedToolChoice(a), a)
  <2>1. Same(ApplyEffortPolicy(a), a)
    BY <1>1 DEF ApplyEffortPolicy, Same, IsRequest, RequestFields
  <2>2. Same(ApplyThinkingPolicy(a), a)
    BY <1>1 DEF ApplyThinkingPolicy, Same, IsRequest, RequestFields
  <2>3. Same(CapThinkingBudget(a), a)
    BY <1>1 DEF CapThinkingBudget, Same, IsRequest, RequestFields
  <2>4. Same(DisableForcedToolChoice(a), a)
    BY <1>1 DEF DisableForcedToolChoice, Same, IsRequest, RequestFields
  <2>. QED BY <2>1, <2>2, <2>3, <2>4
<1>. DEFINE b1 == ApplyEffortPolicy(b)  b2 == ApplyThinkingPolicy(b1)  b3 == ApplyEffortPolicy(b2)
            b4 == CapThinkingBudget(b3)
<1>2. IsRequest(b1)
  BY EffortFits
<1>3. IsRequest(b2) /\ TakesThinking(b2)
  BY <1>2, ThinkingFits
<1>4. IsRequest(b3) /\ TakesEffort(b3) /\ b3.model = b2.model /\ b3.thinking = b2.thinking
  BY <1>3, EffortFits
<1>5. TakesThinking(b3)
  BY <1>3, <1>4 DEF TakesThinking
<1>6. IsRequest(b4)
  BY <1>4, <1>5, BudgetIsCapped
<1>7. Same(b1, b) /\ Same(b2, b1) /\ Same(b3, b2) /\ Same(b4, b3) /\ Same(DisableForcedToolChoice(b4), b4)
  BY <1>1, <1>2, <1>3, <1>4, <1>6
<1>8. ApplyModelProfile(b) = DisableForcedToolChoice(b4)
  BY DEF ApplyModelProfile
<1>. HIDE DEF b1, b2, b3, b4
<1>. QED BY <1>7, <1>8 DEF Same

\* A request whose conversation is one.
Talks(b) == IsRequest(b) /\ b.messages \in Seq(Messages)

LEMMA NewMessages ==
  ASSUME NEW a, IsRequest(a), NEW ms
  PROVE  LET b == [a EXCEPT !.messages = ms]
         IN IsRequest(b) /\ b.messages = ms /\ b.model = a.model /\ b.says = a.says
<1>. DEFINE b == [a EXCEPT !.messages = ms]
<1>1. IsRequest(b)
  BY MessagesOnly
<1>. QED BY <1>1 DEF IsRequest, RequestFields

LEMMA TalksStill ==
  ASSUME NEW a, Talks(a), NEW ms \in Seq(Messages)
  PROVE  Talks([a EXCEPT !.messages = ms]) /\ [a EXCEPT !.messages = ms].says = a.says
BY NewMessages DEF Talks

LEMMA StepsTalk ==
  ASSUME NEW a, Talks(a)
  PROVE  /\ Talks(StripVolatileCurrentDate(a)) /\ StripVolatileCurrentDate(a).says = a.says
         /\ Talks(FilterInvalidAssistantThinkingBlocks(a)) /\ FilterInvalidAssistantThinkingBlocks(a).says = a.says
         /\ Talks(MergeToolResultTextBlocks(a)) /\ MergeToolResultTextBlocks(a).says = a.says
<1>. DEFINE ms == a.messages
            f == [i \in DOMAIN ms |-> StripDate(ms[i])]
            g == [i \in DOMAIN ms |-> FilterInvalidThinking(ms[i])]
            h == [i \in DOMAIN ms |-> MergeToolResult(ms[i])]
<1>1. IsRequest(a) /\ ms \in Seq(Messages) /\ \A i \in DOMAIN ms : ms[i] \in Messages
  BY DEF Talks
<1>2. /\ StripVolatileCurrentDate(a) = [a EXCEPT !.messages = f]
      /\ FilterInvalidAssistantThinkingBlocks(a) = [a EXCEPT !.messages = g]
      /\ MergeToolResultTextBlocks(a) = [a EXCEPT !.messages = h]
  BY DEF StripVolatileCurrentDate, FilterInvalidAssistantThinkingBlocks, MergeToolResultTextBlocks, OnMessages
<1>3. f \in Seq(Messages)
  <2>1. (\A i \in DOMAIN ms : f[i] \in Messages) /\ f = [i \in DOMAIN ms |-> f[i]]
    BY <1>1, DateStripped
  <2>. HIDE DEF f
  <2>. QED BY <1>1, <2>1, Mapped
<1>4. g \in Seq(Messages)
  <2>1. (\A i \in DOMAIN ms : g[i] \in Messages) /\ g = [i \in DOMAIN ms |-> g[i]]
    BY <1>1, ThinkingFiltered
  <2>. HIDE DEF g
  <2>. QED BY <1>1, <2>1, Mapped
<1>5. h \in Seq(Messages)
  <2>1. (\A i \in DOMAIN ms : h[i] \in Messages) /\ h = [i \in DOMAIN ms |-> h[i]]
    BY <1>1, ResultMerged
  <2>. HIDE DEF h
  <2>. QED BY <1>1, <2>1, Mapped
<1>. HIDE DEF f, g, h
<1>. QED BY <1>2, <1>3, <1>4, <1>5, TalksStill

\* Whatever the conversation: what it is prepared to is one the API takes.
LEMMA PreparedIsAccepted ==
  ASSUME NEW b, Talks(b)
  PROVE  Accepted(Preprocess(b).messages, Preprocess(b).model) /\ Preprocess(b).says = b.says
<1>. DEFINE b1 == NormalizeModel(b)  b2 == StripVolatileCurrentDate(b1)  b3 == ApplyModelProfile(b2)
            b4 == FilterInvalidAssistantThinkingBlocks(b3)  b5 == SanitizeTools(b4)
            b6 == MergeToolResultTextBlocks(b5)  b7 == StripToolReferenceTurnBoundary(b6)
            b8 == RewriteMidConversationSystem(b7)
<1>1. Talks(b1) /\ b1.says = b.says
  BY DEF NormalizeModel, Talks, IsRequest, RequestFields
<1>2. Talks(b2) /\ b2.says = b.says
  <2>. HIDE DEF b1
  <2>. QED BY <1>1, StepsTalk
<1>3. Talks(b3) /\ b3.says = b.says
  <2>. HIDE DEF b2
  <2>1. IsRequest(b2) /\ b2.messages \in Seq(Messages)
    BY <1>2 DEF Talks
  <2>2. IsRequest(b3) /\ Same(b3, b2)
    BY <2>1, ProfileFits, ProfileSpares
  <2>. QED BY <1>2, <2>1, <2>2 DEF Talks, Same
<1>4. Talks(b4) /\ b4.says = b.says
  <2>. HIDE DEF b3
  <2>. QED BY <1>3, StepsTalk
<1>5. Talks(b5) /\ b5.says = b.says
  <2>. HIDE DEF b4
  <2>. QED BY <1>4 DEF SanitizeTools, Talks, IsRequest, RequestFields
<1>6. Talks(b6) /\ b6.says = b.says
  <2>. HIDE DEF b5
  <2>. QED BY <1>5, StepsTalk
<1>7. IsRequest(b7) /\ b7.messages \in Seq(Filled) /\ b7.says = b.says
  <2>. HIDE DEF b6
  <2>1. PICK ms \in Seq(Messages) : ms = b6.messages /\ IsRequest(b6)
    BY <1>6 DEF Talks
  <2>2. PICK s \in Seq(Filled) : b7 = [b6 EXCEPT !.messages = s]
    BY <2>1, BoundaryStripped
  <2>. HIDE DEF b7
  <2>. QED BY <1>6, <2>1, <2>2, NewMessages
<1>8. IsRequest(b8) /\ Placed(b8.messages, b8.model) /\ b8.says = b.says
  <2>. HIDE DEF b7
  <2>1. PICK s : b8 = [b7 EXCEPT !.messages = s] /\ Placed(s, b7.model)
    BY <1>7, SystemPlaced
  <2>. HIDE DEF b8
  <2>. QED BY <1>7, <2>1, NewMessages
<1>9. Preprocess(b) = FixTrailingAssistant(b8)
  BY DEF Preprocess
<1>. HIDE DEF b8
<1>. QED BY <1>8, <1>9, TrailingFixed

\* The turn that the proxy adds is the agent's.
LEMMA ContinuationIs == Wording(Continue) = <<Text("continue")>>
<1>. DEFINE t == Text("continue")
<1>1. Continue.blocks = <<t>> /\ IsText(t) /\ t.text # "blank"
  BY DEF Continue, Text, IsText
<1>. HIDE DEF t
<1>2. <<t>> \in Seq({t}) /\ DOMAIN <<t>> = {1} /\ <<t>>[1] = t
  OBVIOUS
<1>3. FlattenSeq(<< <<t>> >>) = <<t>>
  BY <1>2, FlattenOne
<1>4. [i \in DOMAIN Continue.blocks |->
         LET block == Continue.blocks[i]
         IN IF IsText(block) THEN <<block>> ELSE IF IsResult(block) THEN block.parts ELSE <<>>] = << <<t>> >>
  BY <1>1, <1>2
<1>5. CollectText(Continue) = <<t>>
  BY <1>3, <1>4 DEF CollectText
<1>6. [i \in DOMAIN <<t>> |-> IF <<t>>[i].text # "blank" \/ <<t>>[i].marked THEN <<(<<t>>[i])>> ELSE <<>>] = << <<t>> >>
  BY <1>1, <1>2
<1>7. Select(<<t>>, LAMBDA b : b.text # "blank" \/ b.marked) = <<t>>
  BY <1>3, <1>6 DEF Select
<1>. QED BY <1>5, <1>7 DEF Wording, t

\* The dates that the client writes anew are texts as they were.
LEMMA MessageRedated == \A m \in Messages : Redated(m) \in Messages
<1>. SUFFICES ASSUME NEW m \in Messages PROVE Redated(m) \in Messages
  OBVIOUS
<1>1. PICK s \in Seq(Blocks) : s = m.blocks
  BY DEF Messages
<1>2. PICK f : f = [i \in DOMAIN s |-> Redate(s[i])]
  OBVIOUS
<1>3. ASSUME NEW b \in Blocks PROVE Redate(b) \in Blocks
  <2>1. CASE b.type = "text"
    <3>1. b \in Texts
      BY <2>1, BlockTypes DEF IsText
    <3>2. Redate(b) \in Texts
      BY <3>1 DEF Redate, Texts, Contents
    <3>. QED BY <3>2 DEF Blocks
  <2>2. CASE b.type # "text"
    BY <2>2 DEF Redate
  <2>. QED BY <2>1, <2>2
<1>4. f \in Seq(Blocks)
  <2>1. (\A i \in DOMAIN s : f[i] \in Blocks) /\ f = [i \in DOMAIN s |-> f[i]]
    BY <1>2, <1>3
  <2>. QED BY <2>1, Mapped
<1>5. Redated(m) = m \/ Redated(m) = [m EXCEPT !.blocks = f]
  BY <1>1, <1>2 DEF Redated, OnBlocks
<1>. QED BY <1>4, <1>5, BlocksOnly

\* What the client sends again, before the turn that it adds.
Earlier(b) == {b.messages, OnMessages(b, Redated).messages}

LEMMA EarlierType == ASSUME NEW b, Talks(b) PROVE Earlier(b) \subseteq Seq(Messages)
<1>1. PICK ms \in Seq(Messages) : ms = b.messages /\ IsRequest(b)
  BY DEF Talks
<1>2. PICK f : f = [i \in DOMAIN ms |-> Redated(ms[i])]
  OBVIOUS
<1>3. f \in Seq(Messages)
  <2>1. (\A i \in DOMAIN ms : f[i] \in Messages) /\ f = [i \in DOMAIN ms |-> f[i]]
    BY <1>2, MessageRedated
  <2>. QED BY <2>1, Mapped
<1>4. OnMessages(b, Redated) = [b EXCEPT !.messages = f]
  BY <1>1, <1>2 DEF OnMessages
<1>5. OnMessages(b, Redated).messages = f
  BY <1>1, <1>4, NewMessages
<1>. QED BY <1>1, <1>3, <1>5 DEF Earlier

CompatInv ==
  /\ Talks(given)
  /\ Done => prepared = Preprocess(given) /\ initiator = ResolveRequestIntent(prepared)

LEMMA CompatInvariance == CompatSpec => []CompatInv
<1>1. CompatInit => CompatInv
  BY BodiesAssumption DEF CompatInit, CompatInv, Done, Talks
<1>2. CompatInv /\ Prepare => CompatInv'
  BY DEF CompatInv, Prepare
<1>3. ASSUME CompatInv, NEW turn \in Turns, NextTurn(turn) PROVE CompatInv'
  <2>1. PICK before \in Earlier(given) : given' = [given EXCEPT !.messages = before \o turn]
    BY <1>3 DEF NextTurn, Earlier
  <2>2. PICK ms \in Seq(Messages) : ms = before \o turn
    <3>1. before \in Seq(Messages) /\ turn \in Seq(Messages)
      BY <1>3, EarlierType, TurnsAssumption DEF CompatInv
    <3>2. before \o turn \in Seq(Messages)
      BY <3>1
    <3>. QED BY <3>2
  <2>3. Talks(given')
    BY <1>3, <2>1, <2>2, TalksStill DEF CompatInv
  <2>. QED BY <1>3, <2>3 DEF CompatInv, NextTurn
<1>4. CompatInv /\ UNCHANGED compatVars => CompatInv'
  BY DEF CompatInv, compatVars, Done
<1>5. CompatInv /\ [CompatNext]_compatVars => CompatInv'
  BY <1>2, <1>3, <1>4 DEF CompatNext
<1>. QED BY <1>1, <1>5, PTL DEF CompatSpec

\* For every budget and every number of tokens: whatever was asked of a model, what is sent
\* asks nothing of it that it does not take (src/proxy/src/routes/anthropicModelProfiles.ts).
THEOREM ParametersFit == CompatSpec => []ParametersAccepted
<1>1. CompatInv /\ Done => Fits(prepared)
  BY PreparedFits DEF CompatInv, Talks
<1>2. CompatInv => ParametersAccepted
  BY <1>1, BetasFollow DEF Fits, TakesThinking, TakesEffort, BudgetFits, NotForced, ParametersAccepted
<1>. QED BY <1>2, CompatInvariance, PTL

\* And whatever the conversation, of any length: what is sent is one the API takes, and the
\* turn the proxy adds is not counted as the user's.
THEOREM RequestsAreSound == CompatSpec => []RequestIsSound
<1>1. CompatInv => ConversationAccepted
  <2>. SUFFICES ASSUME CompatInv, Done PROVE Accepted(prepared.messages, prepared.model)
    BY DEF ConversationAccepted, Accepted
  <2>1. Talks(given) /\ prepared = Preprocess(given)
    BY DEF CompatInv
  <2>. QED BY <2>1, PreparedIsAccepted
<1>2. CompatInv => ContinuationIsTheAgents
  <2>. SUFFICES ASSUME CompatInv, Done, given.says = "none", prepared.messages # <<>>,
                       Last(prepared.messages) = Continue
                PROVE  initiator = "agent"
    BY DEF ContinuationIsTheAgents
  <2>1. Talks(given) /\ prepared = Preprocess(given) /\ initiator = ResolveRequestIntent(prepared)
    BY DEF CompatInv
  <2>2. prepared.says = "none"
    BY <2>1, PreparedIsAccepted
  <2>3. InferMessagesIntent(prepared) = "agent"
    BY ContinuationIs DEF InferMessagesIntent
  <2>. QED BY <2>1, <2>2, <2>3 DEF ResolveRequestIntent
<1>. QED BY <1>1, <1>2, ParametersFit, CompatInvariance, PTL DEF RequestIsSound

-----------------------------------------------------------------------------
(***************************************************************************)
(* What a conversation says: a translation of its blocks that sees neither *)
(* the texts that the repairs look for nor a thinking that is not valid,   *)
(* and to which a text is as good in a result as beside it.                *)
(***************************************************************************)
LEMMA ChosenMakes ==
  ASSUME NEW A, NEW V, NEW w, Makes(w, A, V), NEW K, NEW h,
         \A a \in A : h[a] = IF a \in K THEN w[a] ELSE <<>>,
         NEW s \in Seq(A)
  PROVE  Translated(w, Chosen(s, K)) = Translated(h, s)
<1>. DEFINE f == [a \in A |-> IF a \in K THEN <<a>> ELSE <<>>]
<1>1. Makes(f, A, A)
  <2>1. ASSUME NEW a \in A PROVE f[a] \in Seq(A)
    <3>1. <<a>> \in Seq(A) /\ <<>> \in Seq(A)
      OBVIOUS
    <3>. QED BY <3>1
  <2>. HIDE DEF f
  <2>. QED BY <2>1 DEF Makes
<1>2. ASSUME NEW a \in A PROVE h[a] = Translated(w, f[a])
  <2>1. CASE a \in K
    <3>1. Translated(w, <<a>>) = w[a]
      BY TranslatedOne
    <3>2. f[a] = <<a>> /\ h[a] = w[a]
      BY <2>1
    <3>. QED BY <3>1, <3>2
  <2>2. CASE a \notin K
    <3>1. f[a] = <<>> /\ h[a] = <<>>
      BY <2>2
    <3>. QED BY <3>1, TranslatedNothing
  <2>. QED BY <2>1, <2>2
<1>3. Translated(f, s) = Chosen(s, K)
  <2>1. \A i \in DOMAIN s : s[i] \in A
    OBVIOUS
  <2>2. [i \in DOMAIN s |-> f[s[i]]] = [i \in DOMAIN s |-> IF s[i] \in K THEN <<s[i]>> ELSE <<>>]
    BY <2>1
  <2>. QED BY <2>2 DEF Translated, Chosen
<1>. HIDE DEF f
<1>4. Translated(w, Translated(f, s)) = Translated(h, s)
  BY <1>1, <1>2, TranslatedTwice
<1>. QED BY <1>3, <1>4

\* What is left out makes nothing.
LEMMA ChosenMakesAll ==
  ASSUME NEW A, NEW V, NEW w, Makes(w, A, V), NEW K, \A a \in A : a \notin K => w[a] = <<>>,
         NEW s \in Seq(A)
  PROVE  Translated(w, Chosen(s, K)) = Translated(w, s)
BY ChosenMakes

SaidTexts == {"words", "summary"}

Weighs(w, V) ==
  /\ Makes(w, Blocks, V)
  /\ \A t \in Texts : t.text \notin SaidTexts => w[t] = <<>>
  /\ \A t \in Texts : Commutes(w[t], V) /\ w[[t EXCEPT !.marked = TRUE]] = w[t]
  /\ w[Thinking(FALSE)] = <<>>
  /\ \A r \in Results : \A s \in Seq(Texts) :
       w[[r EXCEPT !.parts = r.parts \o s]] = Joined(w[r], Translated(w, s))
  /\ \A r \in Results : w[StripCurrentDateBlock(r)] = w[r]

\* And what the messages say.
Of(w) == [m \in Messages |-> Translated(w, m.blocks)]

LEMMA OfMakes == ASSUME NEW w, NEW V, Weighs(w, V) PROVE Makes(Of(w), Messages, V)
<1>1. ASSUME NEW m \in Messages PROVE Of(w)[m] \in Seq(V)
  <2>1. PICK s \in Seq(Blocks) : s = m.blocks
    BY DEF Messages
  <2>2. Of(w)[m] = Translated(w, s)
    BY <2>1 DEF Of
  <2>. QED BY <2>2, TranslatedType DEF Weighs
<1>. QED BY <1>1 DEF Makes

LEMMA DateSaysNothing ==
  ASSUME NEW w, NEW V, Weighs(w, V), NEW m \in Messages
  PROVE  Of(w)[StripDate(m)] = Of(w)[m]
<1>1. PICK s \in Seq(Blocks) : s = m.blocks
  BY DEF Messages
<1>2. PICK t : t = [i \in DOMAIN s |-> StripCurrentDateBlock(s[i])]
  OBVIOUS
<1>3. StripDate(m) \in Messages
  BY DateStripped
<1>4. StripDate(m).blocks = s \/ StripDate(m).blocks = t
  BY <1>1, <1>2 DEF StripDate, OnBlocks, Messages
<1>5. ASSUME NEW b \in Blocks PROVE w[StripCurrentDateBlock(b)] = w[b] /\ StripCurrentDateBlock(b) \in Blocks
  <2>1. CASE IsText(b)
    <3>1. b \in Texts
      BY <2>1, BlockTypes
    <3>2. PICK c \in Texts : c = StripText(b)
      BY <3>1, TextStripped
    <3>3. c = b \/ (w[c] = <<>> /\ w[b] = <<>>)
      BY <3>1, <3>2, TextStripped DEF Weighs, SaidTexts
    <3>4. StripCurrentDateBlock(b) = c
      BY <2>1, <3>2 DEF StripCurrentDateBlock
    <3>. QED BY <3>2, <3>3, <3>4 DEF Blocks
  <2>2. CASE IsResult(b)
    BY <2>2, BlockTypes, BlockStripped DEF Weighs
  <2>3. CASE ~IsText(b) /\ ~IsResult(b)
    BY <2>3 DEF StripCurrentDateBlock
  <2>. QED BY <2>1, <2>2, <2>3
<1>6. Translated(w, t) = Translated(w, s)
  <2>1. PICK n \in Nat : n = Len(s) /\ DOMAIN s = 1..n /\ \A i \in 1..n : s[i] \in Blocks
    OBVIOUS
  <2>2. t \in [1..n -> Blocks]
    BY <1>2, <1>5, <2>1
  <2>3. t \in Seq(Blocks) /\ Len(t) = n
    BY <2>2
  <2>4. \A i \in 1..n : w[s[i]] = w[t[i]]
    BY <1>2, <1>5, <2>1
  <2>. QED BY <2>1, <2>3, <2>4, TranslatedAlike
<1>. QED BY <1>1, <1>3, <1>4, <1>6 DEF Of

LEMMA InvalidThinkingSaysNothing ==
  ASSUME NEW w, NEW V, Weighs(w, V), NEW m \in Messages
  PROVE  Of(w)[FilterInvalidThinking(m)] = Of(w)[m]
<1>. DEFINE K == {b \in Blocks : b.type # "thinking" \/ b.valid}
<1>1. PICK s \in Seq(Blocks) : s = m.blocks
  BY DEF Messages
<1>2. FilterInvalidThinking(m) \in Messages
  BY ThinkingFiltered
<1>3. [i \in DOMAIN s |-> IF s[i].type # "thinking" \/ s[i].valid THEN <<s[i]>> ELSE <<>>]
        = [i \in DOMAIN s |-> IF s[i] \in K THEN <<s[i]>> ELSE <<>>]
  OBVIOUS
<1>4. FilterInvalidThinking(m).blocks = s \/ FilterInvalidThinking(m).blocks = Chosen(s, K)
  BY <1>1, <1>3 DEF FilterInvalidThinking, Select, Chosen, Messages
<1>5. ASSUME NEW b \in Blocks, b \notin K PROVE w[b] = <<>>
  <2>1. b.type = "thinking" /\ ~b.valid
    BY <1>5
  <2>2. b = Thinking(FALSE)
    BY <2>1 DEF Blocks, Texts, Results, ToolUse, Thinking
  <2>. QED BY <2>2 DEF Weighs
<1>6. Translated(w, Chosen(s, K)) = Translated(w, s)
  <2>. HIDE DEF K
  <2>. QED BY <1>5, ChosenMakesAll DEF Weighs
<1>. HIDE DEF K
<1>. QED BY <1>1, <1>2, <1>4, <1>6 DEF Of

\* A text that was merged says in the result what it said beside it.
LEMMA MergedSaysAll ==
  ASSUME NEW w, NEW V, Weighs(w, V), NEW m \in Messages
  PROVE  Of(w)[MergeToolResult(m)] = Of(w)[m]
<1>. DEFINE K == {b \in Blocks : IsText(b) /\ b.text # "blank"}
            L == {b \in Blocks : ~IsText(b)}
<1>1. PICK s \in Seq(Blocks) : s = m.blocks
  BY DEF Messages
<1>2. PICK texts : texts = Chosen(s, K)
  OBVIOUS
<1>3. PICK others : others = Chosen(s, L)
  OBVIOUS
<1>4. PICK target : target = SelectLastInSeq(others, IsResult)
  OBVIOUS
<1>5. PICK merged : merged = [others EXCEPT ![target].parts = @ \o texts]
  OBVIOUS
<1>6. MergeToolResult(m) \in Messages
  BY ResultMerged
<1>7. \/ MergeToolResult(m).blocks = s
      \/ target # 0 /\ MergeToolResult(m).blocks = merged
  <2>1. [i \in DOMAIN s |-> IF s[i] \in K THEN <<s[i]>> ELSE <<>>]
          = [i \in DOMAIN s |-> IF IsText(s[i]) /\ s[i].text # "blank" THEN <<s[i]>> ELSE <<>>]
    OBVIOUS
  <2>2. [i \in DOMAIN s |-> IF s[i] \in L THEN <<s[i]>> ELSE <<>>]
          = [i \in DOMAIN s |-> IF ~IsText(s[i]) THEN <<s[i]>> ELSE <<>>]
    OBVIOUS
  <2>3. texts = Select(m.blocks, LAMBDA b : IsText(b) /\ b.text # "blank")
    BY <1>1, <1>2, <2>1 DEF Select, Chosen
  <2>4. others = Select(m.blocks, LAMBDA b : ~IsText(b))
    BY <1>1, <1>3, <2>2 DEF Select, Chosen
  <2>. HIDE DEF K, L
  <2>5. MergeToolResult(m) = m \/ (target # 0 /\ MergeToolResult(m) = [m EXCEPT !.blocks = merged])
    BY <1>4, <1>5, <2>3, <2>4 DEF MergeToolResult
  <2>. QED BY <1>1, <2>5 DEF Messages
<1>8. texts \in Seq(Texts)
  <2>1. Blocks \cap K \subseteq Texts
    BY BlockTypes
  <2>. HIDE DEF K
  <2>2. texts \in Seq(Blocks \cap K)
    BY <1>2, Selected DEF Chosen
  <2>. QED BY <2>1, <2>2, OfWider
<1>9. others \in Seq(Blocks)
  <2>. HIDE DEF L
  <2>1. others \in Seq(Blocks \cap L)
    BY <1>3, Selected DEF Chosen
  <2>. QED BY <2>1, OfWider
<1>10. Translated(w, texts) \in Seq(V) /\ Commutes(Translated(w, texts), V)
  <2>1. Makes(w, Texts, V)
    BY DEF Makes, Weighs, Blocks
  <2>2. \A t \in Texts : Commutes(w[t], V)
    BY DEF Weighs
  <2>. QED BY <1>8, <2>1, <2>2, TranslatedType, TranslatedCommutes
<1>11. Translated(w, s) = Joined(Translated(w, others), Translated(w, texts))
  <2>. DEFINE f == [a \in Blocks |-> IF a \in L THEN w[a] ELSE <<>>]
              g == [a \in Blocks |-> IF a \in K THEN w[a] ELSE <<>>]
  <2>1. Makes(w, Blocks, V)
    BY DEF Weighs
  <2>2. \A a \in Blocks : f[a] = (IF a \in L THEN w[a] ELSE <<>>) /\ g[a] = (IF a \in K THEN w[a] ELSE <<>>)
    OBVIOUS
  <2>3. <<>> \in Seq(V)
    OBVIOUS
  <2>. HIDE DEF f, g
  <2>4. Makes(f, Blocks, V) /\ Makes(g, Blocks, V)
    BY <2>1, <2>2, <2>3 DEF Makes
  <2>5. ASSUME NEW a \in Blocks PROVE w[a] = Joined(f[a], g[a]) /\ Commutes(g[a], V)
    <3>1. PICK y \in Seq(V) : y = w[a]
      BY <2>1 DEF Makes
    <3>2. Commutes(<<>>, V)
      BY JoinedNothing DEF Commutes
    <3>3. CASE a \in K
      <4>1. a \in Texts
        BY <3>3, BlockTypes
      <4>2. Commutes(w[a], V)
        BY <4>1 DEF Weighs
      <4>3. f[a] = <<>> /\ g[a] = y
        BY <2>2, <3>1, <3>3
      <4>. QED BY <3>1, <4>2, <4>3, JoinedNothing
    <3>4. CASE a \in L
      <4>1. f[a] = y /\ g[a] = <<>>
        BY <2>2, <3>1, <3>4
      <4>. QED BY <3>1, <3>2, <4>1, JoinedNothing
    <3>5. CASE a \notin K /\ a \notin L
      <4>1. a \in Texts /\ a.text = "blank"
        BY <3>5, BlockTypes
      <4>2. w[a] = <<>>
        BY <4>1 DEF Weighs, SaidTexts
      <4>3. f[a] = <<>> /\ g[a] = <<>>
        BY <2>2, <3>5
      <4>. QED BY <2>3, <3>2, <4>2, <4>3, JoinedNothing
    <3>. QED BY <3>3, <3>4, <3>5
  <2>. HIDE DEF K, L
  <2>6. Translated(w, s) = Joined(Translated(f, s), Translated(g, s))
    BY <2>1, <2>4, <2>5, TranslatedApart
  <2>7. Translated(w, others) = Translated(f, s)
    BY <1>3, <2>1, <2>2, ChosenMakes
  <2>8. Translated(w, texts) = Translated(g, s)
    BY <1>2, <2>1, <2>2, ChosenMakes
  <2>. QED BY <2>6, <2>7, <2>8
<1>12. ASSUME target # 0 PROVE Translated(w, merged) = Translated(w, s)
  <2>1. target \in 1..Len(others) /\ IsResult(others[target])
    <3>. DEFINE I == {i \in 1..Len(others) : IsResult(others[i])}
    <3>1. target = IF I # {} THEN Max(I) ELSE 0
      BY <1>4 DEF SelectLastInSeq
    <3>2. Len(others) \in Nat
      BY <1>9
    <3>3. target \in I
      <4>1. I \subseteq 1..Len(others) /\ I # {} /\ target = Max(I)
        BY <1>12, <3>1
      <4>. HIDE DEF I
      <4>. QED BY <3>2, <4>1, GreatestAndLeast
    <3>. QED BY <3>3
  <2>2. PICK r \in Results : r = others[target]
    BY <1>9, <2>1, BlockTypes
  <2>3. PICK parts \in Seq(Texts) : parts = r.parts \o texts
    <3>1. PICK q \in Seq(Texts) : q = r.parts
      BY DEF Results
    <3>2. q \o texts \in Seq(Texts)
      BY <1>8
    <3>. QED BY <3>1, <3>2
  <2>4. PICK e \in Blocks : e = [r EXCEPT !.parts = parts]
    BY DEF Results, Blocks
  <2>5. merged = [others EXCEPT ![target] = e]
    BY <1>5, <2>2, <2>3, <2>4
  <2>6. w[e] = Joined(w[others[target]], Translated(w, texts))
    <3>1. w[[r EXCEPT !.parts = r.parts \o texts]] = Joined(w[r], Translated(w, texts))
      BY <1>8 DEF Weighs
    <3>. QED BY <2>2, <2>3, <2>4, <3>1
  <2>7. PICK x \in Seq(V) : x = Translated(w, texts)
    BY <1>10
  <2>8. PICK o \in Seq(Blocks) : o = others
    BY <1>9
  <2>9. PICK k \in 1..Len(o) : k = target
    BY <2>1, <2>8
  <2>10. w[e] = Joined(w[o[k]], x) /\ Commutes(x, V) /\ Makes(w, Blocks, V)
    BY <1>10, <2>6, <2>7, <2>8, <2>9 DEF Weighs
  <2>11. Translated(w, [o EXCEPT ![k] = e]) = Joined(Translated(w, o), x)
    BY <2>10, TranslatedReplaced
  <2>. QED BY <1>11, <2>5, <2>7, <2>8, <2>9, <2>11
<1>. HIDE DEF K, L
<1>. QED BY <1>1, <1>6, <1>7, <1>12 DEF Of

\* A mark, and an empty text that bears one, say nothing.
LEMMA PrefixSaysNothing ==
  ASSUME NEW w, NEW V, Weighs(w, V), NEW m \in Messages
  PROVE  Prefixed(m) \in Messages /\ Of(w)[Prefixed(m)] = Of(w)[m]
<1>1. PICK s \in Seq(Blocks) : s = m.blocks
  BY DEF Messages
<1>2. PICK at : at = SelectInSeq(s, IsText)
  OBVIOUS
<1>3. PICK blank \in Texts : blank = [Text("blank") EXCEPT !.marked = TRUE] /\ blank.text = "blank"
  <2>1. PICK t \in Texts : t = Text("blank") /\ t.text = "blank"
    <3>1. Text("blank") \in Texts /\ Text("blank").text = "blank"
      BY DEF Text, Texts, Contents
    <3>. QED BY <3>1
  <2>2. [t EXCEPT !.marked = TRUE] \in Texts /\ [t EXCEPT !.marked = TRUE].text = "blank"
    BY <2>1 DEF Texts
  <2>. QED BY <2>1, <2>2
<1>4. PICK blocks : blocks = IF at = 0 THEN <<blank>> \o s ELSE [s EXCEPT ![at].marked = TRUE]
  OBVIOUS
<1>5. Prefixed(m) = [m EXCEPT !.role = "user", !.blocks = blocks]
  BY <1>1, <1>2, <1>3, <1>4 DEF Prefixed
<1>6. Makes(w, Blocks, V)
  BY DEF Weighs
<1>7. blocks \in Seq(Blocks) /\ Translated(w, blocks) = Translated(w, s)
  <2>1. CASE at = 0
    <3>1. blank \in Blocks /\ w[blank] = <<>>
      BY <1>3 DEF Weighs, Blocks, SaidTexts
    <3>2. PICK p \in Seq(Blocks) : p = <<blank>>
      <4>1. PICK c \in Blocks : c = blank
        BY <3>1
      <4>2. <<c>> \in Seq(Blocks)
        OBVIOUS
      <4>. QED BY <4>1, <4>2
    <3>3. Translated(w, p) = <<>>
      BY <1>6, <3>1, <3>2, TranslatedOne
    <3>4. Translated(w, p \o s) = Joined(Translated(w, p), Translated(w, s))
      BY <1>6, TranslatedJoined
    <3>5. Translated(w, s) \in Seq(V) /\ p \o s \in Seq(Blocks)
      BY <1>6, TranslatedType
    <3>6. blocks = p \o s
      BY <1>4, <2>1, <3>2
    <3>. QED BY <3>3, <3>4, <3>5, <3>6, JoinedNothing
  <2>2. CASE at # 0
    <3>1. at \in 1..Len(s) /\ IsText(s[at])
      <4>. DEFINE I == {i \in 1..Len(s) : IsText(s[i])}
      <4>1. at = IF I # {} THEN Min(I) ELSE 0
        BY <1>2 DEF SelectInSeq
      <4>2. Len(s) \in Nat
        OBVIOUS
      <4>3. at \in I
        <5>1. I \subseteq 1..Len(s) /\ I # {} /\ at = Min(I)
          BY <2>2, <4>1
        <5>. HIDE DEF I
        <5>. QED BY <4>2, <5>1, GreatestAndLeast
      <4>. QED BY <4>3
    <3>2. PICK k \in 1..Len(s) : k = at
      BY <3>1
    <3>3. PICK t \in Texts : t = s[k]
      BY <3>1, <3>2, BlockTypes
    <3>4. PICK e \in Texts : e = [t EXCEPT !.marked = TRUE]
      BY DEF Texts
    <3>5. e \in Blocks /\ w[e] = w[t]
      BY <3>4 DEF Weighs, Blocks
    <3>6. blocks = [s EXCEPT ![k] = e]
      BY <1>4, <2>2, <3>2, <3>3, <3>4
    <3>7. /\ [s EXCEPT ![k] = e] \in Seq(Blocks) /\ Len([s EXCEPT ![k] = e]) = Len(s)
          /\ \A i \in 1..Len(s) : [s EXCEPT ![k] = e][i] = IF i = k THEN e ELSE s[i]
      BY <3>5, ReplacedType
    <3>8. \A i \in 1..Len(s) : w[s[i]] = w[blocks[i]]
      BY <3>3, <3>5, <3>6, <3>7
    <3>9. Translated(w, s) = Translated(w, blocks)
      <4>1. PICK u \in Seq(Blocks) : u = blocks
        BY <3>6, <3>7
      <4>2. Len(s) = Len(u) /\ \A i \in 1..Len(s) : w[s[i]] = w[u[i]]
        BY <3>6, <3>7, <3>8, <4>1
      <4>. QED BY <4>1, <4>2, TranslatedAlike
    <3>. QED BY <3>6, <3>7, <3>9
  <2>. QED BY <2>1, <2>2
<1>8. Prefixed(m) \in Messages /\ Prefixed(m).blocks = blocks
  BY <1>5, <1>7 DEF Messages, Roles
<1>. QED BY <1>1, <1>7, <1>8 DEF Of

-----------------------------------------------------------------------------
(***************************************************************************)
(* All of the conversation.                                                *)
(***************************************************************************)
\* Messages that say the same one by one say the same.
LEMMA SaidOneByOne ==
  ASSUME NEW w, NEW V, Weighs(w, V), NEW ms \in Seq(Messages), NEW Op,
         \A m \in Messages : Op[m] \in Messages /\ Of(w)[Op[m]] = Of(w)[m]
  PROVE  /\ [i \in DOMAIN ms |-> Op[ms[i]]] \in Seq(Messages)
         /\ Translated(Of(w), [i \in DOMAIN ms |-> Op[ms[i]]]) = Translated(Of(w), ms)
<1>1. PICK f : f = [i \in DOMAIN ms |-> Op[ms[i]]]
  OBVIOUS
<1>2. PICK n \in Nat : n = Len(ms) /\ DOMAIN ms = 1..n /\ \A i \in 1..n : ms[i] \in Messages
  OBVIOUS
<1>3. f \in [1..n -> Messages]
  BY <1>1, <1>2
<1>4. PICK g \in Seq(Messages) : g = f /\ Len(g) = n
  BY <1>3
<1>5. PICK o : o = Of(w)
  OBVIOUS
<1>6. Len(g) = Len(ms) /\ \A i \in 1..Len(g) : o[g[i]] = o[ms[i]]
  BY <1>1, <1>2, <1>4, <1>5
<1>7. Translated(o, g) = Translated(o, ms)
  <2>1. [i \in DOMAIN g |-> o[g[i]]] = [i \in DOMAIN ms |-> o[ms[i]]]
    BY <1>6
  <2>. QED BY <2>1 DEF Translated
<1>. QED BY <1>1, <1>4, <1>5, <1>7

LEMMA BoundarySaysNothing ==
  ASSUME NEW w, NEW V, Weighs(w, V), NEW m \in Messages
  PROVE  Of(w)[StripBoundary(m)] = Of(w)[m]
<1>. DEFINE K == {x \in Blocks : ~(IsText(x) /\ x.text = "loaded" /\ ~x.marked)}
<1>1. PICK s \in Seq(Blocks) : s = m.blocks
  BY DEF Messages
<1>2. StripBoundary(m) \in Messages
  BY BoundaryCut
<1>3. [i \in DOMAIN s |-> IF s[i] \in K THEN <<s[i]>> ELSE <<>>]
        = [i \in DOMAIN s |->
             IF ~(IsText(s[i]) /\ s[i].text = "loaded" /\ ~s[i].marked) THEN <<s[i]>> ELSE <<>>]
  OBVIOUS
<1>4. StripBoundary(m).blocks = s \/ StripBoundary(m).blocks = Chosen(s, K)
  BY <1>1, <1>3 DEF StripBoundary, Select, Chosen, Messages
<1>5. ASSUME NEW a \in Blocks, a \notin K PROVE w[a] = <<>>
  <2>1. a \in Texts /\ a.text = "loaded"
    BY <1>5, BlockTypes
  <2>. QED BY <2>1 DEF Weighs, SaidTexts
<1>6. Translated(w, Chosen(s, K)) = Translated(w, s)
  <2>. HIDE DEF K
  <2>. QED BY <1>5, ChosenMakesAll DEF Weighs
<1>. HIDE DEF K
<1>. QED BY <1>1, <1>2, <1>4, <1>6 DEF Of

\* Nor does a message that nothing is left of.
LEMMA DroppedSaysNothing ==
  ASSUME NEW w, NEW V, Weighs(w, V), NEW f \in Seq(Messages)
  PROVE  Translated(Of(w), Chosen(f, Filled)) = Translated(Of(w), f)
<1>1. PICK o : o = Of(w)
  OBVIOUS
<1>2. Makes(o, Messages, V)
  BY <1>1, OfMakes
<1>3. ASSUME NEW m \in Messages, m \notin Filled PROVE o[m] = <<>>
  <2>1. m.blocks = <<>>
    BY <1>3 DEF Filled
  <2>. QED BY <1>1, <2>1, TranslatedNothing DEF Of
<1>4. Translated(o, Chosen(f, Filled)) = Translated(o, f)
  BY <1>2, <1>3, ChosenMakesAll
<1>. QED BY <1>1, <1>4

LEMMA SystemSaysAll ==
  ASSUME NEW w, NEW V, Weighs(w, V), NEW b, IsRequest(b), b.messages \in Seq(Messages)
  PROVE  \E s \in Seq(Messages) : /\ RewriteMidConversationSystem(b) = [b EXCEPT !.messages = s]
                                  /\ Translated(Of(w), s) = Translated(Of(w), b.messages)
<1>1. PICK ms \in Seq(Messages) : ms = b.messages
  OBVIOUS
<1>2. PICK R \in [0..Len(b.messages) -> Roles \cup {"none"}] :
        RewriteMidConversationSystem(b) = [b EXCEPT !.messages =
          [i \in DOMAIN b.messages |->
             IF R[i] = b.messages[i].role THEN b.messages[i] ELSE Prefixed(b.messages[i])]]
  BY RolesInTurn
<1>3. PICK f : f = [i \in DOMAIN ms |-> IF R[i] = ms[i].role THEN ms[i] ELSE Prefixed(ms[i])]
  OBVIOUS
<1>4. PICK n \in Nat : n = Len(ms) /\ DOMAIN ms = 1..n /\ \A i \in 1..n : ms[i] \in Messages
  OBVIOUS
<1>5. \A m \in Messages : Prefixed(m) \in Messages /\ Of(w)[Prefixed(m)] = Of(w)[m]
  BY PrefixSaysNothing
<1>6. PICK o : o = Of(w)
  OBVIOUS
<1>7. \A i \in 1..n : f[i] \in Messages /\ o[f[i]] = o[ms[i]]
  BY <1>3, <1>4, <1>5, <1>6
<1>8. PICK g \in Seq(Messages) : g = f /\ Len(g) = n
  <2>1. f \in [1..n -> Messages]
    BY <1>3, <1>4, <1>7
  <2>2. f \in Seq(Messages) /\ Len(f) = n
    BY <2>1
  <2>. QED BY <2>2
<1>9. Len(g) = Len(ms) /\ \A i \in 1..Len(g) : o[g[i]] = o[ms[i]]
  BY <1>4, <1>7, <1>8
<1>10. Translated(o, g) = Translated(o, ms)
  <2>1. [i \in DOMAIN g |-> o[g[i]]] = [i \in DOMAIN ms |-> o[ms[i]]]
    BY <1>9
  <2>. QED BY <2>1 DEF Translated
<1>. QED BY <1>1, <1>2, <1>3, <1>6, <1>8, <1>10

Says(w, b) == Translated(Of(w), b.messages)

LEMMA MessagesSay ==
  ASSUME NEW w, NEW V, Weighs(w, V), NEW a, Talks(a), NEW f \in Seq(Messages),
         Translated(Of(w), f) = Translated(Of(w), a.messages)
  PROVE  Talks([a EXCEPT !.messages = f]) /\ Says(w, [a EXCEPT !.messages = f]) = Says(w, a)
<1>1. Talks([a EXCEPT !.messages = f])
  BY TalksStill
<1>2. [a EXCEPT !.messages = f].messages = f
  BY DEF Talks, IsRequest, RequestFields
<1>. QED BY <1>1, <1>2 DEF Says

LEMMA StepsSayTheSame ==
  ASSUME NEW w, NEW V, Weighs(w, V), NEW a, Talks(a)
  PROVE  /\ Talks(StripVolatileCurrentDate(a)) /\ Says(w, StripVolatileCurrentDate(a)) = Says(w, a)
         /\ Talks(FilterInvalidAssistantThinkingBlocks(a)) /\ Says(w, FilterInvalidAssistantThinkingBlocks(a)) = Says(w, a)
         /\ Talks(MergeToolResultTextBlocks(a)) /\ Says(w, MergeToolResultTextBlocks(a)) = Says(w, a)
<1>1. PICK ms \in Seq(Messages) : ms = a.messages
  BY DEF Talks
<1>2. \A i \in DOMAIN ms : ms[i] \in Messages
  OBVIOUS
<1>3. Talks(StripVolatileCurrentDate(a)) /\ Says(w, StripVolatileCurrentDate(a)) = Says(w, a)
  <2>. DEFINE Op == [m \in Messages |-> StripDate(m)]
  <2>1. \A m \in Messages : Op[m] \in Messages /\ Of(w)[Op[m]] = Of(w)[m]
    BY DateStripped, DateSaysNothing
  <2>2. [i \in DOMAIN ms |-> StripDate(ms[i])] = [i \in DOMAIN ms |-> Op[ms[i]]]
    BY <1>2
  <2>. HIDE DEF Op
  <2>3. PICK f \in Seq(Messages) : /\ f = [i \in DOMAIN ms |-> StripDate(ms[i])]
                                   /\ Translated(Of(w), f) = Translated(Of(w), ms)
    BY <2>1, <2>2, SaidOneByOne
  <2>4. StripVolatileCurrentDate(a) = [a EXCEPT !.messages = f]
    BY <1>1, <2>3 DEF StripVolatileCurrentDate, OnMessages
  <2>. QED BY <1>1, <2>3, <2>4, MessagesSay
<1>4. Talks(FilterInvalidAssistantThinkingBlocks(a)) /\ Says(w, FilterInvalidAssistantThinkingBlocks(a)) = Says(w, a)
  <2>. DEFINE Op == [m \in Messages |-> FilterInvalidThinking(m)]
  <2>1. \A m \in Messages : Op[m] \in Messages /\ Of(w)[Op[m]] = Of(w)[m]
    BY ThinkingFiltered, InvalidThinkingSaysNothing
  <2>2. [i \in DOMAIN ms |-> FilterInvalidThinking(ms[i])] = [i \in DOMAIN ms |-> Op[ms[i]]]
    BY <1>2
  <2>. HIDE DEF Op
  <2>3. PICK f \in Seq(Messages) : /\ f = [i \in DOMAIN ms |-> FilterInvalidThinking(ms[i])]
                                   /\ Translated(Of(w), f) = Translated(Of(w), ms)
    BY <2>1, <2>2, SaidOneByOne
  <2>4. FilterInvalidAssistantThinkingBlocks(a) = [a EXCEPT !.messages = f]
    BY <1>1, <2>3 DEF FilterInvalidAssistantThinkingBlocks, OnMessages
  <2>. QED BY <1>1, <2>3, <2>4, MessagesSay
<1>5. Talks(MergeToolResultTextBlocks(a)) /\ Says(w, MergeToolResultTextBlocks(a)) = Says(w, a)
  <2>. DEFINE Op == [m \in Messages |-> MergeToolResult(m)]
  <2>1. \A m \in Messages : Op[m] \in Messages /\ Of(w)[Op[m]] = Of(w)[m]
    BY ResultMerged, MergedSaysAll
  <2>2. [i \in DOMAIN ms |-> MergeToolResult(ms[i])] = [i \in DOMAIN ms |-> Op[ms[i]]]
    BY <1>2
  <2>. HIDE DEF Op
  <2>3. PICK f \in Seq(Messages) : /\ f = [i \in DOMAIN ms |-> MergeToolResult(ms[i])]
                                   /\ Translated(Of(w), f) = Translated(Of(w), ms)
    BY <2>1, <2>2, SaidOneByOne
  <2>4. MergeToolResultTextBlocks(a) = [a EXCEPT !.messages = f]
    BY <1>1, <2>3 DEF MergeToolResultTextBlocks, OnMessages
  <2>. QED BY <1>1, <2>3, <2>4, MessagesSay
<1>. QED BY <1>3, <1>4, <1>5

LEMMA TrailingSaysNothing ==
  ASSUME NEW w, NEW V, Weighs(w, V), NEW b, Talks(b)
  PROVE  Talks(FixTrailingAssistant(b)) /\ Says(w, FixTrailingAssistant(b)) = Says(w, b)
<1>1. PICK ms \in Seq(Messages) : ms = b.messages
  BY DEF Talks
<1>2. PICK t \in Texts : t = Text("continue") /\ t.text = "continue"
  <2>1. Text("continue") \in Texts /\ Text("continue").text = "continue"
    BY DEF Text, Texts, Contents
  <2>. QED BY <2>1
<1>3. t \in Blocks /\ w[t] = <<>>
  BY <1>2 DEF Weighs, Blocks, SaidTexts
<1>4. Continue \in Messages /\ Of(w)[Continue] = <<>>
  <2>1. PICK c \in Blocks : c = t
    BY <1>3
  <2>2. PICK p \in Seq(Blocks) : p = <<c>>
    <3>1. <<c>> \in Seq(Blocks)
      OBVIOUS
    <3>. QED BY <3>1
  <2>3. Continue = [role |-> "user", plain |-> FALSE, blocks |-> p]
    BY <1>2, <2>1, <2>2 DEF Continue
  <2>4. Continue \in Messages /\ Continue.blocks = p
    BY <2>3 DEF Messages, Roles
  <2>5. Translated(w, p) = w[c]
    BY <2>2, TranslatedOne DEF Weighs
  <2>. QED BY <1>3, <2>1, <2>4, <2>5 DEF Of
<1>5. Translated(Of(w), ms) \in Seq(V) /\ Makes(Of(w), Messages, V)
  BY OfMakes, TranslatedType
<1>6. Append(ms, Continue) \in Seq(Messages) /\ Translated(Of(w), Append(ms, Continue)) = Translated(Of(w), ms)
  <2>1. PICK c \in Messages : c = Continue
    BY <1>4
  <2>2. Translated(Of(w), Append(ms, c)) = Joined(Translated(Of(w), ms), Of(w)[c])
    BY <1>5, TranslatedGrows
  <2>3. Append(ms, c) \in Seq(Messages)
    OBVIOUS
  <2>. QED BY <1>4, <1>5, <2>1, <2>2, <2>3, JoinedNothing
<1>7. FixTrailingAssistant(b) = b \/ FixTrailingAssistant(b) = [b EXCEPT !.messages = Append(ms, Continue)]
  BY <1>1 DEF FixTrailingAssistant
<1>8. PICK u \in Seq(Messages) : u = Append(ms, Continue)
  BY <1>6
<1>9. Talks([b EXCEPT !.messages = u]) /\ Says(w, [b EXCEPT !.messages = u]) = Says(w, b)
  BY <1>1, <1>6, <1>8, MessagesSay
<1>. QED BY <1>7, <1>8, <1>9

LEMMA BoundarySaysTheSame ==
  ASSUME NEW w, NEW V, Weighs(w, V), NEW a, Talks(a)
  PROVE  /\ Talks(StripToolReferenceTurnBoundary(a))
         /\ Says(w, StripToolReferenceTurnBoundary(a)) = Says(w, a)
<1>1. PICK ms \in Seq(Messages) : ms = a.messages /\ IsRequest(a)
  BY DEF Talks
<1>. DEFINE Op == [m \in Messages |-> StripBoundary(m)]
<1>2. \A m \in Messages : Op[m] \in Messages /\ Of(w)[Op[m]] = Of(w)[m]
  BY BoundaryCut, BoundarySaysNothing
<1>3. [i \in DOMAIN ms |-> StripBoundary(ms[i])] = [i \in DOMAIN ms |-> Op[ms[i]]]
  OBVIOUS
<1>. HIDE DEF Op
<1>4. PICK f \in Seq(Messages) : /\ f = [i \in DOMAIN ms |-> StripBoundary(ms[i])]
                                 /\ Translated(Of(w), f) = Translated(Of(w), ms)
  BY <1>2, <1>3, SaidOneByOne
<1>5. /\ Chosen(f, Filled) \in Seq(Filled)
      /\ StripToolReferenceTurnBoundary(a) = [a EXCEPT !.messages = Chosen(f, Filled)]
  BY <1>1, <1>4, BoundaryStripped
<1>6. PICK s \in Seq(Messages) : s = Chosen(f, Filled)
  <2>1. Filled \subseteq Messages
    BY DEF Filled
  <2>. QED BY <1>5, <2>1, OfWider
<1>7. Translated(Of(w), s) = Translated(Of(w), f)
  BY <1>6, DroppedSaysNothing
<1>. QED BY <1>1, <1>4, <1>5, <1>6, <1>7, MessagesSay

\* However long it is: what a conversation says is what it said before it was prepared.
LEMMA PreparedSaysTheSame ==
  ASSUME NEW w, NEW V, Weighs(w, V), NEW b, Talks(b)
  PROVE  Talks(Preprocess(b)) /\ Says(w, Preprocess(b)) = Says(w, b)
<1>. DEFINE b1 == NormalizeModel(b)  b2 == StripVolatileCurrentDate(b1)  b3 == ApplyModelProfile(b2)
            b4 == FilterInvalidAssistantThinkingBlocks(b3)  b5 == SanitizeTools(b4)
            b6 == MergeToolResultTextBlocks(b5)  b7 == StripToolReferenceTurnBoundary(b6)
            b8 == RewriteMidConversationSystem(b7)
<1>1. Talks(b1) /\ Says(w, b1) = Says(w, b)
  <2>1. Talks(b1) /\ b1.messages = b.messages
    BY DEF NormalizeModel, Talks, IsRequest, RequestFields
  <2>. QED BY <2>1 DEF Says
<1>2. Talks(b2) /\ Says(w, b2) = Says(w, b1)
  <2>. HIDE DEF b1
  <2>. QED BY <1>1, StepsSayTheSame
<1>3. Talks(b3) /\ Says(w, b3) = Says(w, b2)
  <2>. HIDE DEF b2
  <2>1. IsRequest(b2) /\ b2.messages \in Seq(Messages)
    BY <1>2 DEF Talks
  <2>2. IsRequest(b3) /\ Same(b3, b2)
    BY <2>1, ProfileFits, ProfileSpares
  <2>. QED BY <2>1, <2>2 DEF Talks, Same, Says
<1>4. Talks(b4) /\ Says(w, b4) = Says(w, b3)
  <2>. HIDE DEF b3
  <2>. QED BY <1>3, StepsSayTheSame
<1>5. Talks(b5) /\ Says(w, b5) = Says(w, b4)
  <2>. HIDE DEF b4
  <2>1. Talks(b5) /\ b5.messages = b4.messages
    BY <1>4 DEF SanitizeTools, Talks, IsRequest, RequestFields
  <2>. QED BY <2>1 DEF Says
<1>6. Talks(b6) /\ Says(w, b6) = Says(w, b5)
  <2>. HIDE DEF b5
  <2>. QED BY <1>5, StepsSayTheSame
<1>7. Talks(b7) /\ Says(w, b7) = Says(w, b6)
  <2>. HIDE DEF b6
  <2>. QED BY <1>6, BoundarySaysTheSame
<1>8. Talks(b8) /\ Says(w, b8) = Says(w, b7)
  <2>. HIDE DEF b7
  <2>1. IsRequest(b7) /\ b7.messages \in Seq(Messages)
    BY <1>7 DEF Talks
  <2>2. PICK s \in Seq(Messages) : /\ b8 = [b7 EXCEPT !.messages = s]
                                   /\ Translated(Of(w), s) = Translated(Of(w), b7.messages)
    BY <2>1, SystemSaysAll
  <2>. HIDE DEF b8
  <2>. QED BY <1>7, <2>2, MessagesSay
<1>9. Talks(FixTrailingAssistant(b8)) /\ Says(w, FixTrailingAssistant(b8)) = Says(w, b8)
  <2>. HIDE DEF b8
  <2>. QED BY <1>8, TrailingSaysNothing
<1>10. Preprocess(b) = FixTrailingAssistant(b8)
  BY DEF Preprocess
<1>. HIDE DEF b1, b2, b3, b4, b5, b6, b7, b8
<1>. QED BY <1>1, <1>2, <1>3, <1>4, <1>5, <1>6, <1>7, <1>8, <1>9, <1>10

-----------------------------------------------------------------------------
(***************************************************************************)
(* What is said, counted; and what was made, by its kind.                  *)
(***************************************************************************)
One     == [t \in Texts |-> IF t.text \in SaidTexts THEN <<1>> ELSE <<>>]
Held(b) == IF IsText(b) THEN <<b>> ELSE IF IsResult(b) THEN b.parts ELSE <<>>
Counted == [b \in Blocks |-> Translated(One, Held(b))]

LEMMA OnesCommute == \A x \in Seq({1}) : Commutes(x, {1})
<1>. SUFFICES ASSUME NEW x \in Seq({1}), NEW v \in Seq({1}) PROVE x \o v = v \o x
  BY DEF Commutes, Joined
<1>1. x \o v \in Seq({1}) /\ v \o x \in Seq({1}) /\ Len(x \o v) = Len(v \o x) /\ Len(x \o v) \in Nat
  OBVIOUS
<1>2. \A i \in 1..Len(x \o v) : (x \o v)[i] = 1 /\ (v \o x)[i] = 1
  BY <1>1
<1>. QED BY <1>1, <1>2, SeqEqual

LEMMA HeldType == \A b \in Blocks : Held(b) \in Seq(Texts)
<1>. SUFFICES ASSUME NEW b \in Blocks PROVE Held(b) \in Seq(Texts)
  OBVIOUS
<1>1. CASE IsText(b)
  <2>1. PICK t \in Texts : t = b
    BY <1>1, BlockTypes
  <2>2. <<t>> \in Seq(Texts)
    OBVIOUS
  <2>. QED BY <1>1, <2>1, <2>2 DEF Held
<1>2. CASE ~IsText(b) /\ IsResult(b)
  <2>1. b \in Results
    BY <1>2, BlockTypes
  <2>2. b.parts \in Seq(Texts)
    BY <2>1 DEF Results
  <2>. QED BY <1>2, <2>2 DEF Held
<1>3. CASE ~IsText(b) /\ ~IsResult(b)
  <2>1. <<>> \in Seq(Texts)
    OBVIOUS
  <2>. QED BY <1>3, <2>1 DEF Held
<1>. QED BY <1>1, <1>2, <1>3

LEMMA OneMakes == Makes(One, Texts, {1})
<1>1. <<1>> \in Seq({1}) /\ <<>> \in Seq({1})
  OBVIOUS
<1>. QED BY <1>1 DEF Makes, One

LEMMA CountedWeighs == Weighs(Counted, {1})
<1>1. Makes(Counted, Blocks, {1})
  <2>1. ASSUME NEW b \in Blocks PROVE Counted[b] \in Seq({1})
    BY HeldType, OneMakes, TranslatedType DEF Counted
  <2>. QED BY <2>1 DEF Makes
<1>2. ASSUME NEW t \in Texts PROVE t \in Blocks /\ Counted[t] = One[t]
  <2>1. t \in Blocks /\ Held(t) = <<t>>
    BY DEF Blocks, Held, IsText, Texts
  <2>2. Translated(One, <<t>>) = One[t]
    BY OneMakes, TranslatedOne
  <2>. QED BY <2>1, <2>2 DEF Counted
<1>3. ASSUME NEW t \in Texts, t.text \notin SaidTexts PROVE Counted[t] = <<>>
  BY <1>2, <1>3 DEF One
<1>4. ASSUME NEW t \in Texts PROVE Commutes(Counted[t], {1}) /\ Counted[[t EXCEPT !.marked = TRUE]] = Counted[t]
  <2>1. Commutes(Counted[t], {1})
    BY <1>1, <1>2, OnesCommute DEF Makes
  <2>2. PICK c \in Texts : c = [t EXCEPT !.marked = TRUE] /\ c.text = t.text
    <3>1. [t EXCEPT !.marked = TRUE] \in Texts /\ [t EXCEPT !.marked = TRUE].text = t.text
      BY DEF Texts
    <3>. QED BY <3>1
  <2>3. Counted[c] = Counted[t]
    BY <1>2, <2>2 DEF One
  <2>. QED BY <2>1, <2>2, <2>3
<1>5. Counted[Thinking(FALSE)] = <<>>
  <2>1. PICK b \in Blocks : b = Thinking(FALSE) /\ b.type = "thinking"
    <3>1. Thinking(FALSE) \in Blocks /\ Thinking(FALSE).type = "thinking"
      BY DEF Blocks, Thinking
    <3>. QED BY <3>1
  <2>2. Held(b) = <<>>
    BY <2>1 DEF Held, IsText, IsResult
  <2>. QED BY <2>1, <2>2, TranslatedNothing DEF Counted
<1>6. ASSUME NEW r \in Results, NEW s \in Seq(Texts)
      PROVE  Counted[[r EXCEPT !.parts = r.parts \o s]] = Joined(Counted[r], Translated(Counted, s))
  <2>1. PICK q \in Seq(Texts) : q = r.parts
    BY DEF Results
  <2>2. PICK p \in Seq(Texts) : p = q \o s
    <3>1. q \o s \in Seq(Texts)
      OBVIOUS
    <3>. QED BY <3>1
  <2>3. PICK e \in Results : e = [r EXCEPT !.parts = p] /\ e.parts = p
    <3>1. [r EXCEPT !.parts = p] \in Results /\ [r EXCEPT !.parts = p].parts = p
      BY DEF Results
    <3>. QED BY <3>1
  <2>4. e \in Blocks /\ r \in Blocks /\ Held(e) = p /\ Held(r) = q
    BY <2>1, <2>3 DEF Blocks, Held, IsText, IsResult, Results
  <2>5. Translated(One, q \o s) = Joined(Translated(One, q), Translated(One, s))
    BY OneMakes, TranslatedJoined
  <2>6. Translated(Counted, s) = Translated(One, s)
    <3>1. \A i \in DOMAIN s : s[i] \in Texts
      OBVIOUS
    <3>2. [i \in DOMAIN s |-> Counted[s[i]]] = [i \in DOMAIN s |-> One[s[i]]]
      BY <1>2, <3>1
    <3>. QED BY <3>2 DEF Translated
  <2>7. Counted[e] = Translated(One, p) /\ Counted[r] = Translated(One, q)
    BY <2>4 DEF Counted
  <2>. QED BY <2>1, <2>2, <2>3, <2>5, <2>6, <2>7
<1>7. ASSUME NEW r \in Results PROVE Counted[StripCurrentDateBlock(r)] = Counted[r]
  <2>1. PICK s \in Seq(Texts) : s = r.parts
    BY DEF Results
  <2>2. PICK t : t = [i \in DOMAIN s |-> StripText(s[i])]
    OBVIOUS
  <2>3. PICK n \in Nat : n = Len(s) /\ DOMAIN s = 1..n /\ \A i \in 1..n : s[i] \in Texts
    OBVIOUS
  <2>4. t \in Seq(Texts) /\ Len(t) = n
    <3>1. t \in [1..n -> Texts]
      BY <2>2, <2>3, TextStripped
    <3>. QED BY <3>1
  <2>5. \A x \in Texts : One[StripText(x)] = One[x]
    <3>. SUFFICES ASSUME NEW x \in Texts PROVE One[StripText(x)] = One[x]
      OBVIOUS
    <3>1. PICK c \in Texts : c = StripText(x)
      BY TextStripped
    <3>2. c = x \/ (c.text \notin SaidTexts /\ x.text \notin SaidTexts)
      BY <3>1, TextStripped DEF SaidTexts
    <3>. QED BY <3>1, <3>2 DEF One
  <2>6. \A i \in 1..n : One[s[i]] = One[t[i]]
    BY <2>2, <2>3, <2>5
  <2>7. Translated(One, t) = Translated(One, s)
    BY <2>3, <2>4, <2>6, OneMakes, TranslatedAlike
  <2>8. PICK e \in Results : e = [r EXCEPT !.parts = t] /\ e.parts = t
    <3>1. [r EXCEPT !.parts = t] \in Results /\ [r EXCEPT !.parts = t].parts = t
      BY <2>4 DEF Results
    <3>. QED BY <3>1
  <2>9. StripCurrentDateBlock(r) = e
    <3>1. ~IsText(r) /\ IsResult(r)
      BY DEF Results, IsText, IsResult
    <3>. QED BY <2>1, <2>2, <2>8, <3>1 DEF StripCurrentDateBlock
  <2>10. e \in Blocks /\ r \in Blocks /\ Held(e) = t /\ Held(r) = s
    BY <2>1, <2>8 DEF Blocks, Held, IsText, IsResult, Results
  <2>. QED BY <2>7, <2>9, <2>10 DEF Counted
<1>. QED BY <1>1, <1>3, <1>4, <1>5, <1>6, <1>7 DEF Weighs

KindsMade == {"tool_result", "tool_use", "thinking"}
IsMade(b) == IsResult(b) \/ b = ToolUse \/ b = Thinking(TRUE)
Typed     == [b \in Blocks |-> IF IsMade(b) THEN <<b.type>> ELSE <<>>]

LEMMA TypedMakes == Makes(Typed, Blocks, KindsMade)
<1>1. ASSUME NEW b \in Blocks PROVE Typed[b] \in Seq(KindsMade)
  <2>1. CASE IsMade(b)
    <3>1. PICK k \in KindsMade : k = b.type
      BY <2>1 DEF IsMade, IsResult, ToolUse, Thinking, KindsMade
    <3>2. <<k>> \in Seq(KindsMade)
      OBVIOUS
    <3>. QED BY <2>1, <3>1, <3>2 DEF Typed
  <2>2. CASE ~IsMade(b)
    <3>1. <<>> \in Seq(KindsMade)
      OBVIOUS
    <3>. QED BY <2>2, <3>1 DEF Typed
  <2>. QED BY <2>1, <2>2
<1>. QED BY <1>1 DEF Makes

LEMMA TypedWeighs == Weighs(Typed, KindsMade)
<1>1. ASSUME NEW t \in Texts PROVE Typed[t] = <<>>
  <2>1. t \in Blocks /\ ~IsMade(t)
    BY DEF Blocks, IsMade, IsResult, ToolUse, Thinking, Texts
  <2>. QED BY <2>1 DEF Typed
<1>2. Commutes(<<>>, KindsMade)
  BY JoinedNothing DEF Commutes
<1>3. ASSUME NEW t \in Texts PROVE Commutes(Typed[t], KindsMade) /\ Typed[[t EXCEPT !.marked = TRUE]] = Typed[t]
  <2>1. [t EXCEPT !.marked = TRUE] \in Texts
    BY DEF Texts
  <2>. QED BY <1>1, <1>2, <2>1
<1>4. Typed[Thinking(FALSE)] = <<>>
  <2>1. Thinking(FALSE) \in Blocks /\ ~IsMade(Thinking(FALSE))
    BY DEF Blocks, IsMade, IsResult, ToolUse, Thinking
  <2>. QED BY <2>1 DEF Typed
<1>5. ASSUME NEW r \in Results, NEW s \in Seq(Texts)
      PROVE  Typed[[r EXCEPT !.parts = r.parts \o s]] = Joined(Typed[r], Translated(Typed, s))
  <2>1. PICK p \in Seq(Texts) : p = r.parts \o s
    <3>1. PICK q \in Seq(Texts) : q = r.parts
      BY DEF Results
    <3>2. q \o s \in Seq(Texts)
      OBVIOUS
    <3>. QED BY <3>1, <3>2
  <2>2. PICK e \in Results : e = [r EXCEPT !.parts = p]
    <3>1. [r EXCEPT !.parts = p] \in Results
      BY DEF Results
    <3>. QED BY <3>1
  <2>3. \A x \in Results : x \in Blocks /\ IsMade(x) /\ x.type = "tool_result"
    BY DEF Results, Blocks, IsMade, IsResult
  <2>4. Typed[e] = <<"tool_result">> /\ Typed[r] = <<"tool_result">>
    BY <2>3 DEF Typed
  <2>5. Translated(Typed, s) = <<>>
    BY <1>1, TranslatedNil
  <2>6. Typed[r] \in Seq(KindsMade)
    BY <2>3, TypedMakes DEF Makes
  <2>. QED BY <2>1, <2>2, <2>4, <2>5, <2>6, JoinedNothing
<1>6. ASSUME NEW r \in Results PROVE Typed[StripCurrentDateBlock(r)] = Typed[r]
  <2>1. r \in Blocks /\ ~IsText(r) /\ IsResult(r) /\ r.type = "tool_result"
    BY DEF Results, Blocks, IsText, IsResult
  <2>2. PICK e \in Blocks : e = StripCurrentDateBlock(r)
    BY <2>1, BlockStripped
  <2>3. e.type = "tool_result"
    BY <2>1, <2>2 DEF StripCurrentDateBlock, Results
  <2>. QED BY <2>1, <2>2, <2>3 DEF Typed, IsMade, IsResult
<1>. QED BY <1>1, <1>3, <1>4, <1>5, <1>6, TypedMakes DEF Weighs

\* The number of things said, and the kinds of those made, are such translations.
LEMMA SaidIsCounted ==
  ASSUME NEW b, NEW ms \in Seq(Messages), b.messages = ms
  PROVE  Len(Said(b)) = Len(Translated(Of(Counted), ms))
<1>. DEFINE K == {t \in Texts : t.text \in SaidTexts}
            held == [x \in Blocks |-> Held(x)]
            saying == [m \in Messages |-> Chosen(CollectText(m), K)]
            single == [t \in Texts |-> <<1>>]
<1>1. Makes(held, Blocks, Texts)
  BY HeldType DEF Makes
<1>2. ASSUME NEW m \in Messages, NEW s \in Seq(Blocks), s = m.blocks
      PROVE  CollectText(m) = Translated(held, s) /\ CollectText(m) \in Seq(Texts)
  <2>1. \A i \in DOMAIN s : s[i] \in Blocks
    OBVIOUS
  <2>2. [i \in DOMAIN s |-> held[s[i]]]
          = [i \in DOMAIN s |-> IF IsText(s[i]) THEN <<s[i]>> ELSE IF IsResult(s[i]) THEN s[i].parts ELSE <<>>]
    BY <2>1 DEF Held
  <2>3. CollectText(m) = Translated(held, s)
    BY <1>2, <2>2 DEF CollectText, Translated
  <2>. HIDE DEF held
  <2>. QED BY <1>1, <2>3, TranslatedType
<1>3. Makes(single, Texts, {1})
  <2>1. <<1>> \in Seq({1})
    OBVIOUS
  <2>. QED BY <2>1 DEF Makes
<1>4. Makes(saying, Messages, Texts)
  <2>1. ASSUME NEW m \in Messages PROVE Chosen(CollectText(m), K) \in Seq(Texts)
    <3>1. PICK s \in Seq(Blocks) : s = m.blocks
      BY DEF Messages
    <3>2. PICK c \in Seq(Texts) : c = CollectText(m)
      BY <1>2, <3>1
    <3>. HIDE DEF K
    <3>3. Chosen(c, K) \in Seq(Texts \cap K)
      BY Selected DEF Chosen
    <3>. QED BY <3>2, <3>3, OfWider
  <2>. QED BY <2>1 DEF Makes
<1>5. Said(b) = Translated(saying, ms)
  <2>1. ASSUME NEW m \in Messages
        PROVE  Select(CollectText(m), LAMBDA t : t.text \in {"words", "summary"}) = Chosen(CollectText(m), K)
    <3>1. PICK s \in Seq(Blocks) : s = m.blocks
      BY DEF Messages
    <3>2. PICK c \in Seq(Texts) : c = CollectText(m)
      BY <1>2, <3>1
    <3>3. \A i \in DOMAIN c : c[i] \in Texts
      OBVIOUS
    <3>4. [i \in DOMAIN c |-> IF c[i] \in K THEN <<c[i]>> ELSE <<>>]
            = [i \in DOMAIN c |-> IF c[i].text \in {"words", "summary"} THEN <<c[i]>> ELSE <<>>]
      BY <3>3 DEF SaidTexts
    <3>. QED BY <3>2, <3>4 DEF Select, Chosen
  <2>2. \A i \in DOMAIN ms : ms[i] \in Messages
    OBVIOUS
  <2>3. [i \in DOMAIN ms |-> Select(CollectText(ms[i]), LAMBDA t : t.text \in {"words", "summary"})]
          = [i \in DOMAIN ms |-> saying[ms[i]]]
    <3>. HIDE DEF K
    <3>. QED BY <2>1, <2>2
  <2>. QED BY <2>3 DEF Said, Translated
<1>6. ASSUME NEW m \in Messages PROVE Of(Counted)[m] = Translated(single, saying[m])
  <2>1. PICK s \in Seq(Blocks) : s = m.blocks
    BY DEF Messages
  <2>2. PICK c \in Seq(Texts) : c = CollectText(m) /\ c = Translated(held, s)
    BY <1>2, <2>1
  <2>3. \A t \in Texts : One[t] = IF t \in K THEN single[t] ELSE <<>>
    BY DEF One
  <2>4. \A x \in Blocks : Counted[x] = Translated(One, held[x])
    BY DEF Counted
  <2>. HIDE DEF K, held, single
  <2>5. Translated(single, Chosen(c, K)) = Translated(One, c)
    BY <1>3, <2>3, ChosenMakes
  <2>6. Translated(One, Translated(held, s)) = Translated(Counted, s)
    BY <1>1, <2>4, OneMakes, TranslatedTwice
  <2>. QED BY <2>1, <2>2, <2>5, <2>6 DEF Of
<1>7. PICK u \in Seq(Texts) : u = Said(b)
  <2>. HIDE DEF saying
  <2>. QED BY <1>4, <1>5, TranslatedType
<1>8. Translated(single, u) = Translated(Of(Counted), ms)
  <2>. HIDE DEF saying, single
  <2>. QED BY <1>3, <1>4, <1>5, <1>6, <1>7, TranslatedTwice
<1>9. Translated(single, u) = [i \in DOMAIN u |-> 1]
  <2>. DEFINE g == [t \in Texts |-> 1]
  <2>1. \A t \in Texts : g[t] \in {1} /\ single[t] = <<(g[t])>>
    OBVIOUS
  <2>2. \A i \in DOMAIN u : u[i] \in Texts
    OBVIOUS
  <2>3. [i \in DOMAIN u |-> g[u[i]]] = [i \in DOMAIN u |-> 1]
    BY <2>2
  <2>. HIDE DEF g, single
  <2>4. PICK B : Single(single, g, Texts, B)
    BY <2>1 DEF Single
  <2>5. Translated(single, u) = OneForEach(g, u)
    BY <2>4, TranslatedSingly
  <2>. QED BY <2>3, <2>5 DEF OneForEach
<1>10. Len([i \in DOMAIN u |-> 1]) = Len(u)
  <2>1. PICK n \in Nat : n = Len(u) /\ DOMAIN u = 1..n
    OBVIOUS
  <2>2. Len([i \in 1..n |-> 1]) = n
    OBVIOUS
  <2>. QED BY <2>1, <2>2
<1>. QED BY <1>7, <1>8, <1>9, <1>10

LEMMA MadeIsTyped ==
  ASSUME NEW b, NEW ms \in Seq(Messages), b.messages = ms
  PROVE  [i \in DOMAIN Made(b) |-> Made(b)[i].type] = Translated(Of(Typed), ms)
<1>. DEFINE K == {x \in Blocks : IsMade(x)}
            making == [m \in Messages |-> Chosen(m.blocks, K)]
            type   == [x \in K |-> x.type]
            single == [x \in K |-> <<(type[x])>>]
<1>1. Makes(single, K, KindsMade) /\ \A x \in K : type[x] \in KindsMade
  <2>1. ASSUME NEW x \in K PROVE type[x] \in KindsMade /\ single[x] \in Seq(KindsMade)
    <3>1. PICK k \in KindsMade : k = type[x]
      BY DEF IsMade, IsResult, ToolUse, Thinking, KindsMade
    <3>2. <<k>> \in Seq(KindsMade)
      OBVIOUS
    <3>. QED BY <3>1, <3>2
  <2>. HIDE DEF K, type
  <2>. QED BY <2>1 DEF Makes
<1>2. ASSUME NEW s \in Seq(Blocks) PROVE Chosen(s, K) \in Seq(K)
  <2>1. Blocks \cap K \subseteq K
    OBVIOUS
  <2>. HIDE DEF K
  <2>2. Chosen(s, K) \in Seq(Blocks \cap K)
    BY Selected DEF Chosen
  <2>. QED BY <2>1, <2>2, OfWider
<1>3. Makes(making, Messages, K)
  <2>1. \A m \in Messages : m.blocks \in Seq(Blocks)
    BY DEF Messages
  <2>. HIDE DEF K
  <2>. QED BY <1>2, <2>1 DEF Makes
<1>4. Made(b) = Translated(making, ms)
  <2>1. ASSUME NEW m \in Messages
        PROVE  Select(m.blocks, LAMBDA x : IsResult(x) \/ x = ToolUse \/ x = Thinking(TRUE)) = making[m]
    <3>1. PICK s \in Seq(Blocks) : s = m.blocks
      BY DEF Messages
    <3>2. [i \in DOMAIN s |-> IF s[i] \in K THEN <<s[i]>> ELSE <<>>]
            = [i \in DOMAIN s |-> IF IsResult(s[i]) \/ s[i] = ToolUse \/ s[i] = Thinking(TRUE) THEN <<s[i]>> ELSE <<>>]
      <4>1. \A i \in DOMAIN s : s[i] \in K <=> IsResult(s[i]) \/ s[i] = ToolUse \/ s[i] = Thinking(TRUE)
        <5>1. \A i \in DOMAIN s : s[i] \in Blocks
          OBVIOUS
        <5>. QED BY <5>1 DEF IsMade
      <4>. HIDE DEF K
      <4>. QED BY <4>1
    <3>. QED BY <3>1, <3>2 DEF Select, Chosen
  <2>2. \A i \in DOMAIN ms : ms[i] \in Messages
    OBVIOUS
  <2>. HIDE DEF making
  <2>3. [i \in DOMAIN ms |-> Select(ms[i].blocks, LAMBDA x : IsResult(x) \/ x = ToolUse \/ x = Thinking(TRUE))]
          = [i \in DOMAIN ms |-> making[ms[i]]]
    BY <2>1, <2>2
  <2>. QED BY <2>3 DEF Made, Translated
<1>5. ASSUME NEW m \in Messages PROVE Of(Typed)[m] = Translated(single, making[m])
  <2>1. PICK s \in Seq(Blocks) : s = m.blocks
    BY DEF Messages
  <2>2. PICK c \in Seq(K) : c = Chosen(s, K)
    BY <1>2
  <2>3. Translated(single, c) = Translated(Typed, c)
    <3>1. \A i \in DOMAIN c : c[i] \in K
      OBVIOUS
    <3>2. \A x \in K : single[x] = Typed[x]
      BY DEF Typed
    <3>. HIDE DEF single
    <3>3. [i \in DOMAIN c |-> single[c[i]]] = [i \in DOMAIN c |-> Typed[c[i]]]
      BY <3>1, <3>2
    <3>. QED BY <3>3 DEF Translated
  <2>4. \A x \in Blocks : x \notin K => Typed[x] = <<>>
    BY DEF Typed
  <2>5. making[m] = c
    BY <2>1, <2>2
  <2>. HIDE DEF K, single, making
  <2>6. Translated(Typed, Chosen(s, K)) = Translated(Typed, s)
    BY <2>4, TypedMakes, ChosenMakesAll
  <2>. QED BY <2>1, <2>2, <2>3, <2>5, <2>6 DEF Of
<1>6. PICK u \in Seq(K) : u = Made(b)
  <2>. HIDE DEF making, K
  <2>. QED BY <1>3, <1>4, TranslatedType
<1>7. Translated(single, u) = Translated(Of(Typed), ms)
  <2>. HIDE DEF making, single, K
  <2>. QED BY <1>1, <1>3, <1>4, <1>5, <1>6, TranslatedTwice
<1>8. Translated(single, u) = [i \in DOMAIN u |-> u[i].type]
  <2>1. \A x \in K : single[x] = <<(type[x])>>
    OBVIOUS
  <2>2. \A i \in DOMAIN u : u[i] \in K
    OBVIOUS
  <2>3. [i \in DOMAIN u |-> type[u[i]]] = [i \in DOMAIN u |-> u[i].type]
    BY <2>2
  <2>. HIDE DEF K, type, single
  <2>4. Single(single, type, K, KindsMade)
    BY <1>1, <2>1 DEF Single
  <2>5. Translated(single, u) = OneForEach(type, u)
    BY <2>4, TranslatedSingly
  <2>. QED BY <2>3, <2>5 DEF OneForEach
<1>. HIDE DEF single
<1>. QED BY <1>6, <1>7, <1>8

\* However long the conversation is, whatever is merged, dropped or rewritten in it: nothing
\* that was said is lost, and every use of a tool and every result is still there, in its order
\* (src/proxy/src/routes/claudeCodeCompat.ts).
THEOREM SayingIsKept == CompatSpec => []NothingSaidIsLost
<1>1. CompatInv => NothingSaidIsLost
  <2>. SUFFICES ASSUME CompatInv, Done
                PROVE  /\ Len(Said(prepared)) = Len(Said(given))
                       /\ [i \in DOMAIN Made(prepared) |-> Made(prepared)[i].type]
                            = [i \in DOMAIN Made(given) |-> Made(given)[i].type]
    BY DEF NothingSaidIsLost
  <2>1. Talks(given) /\ prepared = Preprocess(given)
    BY DEF CompatInv
  <2>2. Talks(prepared) /\ Says(Counted, prepared) = Says(Counted, given)
    BY <2>1, CountedWeighs, PreparedSaysTheSame
  <2>3. Says(Typed, prepared) = Says(Typed, given)
    BY <2>1, TypedWeighs, PreparedSaysTheSame
  <2>4. PICK ms \in Seq(Messages) : ms = given.messages
    BY <2>1 DEF Talks
  <2>5. PICK ns \in Seq(Messages) : ns = prepared.messages
    BY <2>2 DEF Talks
  <2>6. Len(Said(prepared)) = Len(Said(given))
    BY <2>2, <2>4, <2>5, SaidIsCounted DEF Says
  <2>7. [i \in DOMAIN Made(prepared) |-> Made(prepared)[i].type]
          = [i \in DOMAIN Made(given) |-> Made(given)[i].type]
    BY <2>3, <2>4, <2>5, MadeIsTyped DEF Says
  <2>. QED BY <2>6, <2>7
<1>. QED BY <1>1, CompatInvariance, PTL

-----------------------------------------------------------------------------
(***************************************************************************)
(* What was sent is sent again.  Each message is cleaned for itself, so    *)
(* that of a longer conversation there is left what was left of the        *)
(* shorter one, and more after it; and the role of a message depends on    *)
(* those before it, but for a system message also on the one after it.     *)
(***************************************************************************)
Cleaned(m) == StripBoundary(MergeToolResult(FilterInvalidThinking(StripDate(m))))

\* What is left of each message.
Left == [m \in Messages |-> IF Cleaned(m) \in Filled THEN <<Cleaned(m)>> ELSE <<>>]

LEMMA LeftMakes == Makes(Left, Messages, Filled)
<1>1. ASSUME NEW m \in Messages PROVE Left[m] \in Seq(Filled)
  <2>1. CASE Cleaned(m) \in Filled
    <3>1. PICK c \in Filled : c = Cleaned(m)
      BY <2>1
    <3>2. <<c>> \in Seq(Filled)
      OBVIOUS
    <3>. QED BY <2>1, <3>1, <3>2 DEF Left
  <2>2. CASE Cleaned(m) \notin Filled
    <3>1. <<>> \in Seq(Filled)
      OBVIOUS
    <3>. QED BY <2>2, <3>1 DEF Left
  <2>. QED BY <2>1, <2>2
<1>. QED BY <1>1 DEF Makes

\* The steps that change each message for itself.
StrippedAll(ms) == [i \in DOMAIN ms |-> StripDate(ms[i])]
FilteredAll(ms) == [i \in DOMAIN ms |-> FilterInvalidThinking(ms[i])]
MergedAll(ms)   == [i \in DOMAIN ms |-> MergeToolResult(ms[i])]

LEMMA EachForItself ==
  ASSUME NEW a, Talks(a), NEW ms, a.messages = ms
  PROVE  /\ Talks(StripVolatileCurrentDate(a)) /\ StripVolatileCurrentDate(a).model = a.model
         /\ StripVolatileCurrentDate(a).messages = StrippedAll(ms)
         /\ Talks(FilterInvalidAssistantThinkingBlocks(a)) /\ FilterInvalidAssistantThinkingBlocks(a).model = a.model
         /\ FilterInvalidAssistantThinkingBlocks(a).messages = FilteredAll(ms)
         /\ Talks(MergeToolResultTextBlocks(a)) /\ MergeToolResultTextBlocks(a).model = a.model
         /\ MergeToolResultTextBlocks(a).messages = MergedAll(ms)
<1>1. IsRequest(a)
  BY DEF Talks
<1>2. PICK f : f = StrippedAll(ms)
  OBVIOUS
<1>3. PICK g : g = FilteredAll(ms)
  OBVIOUS
<1>4. PICK h : h = MergedAll(ms)
  OBVIOUS
<1>5. /\ StripVolatileCurrentDate(a) = [a EXCEPT !.messages = f]
      /\ FilterInvalidAssistantThinkingBlocks(a) = [a EXCEPT !.messages = g]
      /\ MergeToolResultTextBlocks(a) = [a EXCEPT !.messages = h]
  BY <1>2, <1>3, <1>4 DEF StripVolatileCurrentDate, FilterInvalidAssistantThinkingBlocks, MergeToolResultTextBlocks,
       OnMessages, StrippedAll, FilteredAll, MergedAll
<1>6. /\ [a EXCEPT !.messages = f].messages = f /\ [a EXCEPT !.messages = f].model = a.model
      /\ [a EXCEPT !.messages = g].messages = g /\ [a EXCEPT !.messages = g].model = a.model
      /\ [a EXCEPT !.messages = h].messages = h /\ [a EXCEPT !.messages = h].model = a.model
  BY <1>1, NewMessages
<1>. QED BY <1>2, <1>3, <1>4, <1>5, <1>6, StepsTalk

\* What there is when the roles are decided.
LEMMA PreparedFrom ==
  ASSUME NEW b, Talks(b), NEW ms \in Seq(Messages), b.messages = ms
  PROVE  \E a : /\ IsRequest(a) /\ a.model = Canonical(b.model)
                /\ a.messages = Translated(Left, ms)
                /\ Preprocess(b) = FixTrailingAssistant(RewriteMidConversationSystem(a))
<1>. DEFINE b1 == NormalizeModel(b)  b2 == StripVolatileCurrentDate(b1)  b3 == ApplyModelProfile(b2)
            b4 == FilterInvalidAssistantThinkingBlocks(b3)  b5 == SanitizeTools(b4)
            b6 == MergeToolResultTextBlocks(b5)  b7 == StripToolReferenceTurnBoundary(b6)
<1>1. Talks(b1) /\ b1.messages = ms /\ b1.model = Canonical(b.model)
  BY DEF NormalizeModel, Talks, IsRequest, RequestFields
<1>2. PICK f2 : f2 = StrippedAll(ms)
  OBVIOUS
<1>3. Talks(b2) /\ b2.messages = f2 /\ b2.model = b1.model
  <2>. HIDE DEF b1
  <2>. QED BY <1>1, <1>2, EachForItself
<1>4. Talks(b3) /\ b3.messages = f2 /\ b3.model = b2.model
  <2>. HIDE DEF b2
  <2>1. IsRequest(b2) /\ b2.messages \in Seq(Messages)
    BY <1>3 DEF Talks
  <2>2. IsRequest(b3) /\ Same(b3, b2)
    BY <2>1, ProfileFits, ProfileSpares
  <2>. QED BY <1>3, <2>1, <2>2 DEF Talks, Same
<1>5. PICK f4 : f4 = FilteredAll(f2)
  OBVIOUS
<1>6. Talks(b4) /\ b4.messages = f4 /\ b4.model = b3.model
  <2>. HIDE DEF b3
  <2>. QED BY <1>4, <1>5, EachForItself
<1>7. Talks(b5) /\ b5.messages = f4 /\ b5.model = b4.model
  <2>. HIDE DEF b4
  <2>. QED BY <1>6 DEF SanitizeTools, Talks, IsRequest, RequestFields
<1>8. PICK f6 : f6 = MergedAll(f4)
  OBVIOUS
<1>9. Talks(b6) /\ b6.messages = f6 /\ b6.model = b5.model
  <2>. HIDE DEF b5
  <2>. QED BY <1>7, <1>8, EachForItself
<1>10. PICK f7 : f7 = [i \in DOMAIN f6 |-> StripBoundary(f6[i])]
  OBVIOUS
<1>11. IsRequest(b7) /\ b7.messages = Chosen(f7, Filled) /\ b7.model = b6.model
  <2>. HIDE DEF b6
  <2>1. PICK u \in Seq(Messages) : u = f6 /\ b6.messages = u /\ IsRequest(b6)
    BY <1>9 DEF Talks
  <2>2. PICK v : v = Chosen(f7, Filled)
    OBVIOUS
  <2>3. b7 = [b6 EXCEPT !.messages = v]
    BY <1>10, <2>1, <2>2, BoundaryStripped
  <2>. HIDE DEF b7
  <2>4. b7.messages = v /\ b7.model = b6.model /\ IsRequest(b7)
    BY <2>1, <2>3, NewMessages
  <2>. QED BY <2>2, <2>4
<1>12. DOMAIN f7 = DOMAIN ms /\ \A i \in DOMAIN ms : f7[i] = Cleaned(ms[i]) /\ ms[i] \in Messages
  <2>1. DOMAIN f2 = DOMAIN ms /\ DOMAIN f4 = DOMAIN ms /\ DOMAIN f6 = DOMAIN ms /\ DOMAIN f7 = DOMAIN ms
    BY <1>2, <1>5, <1>8, <1>10 DEF StrippedAll, FilteredAll, MergedAll
  <2>2. \A i \in DOMAIN ms : /\ f2[i] = StripDate(ms[i]) /\ f4[i] = FilterInvalidThinking(f2[i])
                             /\ f6[i] = MergeToolResult(f4[i]) /\ f7[i] = StripBoundary(f6[i])
    BY <1>2, <1>5, <1>8, <1>10, <2>1 DEF StrippedAll, FilteredAll, MergedAll
  <2>3. \A i \in DOMAIN ms : ms[i] \in Messages
    OBVIOUS
  <2>. QED BY <2>1, <2>2, <2>3 DEF Cleaned
<1>13. Chosen(f7, Filled) = Translated(Left, ms)
  <2>1. \A i \in DOMAIN ms : Left[ms[i]] = IF f7[i] \in Filled THEN <<f7[i]>> ELSE <<>>
    BY <1>12 DEF Left
  <2>2. [i \in DOMAIN f7 |-> IF f7[i] \in Filled THEN <<f7[i]>> ELSE <<>>] = [i \in DOMAIN ms |-> Left[ms[i]]]
    BY <1>12, <2>1
  <2>. QED BY <2>2 DEF Chosen, Translated
<1>14. Preprocess(b) = FixTrailingAssistant(RewriteMidConversationSystem(b7))
  BY DEF Preprocess
<1>. HIDE DEF b1, b2, b3, b4, b5, b6, b7
<1>15. b7.model = Canonical(b.model)
  BY <1>1, <1>3, <1>4, <1>6, <1>7, <1>9, <1>11
<1>. QED BY <1>11, <1>13, <1>14, <1>15

\* Another day, there is left of it what there was.
LEMMA RedatedIsLeft == \A m \in Messages : Left[Redated(m)] = Left[m]
<1>. SUFFICES ASSUME NEW m \in Messages PROVE StripDate(Redated(m)) = StripDate(m)
  BY MessageRedated DEF Left, Cleaned
<1>1. CASE m.plain
  BY <1>1 DEF Redated
<1>2. CASE ~m.plain
  <2>1. PICK s \in Seq(Blocks) : s = m.blocks
    BY DEF Messages
  <2>2. PICK f : f = [i \in DOMAIN s |-> Redate(s[i])]
    OBVIOUS
  <2>3. PICK n : n = [m EXCEPT !.blocks = f]
    OBVIOUS
  <2>4. Redated(m) = n /\ n.blocks = f /\ ~n.plain
    BY <1>2, <2>1, <2>2, <2>3 DEF Redated, OnBlocks, Messages
  <2>5. ASSUME NEW x \in Blocks PROVE StripCurrentDateBlock(Redate(x)) = StripCurrentDateBlock(x)
    <3>1. CASE IsText(x) /\ x.text = "today"
      <4>1. x \in Texts
        BY <3>1, BlockTypes
      <4>2. PICK y : y = [x EXCEPT !.text = "tomorrow"]
        OBVIOUS
      <4>3. Redate(x) = y /\ IsText(y) /\ y.text = "tomorrow"
        BY <3>1, <4>1, <4>2 DEF Redate, IsText, Texts
      <4>4. [y EXCEPT !.text = "blank"] = [x EXCEPT !.text = "blank"]
        BY <4>1, <4>2 DEF Texts
      <4>. QED BY <3>1, <4>3, <4>4 DEF StripCurrentDateBlock, StripText
    <3>2. CASE ~(IsText(x) /\ x.text = "today")
      BY <3>2 DEF Redate, IsText
    <3>. QED BY <3>1, <3>2
  <2>6. \A i \in DOMAIN s : s[i] \in Blocks
    OBVIOUS
  <2>7. [i \in DOMAIN f |-> StripCurrentDateBlock(f[i])] = [i \in DOMAIN s |-> StripCurrentDateBlock(s[i])]
    BY <2>2, <2>5, <2>6
  <2>8. PICK g : g = [i \in DOMAIN s |-> StripCurrentDateBlock(s[i])]
    OBVIOUS
  <2>9. StripDate(m) = [m EXCEPT !.blocks = g] /\ StripDate(n) = [n EXCEPT !.blocks = g]
    BY <1>2, <2>1, <2>4, <2>7, <2>8 DEF StripDate, OnBlocks
  <2>10. [n EXCEPT !.blocks = g] = [m EXCEPT !.blocks = g]
    BY <2>3 DEF Messages
  <2>. QED BY <2>4, <2>9, <2>10
<1>. QED BY <1>1, <1>2

LEMMA EarlierIsLeft ==
  ASSUME NEW b, Talks(b), NEW ms \in Seq(Messages), b.messages = ms, NEW before \in Earlier(b)
  PROVE  before \in Seq(Messages) /\ Translated(Left, before) = Translated(Left, ms)
<1>1. before \in Seq(Messages)
  BY EarlierType
<1>2. CASE before = ms
  BY <1>1, <1>2
<1>3. CASE before = OnMessages(b, Redated).messages
  <2>1. PICK f : f = [i \in DOMAIN ms |-> Redated(ms[i])]
    OBVIOUS
  <2>2. OnMessages(b, Redated) = [b EXCEPT !.messages = f] /\ IsRequest(b)
    BY <2>1 DEF OnMessages, Talks
  <2>3. before = f
    BY <1>3, <2>2, NewMessages
  <2>4. \A i \in DOMAIN ms : ms[i] \in Messages
    OBVIOUS
  <2>5. [i \in DOMAIN f |-> Left[f[i]]] = [i \in DOMAIN ms |-> Left[ms[i]]]
    BY <2>1, <2>4, RedatedIsLeft
  <2>. QED BY <1>1, <2>3, <2>5 DEF Translated
<1>. QED BY <1>2, <1>3 DEF Earlier

\* Of two conversations whose roles are decided, that one begins with what the other is, but
\* for a system message at its end that none of the assistant's follows.
Begins(r, q) ==
  /\ Len(r) <= Len(q)
  /\ \A i \in 1..Len(r) :
       \/ q[i] = r[i]
       \/ i = Len(r) /\ r[i].role = "system" /\ Len(q) > i /\ q[i + 1].role # "assistant"

\* The roles of a conversation, one after the other, and what comes of them.
RolesOf(a, R) ==
  /\ R[0] = "none"
  /\ \A i \in 1..Len(a.messages) :
       R[i] = IF a.messages[i].role = "system" /\ ~StaysSystem(a, i, R[i - 1]) THEN "user"
              ELSE a.messages[i].role
Rewritten(a, R) ==
  [i \in DOMAIN a.messages |-> IF R[i] = a.messages[i].role THEN a.messages[i] ELSE Prefixed(a.messages[i])]

LEMMA RolesAreOf ==
  ASSUME NEW a, IsRequest(a), a.messages \in Seq(Filled)
  PROVE  \E R : RolesOf(a, R) /\ RewriteMidConversationSystem(a) = [a EXCEPT !.messages = Rewritten(a, R)]
<1>1. Seq(Filled) \subseteq Seq(Messages)
  <2>1. Filled \subseteq Messages
    BY DEF Filled
  <2>. QED BY <2>1, OfWider
<1>2. a.messages \in Seq(Messages)
  BY <1>1
<1>. QED BY <1>2, RolesInTurn DEF RolesOf, Rewritten

LEMMA PrefixedType == \A m \in Messages : Prefixed(m) \in Messages
BY CountedWeighs, PrefixSaysNothing

LEMMA RewrittenType ==
  ASSUME NEW a, NEW ms \in Seq(Filled), a.messages = ms, NEW R, RolesOf(a, R)
  PROVE  LET r == Rewritten(a, R)
         IN /\ r \in Seq(Messages) /\ Len(r) = Len(ms)
            /\ \A i \in 1..Len(ms) :
                 /\ r[i] = (IF R[i] = ms[i].role THEN ms[i] ELSE Prefixed(ms[i]))
                 /\ r[i].role = R[i]
<1>1. PICK n \in Nat : n = Len(ms) /\ DOMAIN ms = 1..n /\ \A i \in 1..n : ms[i] \in Filled
  OBVIOUS
<1>2. PICK r : r = Rewritten(a, R)
  OBVIOUS
<1>3. \A i \in 1..n : r[i] = (IF R[i] = ms[i].role THEN ms[i] ELSE Prefixed(ms[i])) /\ ms[i] \in Messages
  BY <1>1, <1>2 DEF Rewritten, Filled
<1>4. r \in [1..n -> Messages]
  <2>1. DOMAIN r = 1..n /\ r = [i \in 1..n |-> r[i]]
    BY <1>1, <1>2 DEF Rewritten
  <2>2. \A i \in 1..n : r[i] \in Messages
    BY <1>3, PrefixedType
  <2>. QED BY <2>1, <2>2
<1>5. r \in Seq(Messages) /\ Len(r) = n
  BY <1>4
<1>6. ASSUME NEW i \in 1..n PROVE r[i].role = R[i]
  <2>1. CASE R[i] = ms[i].role
    BY <1>3, <2>1
  <2>2. CASE R[i] # ms[i].role
    <3>1. R[i] = "user"
      BY <1>1, <2>2 DEF RolesOf
    <3>. QED BY <1>1, <1>3, <2>2, <3>1, PrefixedFills
  <2>. QED BY <2>1, <2>2
<1>. QED BY <1>1, <1>2, <1>3, <1>5, <1>6

\* t is longer than s, or as long, and begins with it; and so do the roles Q.
Longer(t, s) == Len(s) <= Len(t) /\ \A i \in 1..Len(s) : t[i] = s[i]
Follow(Q, t, R, s) ==
  \A i \in 0..Len(s) :
    \/ Q[i] = R[i]
    \/ i = Len(s) /\ R[i] = "system" /\ Len(t) > i /\ t[i + 1].role # "assistant"

\* The roles of a longer conversation begin with those of the shorter.
LEMMA RolesAgree ==
  ASSUME NEW a, NEW s \in Seq(Filled), a.messages = s, NEW R, RolesOf(a, R),
         NEW c, NEW t \in Seq(Filled), c.messages = t, NEW Q, RolesOf(c, Q),
         a.model = c.model, Longer(t, s)
  PROVE  Follow(Q, t, R, s)
<1>1. PICK n \in Nat : n = Len(s) /\ \A i \in 1..n : t[i] = s[i]
  BY DEF Longer
<1>2. PICK m \in Nat : m = Len(t) /\ n <= m
  BY <1>1 DEF Longer
<1>. DEFINE Next(i) == i = n /\ R[i] = "system" /\ m > i /\ t[i + 1].role # "assistant"
            S == {i \in Nat : i <= n => Q[i] = R[i] \/ Next(i)}
<1>3. 0 \in S
  BY DEF RolesOf
<1>4. ASSUME NEW i \in Nat, i \in S PROVE i + 1 \in S
  <2>. SUFFICES ASSUME i + 1 <= n PROVE Q[i + 1] = R[i + 1] \/ Next(i + 1)
    OBVIOUS
  <2>1. PICK k : k = i + 1
    OBVIOUS
  <2>2. k \in 1..n /\ k \in 1..m /\ k - 1 = i /\ i # n /\ i <= n
    BY <1>2, <2>1
  <2>3. Q[i] = R[i]
    BY <1>4, <2>2
  <2>4. t[k] = s[k]
    BY <1>1, <2>2
  <2>5. /\ R[k] = IF s[k].role = "system" /\ ~StaysSystem(a, k, R[i]) THEN "user" ELSE s[k].role
        /\ Q[k] = IF s[k].role = "system" /\ ~StaysSystem(c, k, R[i]) THEN "user" ELSE s[k].role
    <3>1. R[k] = IF s[k].role = "system" /\ ~StaysSystem(a, k, R[k - 1]) THEN "user" ELSE s[k].role
      BY <1>1, <2>2 DEF RolesOf
    <3>2. Q[k] = IF t[k].role = "system" /\ ~StaysSystem(c, k, Q[k - 1]) THEN "user" ELSE t[k].role
      BY <1>2, <2>2 DEF RolesOf
    <3>. QED BY <2>2, <2>3, <2>4, <3>1, <3>2
  <2>6. /\ StaysSystem(a, k, R[i]) <=>
             Profile(a.model).system /\ R[i] = "user" /\ (k = n \/ s[k + 1].role = "assistant")
        /\ StaysSystem(c, k, R[i]) <=>
             Profile(a.model).system /\ R[i] = "user" /\ (k = m \/ t[k + 1].role = "assistant")
    BY <1>1, <1>2 DEF StaysSystem, LegalSystemPlacement
  <2>7. CASE k # n
    <3>1. k + 1 \in 1..n /\ k # m
      BY <1>2, <2>2, <2>7
    <3>2. t[k + 1] = s[k + 1]
      BY <1>1, <3>1
    <3>3. StaysSystem(a, k, R[i]) <=> StaysSystem(c, k, R[i])
      BY <2>6, <2>7, <3>1, <3>2
    <3>. QED BY <2>1, <2>5, <3>3
  <2>8. CASE k = n
    <3>1. CASE StaysSystem(a, k, R[i]) <=> StaysSystem(c, k, R[i])
      BY <2>1, <2>5, <3>1
    <3>2. CASE ~(StaysSystem(a, k, R[i]) <=> StaysSystem(c, k, R[i]))
      <4>1. StaysSystem(a, k, R[i]) /\ m # k /\ t[k + 1].role # "assistant"
        BY <2>6, <2>8, <3>2
      <4>2. m > k
        BY <1>2, <2>2, <4>1
      <4>3. s[k].role # "system" => R[k] = Q[k]
        BY <2>5
      <4>4. s[k].role = "system" => R[k] = "system"
        BY <2>5, <4>1
      <4>. QED BY <2>1, <2>8, <4>1, <4>2, <4>3, <4>4
    <3>. QED BY <3>1, <3>2
  <2>. QED BY <2>7, <2>8
<1>5. Nat \subseteq S
  <2>. HIDE DEF S
  <2>. QED BY <1>3, <1>4, Induction
<1>6. ASSUME NEW i \in 0..n PROVE Q[i] = R[i] \/ Next(i)
  <2>1. i \in S /\ i <= n
    BY <1>5
  <2>. QED BY <2>1
<1>. QED BY <1>1, <1>2, <1>6 DEF Follow

LEMMA RewrittenBegins ==
  ASSUME NEW a, NEW s \in Seq(Filled), a.messages = s, NEW R, RolesOf(a, R),
         NEW c, NEW t \in Seq(Filled), c.messages = t, NEW Q, RolesOf(c, Q),
         a.model = c.model, Longer(t, s)
  PROVE  Begins(Rewritten(a, R), Rewritten(c, Q))
<1>1. PICK r \in Seq(Messages) : /\ r = Rewritten(a, R) /\ Len(r) = Len(s)
                                 /\ \A i \in 1..Len(s) :
                                      /\ r[i] = (IF R[i] = s[i].role THEN s[i] ELSE Prefixed(s[i]))
                                      /\ r[i].role = R[i]
  BY RewrittenType
<1>2. PICK q \in Seq(Messages) : /\ q = Rewritten(c, Q) /\ Len(q) = Len(t)
                                 /\ \A i \in 1..Len(t) :
                                      /\ q[i] = (IF Q[i] = t[i].role THEN t[i] ELSE Prefixed(t[i]))
                                      /\ q[i].role = Q[i]
  BY RewrittenType
<1>3. PICK n \in Nat : n = Len(s) /\ \A i \in 1..n : t[i] = s[i]
  BY DEF Longer
<1>4. PICK m \in Nat : m = Len(t) /\ n <= m
  BY <1>3 DEF Longer
<1>5. Follow(Q, t, R, s)
  BY RolesAgree
<1>6. ASSUME NEW i \in 1..n
      PROVE  q[i] = r[i] \/ (i = n /\ r[i].role = "system" /\ m > i /\ q[i + 1].role # "assistant")
  <2>1. i \in 1..m /\ t[i] = s[i] /\ i \in 0..n
    BY <1>3, <1>4
  <2>2. CASE Q[i] = R[i]
    BY <1>1, <1>2, <1>3, <1>4, <2>1, <2>2
  <2>3. CASE i = n /\ R[i] = "system" /\ m > i /\ t[i + 1].role # "assistant"
    <3>1. i + 1 \in 1..m
      BY <2>1, <2>3
    <3>2. Q[i + 1] \in {"user", t[i + 1].role}
      BY <1>4, <3>1 DEF RolesOf
    <3>3. q[i + 1].role # "assistant"
      BY <1>2, <1>4, <2>3, <3>1, <3>2
    <3>4. r[i].role = "system"
      BY <1>1, <1>3, <2>3
    <3>. QED BY <2>3, <3>3, <3>4
  <2>4. Q[i] = R[i] \/ (i = n /\ R[i] = "system" /\ m > i /\ t[i + 1].role # "assistant")
    BY <1>3, <1>4, <1>5, <2>1 DEF Follow
  <2>. QED BY <2>2, <2>3, <2>4
<1>. QED BY <1>1, <1>2, <1>3, <1>4, <1>6 DEF Begins

LEMMA PrefixIs ==
  ASSUME NEW T, NEW f \in Seq(T), NEW q \in Seq(T), Len(f) <= Len(q), \A i \in 1..Len(f) : q[i] = f[i]
  PROVE  IsPrefix(f, q)
<1>1. PICK n \in Nat : n = Len(f)
  OBVIOUS
<1>2. SubSeq(f, 1, n) \in Seq(T) /\ SubSeq(q, 1, n) \in Seq(T) /\ Len(SubSeq(f, 1, n)) = n /\ Len(SubSeq(q, 1, n)) = n
  BY <1>1
<1>3. \A i \in 1..n : SubSeq(f, 1, n)[i] = SubSeq(q, 1, n)[i]
  BY <1>1
<1>4. SubSeq(f, 1, n) = SubSeq(q, 1, n)
  BY <1>2, <1>3, SeqEqual
<1>. QED BY <1>1, <1>4 DEF IsPrefix

LEMMA FrontIs ==
  ASSUME NEW T, NEW f \in Seq(T), f # <<>>
  PROVE  /\ Front(f) \in Seq(T) /\ Len(Front(f)) = Len(f) - 1 /\ Len(Front(f)) \in Nat
         /\ \A i \in 1..Len(Front(f)) : Front(f)[i] = f[i]
<1>1. PICK n \in Nat : n = Len(f) - 1
  OBVIOUS
<1>2. SubSeq(f, 1, n) \in Seq(T) /\ Len(SubSeq(f, 1, n)) = n /\ \A i \in 1..n : SubSeq(f, 1, n)[i] = f[i]
  BY <1>1
<1>3. Front(f) = SubSeq(f, 1, n)
  BY <1>1 DEF Front
<1>. QED BY <1>1, <1>2, <1>3

\* What is retained of a beginning of q is a beginning of it.
LEMMA RetainedIsPrefix ==
  ASSUME NEW f \in Seq(Messages), NEW q \in Seq(Messages), Len(f) <= Len(q), \A i \in 1..Len(f) : q[i] = f[i]
  PROVE  IsPrefix(Retained(f, q), q)
<1>1. IsPrefix(f, q)
  BY PrefixIs
<1>2. f # <<>> => IsPrefix(Front(f), q)
  <2>. SUFFICES ASSUME f # <<>> PROVE IsPrefix(Front(f), q)
    OBVIOUS
  <2>1. PICK g \in Seq(Messages) : /\ g = Front(f) /\ Len(g) = Len(f) - 1 /\ Len(g) \in Nat
                                   /\ \A i \in 1..Len(g) : g[i] = f[i]
    BY FrontIs
  <2>2. Len(g) <= Len(q) /\ \A i \in 1..Len(g) : q[i] = g[i]
    BY <2>1
  <2>. QED BY <2>1, <2>2, PrefixIs
<1>. QED BY <1>1, <1>2 DEF Retained

LEMMA ContinueType == Continue \in Messages /\ Continue.role = "user"
<1>1. PICK c \in Blocks : c = Text("continue")
  BY DEF Text, Texts, Contents, Blocks
<1>2. PICK p \in Seq(Blocks) : p = <<c>>
  <2>1. <<c>> \in Seq(Blocks)
    OBVIOUS
  <2>. QED BY <2>1
<1>3. Continue = [role |-> "user", plain |-> FALSE, blocks |-> p]
  BY <1>1, <1>2 DEF Continue
<1>. QED BY <1>3 DEF Messages, Roles

\* What was sent of r is sent again in what begins with r.
LEMMA SentAgain ==
  ASSUME NEW r \in Seq(Messages), NEW q \in Seq(Messages), Begins(r, q), NEW p \in Seq(Messages),
         p = r \/ (p = Append(r, Continue) /\ r # <<>> /\ Last(r).role = "assistant")
  PROVE  IsPrefix(Retained(SentOf(p), q), q)
<1>1. PICK n \in Nat : n = Len(r)
  OBVIOUS
<1>2. /\ n <= Len(q)
      /\ \A i \in 1..n : \/ q[i] = r[i]
                         \/ i = n /\ r[i].role = "system" /\ Len(q) > i /\ q[i + 1].role # "assistant"
  BY <1>1 DEF Begins
<1>3. \A i \in 1..(n - 1) : q[i] = r[i]
  BY <1>2
<1>4. r # <<>> => Last(r) = r[n] /\ n \in 1..n
  BY <1>1 DEF Last
<1>5. CASE p = Append(r, Continue) /\ r # <<>> /\ Last(r).role = "assistant"
  <2>1. PICK x \in Messages : x = Continue
    BY ContinueType
  <2>2. Len(p) = n + 1 /\ p[n + 1] = Continue /\ p # <<>> /\ \A i \in 1..n : p[i] = r[i]
    <3>1. Len(p) = n + 1 /\ p[n + 1] = x /\ \A i \in 1..n : p[i] = r[i]
      BY <1>1, <1>5, <2>1, AppendLast
    <3>. QED BY <1>1, <2>1, <3>1
  <2>3. SentOf(p) = Front(p)
    BY <2>2 DEF SentOf, Last
  <2>4. PICK g \in Seq(Messages) : /\ g = Front(p) /\ Len(g) = n /\ \A i \in 1..n : g[i] = p[i]
    BY <1>1, <2>2, FrontIs
  <2>5. \A i \in 1..n : q[i] = g[i]
    BY <1>2, <1>4, <1>5, <2>2, <2>4
  <2>. QED BY <1>2, <2>3, <2>4, <2>5, RetainedIsPrefix
<1>6. CASE p = r /\ r # <<>> /\ Last(r) = Continue
  <2>1. SentOf(p) = Front(r)
    BY <1>6 DEF SentOf
  <2>2. PICK g \in Seq(Messages) : /\ g = Front(r) /\ Len(g) = n - 1 /\ \A i \in 1..(n - 1) : g[i] = r[i]
    BY <1>1, <1>6, FrontIs
  <2>3. Len(g) <= Len(q) /\ \A i \in 1..Len(g) : q[i] = g[i]
    BY <1>2, <1>3, <2>2
  <2>. QED BY <2>1, <2>2, <2>3, RetainedIsPrefix
<1>7. CASE p = r /\ ~(r # <<>> /\ Last(r) = Continue)
  <2>1. SentOf(p) = r
    BY <1>7 DEF SentOf
  <2>2. CASE \A i \in 1..n : q[i] = r[i]
    BY <1>1, <1>2, <2>1, <2>2, RetainedIsPrefix
  <2>3. CASE ~\A i \in 1..n : q[i] = r[i]
    <3>1. n >= 1 /\ r[n].role = "system" /\ Len(q) > n /\ q[n + 1].role # "assistant"
      BY <1>2, <2>3
    <3>2. r # <<>> /\ Last(r).role = "system"
      BY <1>1, <3>1 DEF Last
    <3>3. Retained(r, q) = Front(r)
      BY <1>1, <3>1, <3>2 DEF Retained
    <3>4. PICK g \in Seq(Messages) : /\ g = Front(r) /\ Len(g) = n - 1 /\ \A i \in 1..(n - 1) : g[i] = r[i]
      BY <1>1, <3>2, FrontIs
    <3>5. Len(g) <= Len(q) /\ \A i \in 1..Len(g) : q[i] = g[i]
      BY <1>2, <1>3, <3>4
    <3>. QED BY <2>1, <3>3, <3>4, <3>5, PrefixIs
  <2>. QED BY <2>2, <2>3
<1>. QED BY <1>5, <1>6, <1>7

LEMMA BeginsStill ==
  ASSUME NEW r \in Seq(Messages), NEW q \in Seq(Messages), Begins(r, q), NEW n \in Seq(Messages),
         n = q \/ n = Append(q, Continue)
  PROVE  Begins(r, n)
<1>1. PICK x \in Messages : x = Continue
  BY ContinueType
<1>2. PICK k \in Nat : k = Len(q)
  OBVIOUS
<1>3. Len(n) >= k /\ \A i \in 1..k : n[i] = q[i]
  BY <1>1, <1>2, AppendLast
<1>4. PICK j \in Nat : j = Len(r) /\ j <= k
  BY <1>2 DEF Begins
<1>5. ASSUME NEW i \in 1..j
      PROVE  n[i] = r[i] \/ (i = j /\ r[i].role = "system" /\ Len(n) > i /\ n[i + 1].role # "assistant")
  <2>1. q[i] = r[i] \/ (i = j /\ r[i].role = "system" /\ k > i /\ q[i + 1].role # "assistant")
    BY <1>2, <1>4 DEF Begins
  <2>2. n[i] = q[i]
    BY <1>3, <1>4
  <2>3. k > i => n[i + 1] = q[i + 1] /\ Len(n) > i
    BY <1>3, <1>4
  <2>. QED BY <2>1, <2>2, <2>3
<1>. QED BY <1>3, <1>4, <1>5 DEF Begins

\* What is sent, once the roles are decided.
\* p is r, or r and the turn that the proxy adds.
Continued(p, r) ==
  /\ p \in Seq(Messages)
  /\ p = r \/ (p = Append(r, Continue) /\ r # <<>> /\ Last(r).role = "assistant")

LEMMA FixedTrailing ==
  ASSUME NEW a, IsRequest(a), NEW r \in Seq(Messages), NEW b, b = [a EXCEPT !.messages = r]
  PROVE  Continued(FixTrailingAssistant(b).messages, r)
<1>1. IsRequest(b) /\ b.messages = r
  BY NewMessages
<1>2. PICK x \in Messages : x = Continue
  BY ContinueType
<1>3. PICK s \in Seq(Messages) : s = Append(r, Continue)
  <2>1. Append(r, x) \in Seq(Messages)
    OBVIOUS
  <2>. QED BY <1>2, <2>1
<1>4. CASE r # <<>> /\ Last(r).role = "assistant"
  <2>1. FixTrailingAssistant(b) = [b EXCEPT !.messages = s]
    BY <1>1, <1>3, <1>4 DEF FixTrailingAssistant
  <2>2. [b EXCEPT !.messages = s].messages = s
    BY <1>1, NewMessages
  <2>. QED BY <1>3, <1>4, <2>1, <2>2 DEF Continued
<1>5. CASE ~(r # <<>> /\ Last(r).role = "assistant")
  <2>1. FixTrailingAssistant(b) = b
    BY <1>1, <1>5 DEF FixTrailingAssistant
  <2>. QED BY <1>1, <2>1 DEF Continued
<1>. QED BY <1>4, <1>5

\* However long the conversation is and however it goes on, with whatever dates: what was sent
\* of it is sent again at the next turn, but for a system message at its end that may not stand
\* before what follows (src/proxy/src/routes/claudeCodeCompat.ts).
THEOREM SentIsSentAgain == CompatSpec => PrefixKept
<1>1. ASSUME CompatInv, Done, NEW turn \in Turns, NextTurn(turn)
      PROVE  IsPrefix(Retained(SentOf(prepared.messages), prepared'.messages), prepared'.messages)
  <2>1. PICK ms \in Seq(Messages) : ms = given.messages /\ Talks(given) /\ IsRequest(given)
    BY <1>1 DEF CompatInv, Talks
  <2>2. PICK before \in Earlier(given) : given' = [given EXCEPT !.messages = before \o turn]
    BY <1>1 DEF NextTurn, Earlier
  <2>3. PICK bs \in Seq(Messages) : bs = before /\ Translated(Left, bs) = Translated(Left, ms)
    BY <2>1, <2>2, EarlierIsLeft
  <2>4. PICK ts \in Seq(Messages) : ts = turn
    BY TurnsAssumption
  <2>5. PICK ns \in Seq(Messages) : ns = bs \o ts
    <3>1. bs \o ts \in Seq(Messages)
      OBVIOUS
    <3>. QED BY <3>1
  <2>6. PICK g : g = given'
    OBVIOUS
  <2>7. Talks(g) /\ g.messages = ns /\ g.model = given.model
    <3>1. g = [given EXCEPT !.messages = ns]
      BY <2>2, <2>3, <2>4, <2>5, <2>6
    <3>. QED BY <2>1, <3>1, NewMessages, TalksStill
  <2>8. PICK a : /\ IsRequest(a) /\ a.model = Canonical(given.model) /\ a.messages = Translated(Left, ms)
                 /\ Preprocess(given) = FixTrailingAssistant(RewriteMidConversationSystem(a))
    BY <2>1, PreparedFrom
  <2>9. PICK c : /\ IsRequest(c) /\ c.model = Canonical(g.model) /\ c.messages = Translated(Left, ns)
                 /\ Preprocess(g) = FixTrailingAssistant(RewriteMidConversationSystem(c))
    BY <2>7, PreparedFrom
  <2>10. PICK s \in Seq(Filled), u \in Seq(Filled) : s = Translated(Left, ms) /\ u = Translated(Left, ts)
    BY LeftMakes, TranslatedType
  <2>11. PICK t \in Seq(Filled) : t = Translated(Left, ns) /\ t = s \o u
    <3>1. Translated(Left, bs \o ts) = Joined(Translated(Left, bs), Translated(Left, ts))
      BY LeftMakes, TranslatedJoined
    <3>2. Translated(Left, ns) = s \o u
      BY <2>3, <2>5, <2>10, <3>1 DEF Joined
    <3>3. s \o u \in Seq(Filled)
      OBVIOUS
    <3>. QED BY <3>2, <3>3
  <2>12. Longer(t, s)
    BY <2>11 DEF Longer
  <2>13. PICK R : RolesOf(a, R) /\ RewriteMidConversationSystem(a) = [a EXCEPT !.messages = Rewritten(a, R)]
    BY <2>8, <2>10, RolesAreOf
  <2>14. PICK Q : RolesOf(c, Q) /\ RewriteMidConversationSystem(c) = [c EXCEPT !.messages = Rewritten(c, Q)]
    BY <2>9, <2>11, RolesAreOf
  <2>15. PICK r \in Seq(Messages) : r = Rewritten(a, R)
    BY <2>8, <2>10, <2>13, RewrittenType
  <2>16. PICK q \in Seq(Messages) : q = Rewritten(c, Q)
    BY <2>9, <2>11, <2>14, RewrittenType
  <2>17. Begins(r, q)
    BY <2>7, <2>8, <2>9, <2>10, <2>11, <2>12, <2>13, <2>14, <2>15, <2>16, RewrittenBegins
  <2>18. PICK p \in Seq(Messages) :
           /\ p = prepared.messages
           /\ p = r \/ (p = Append(r, Continue) /\ r # <<>> /\ Last(r).role = "assistant")
    <3>1. prepared = FixTrailingAssistant(RewriteMidConversationSystem(a))
      BY <1>1, <2>8 DEF CompatInv
    <3>2. PICK b : b = RewriteMidConversationSystem(a) /\ b = [a EXCEPT !.messages = r]
      BY <2>13, <2>15
    <3>3. Continued(FixTrailingAssistant(b).messages, r)
      BY <2>8, <3>2, FixedTrailing
    <3>. QED BY <3>1, <3>2, <3>3 DEF Continued
  <2>19. PICK n \in Seq(Messages) :
           /\ n = prepared'.messages
           /\ n = q \/ (n = Append(q, Continue) /\ q # <<>> /\ Last(q).role = "assistant")
    <3>1. prepared' = FixTrailingAssistant(RewriteMidConversationSystem(c))
      BY <1>1, <2>6, <2>9 DEF NextTurn
    <3>2. PICK b : b = RewriteMidConversationSystem(c) /\ b = [c EXCEPT !.messages = q]
      BY <2>14, <2>16
    <3>3. Continued(FixTrailingAssistant(b).messages, q)
      BY <2>9, <3>2, FixedTrailing
    <3>. QED BY <3>1, <3>2, <3>3 DEF Continued
  <2>20. Begins(r, n)
    BY <2>17, <2>19, BeginsStill
  <2>. QED BY <2>18, <2>19, <2>20, SentAgain
<1>2. CompatInv /\ [CompatNext]_compatVars
        => [Done => IsPrefix(Retained(SentOf(prepared.messages), prepared'.messages), prepared'.messages)]_compatVars
  BY <1>1 DEF CompatNext, Prepare
<1>. QED BY <1>2, CompatInvariance, PTL DEF CompatSpec, PrefixKept
=============================================================================
