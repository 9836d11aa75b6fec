---------------------- MODULE DesktopChatContextProofs ----------------------
(***************************************************************************)
(* Theorems about the context DesktopChat sends: its types, its sizes and  *)
(* which messages are in it, for every configuration that loads and every  *)
(* conversation.                                                           *)
(*                                                                         *)
(* They need induction over the length of a sequence.  It is done with     *)
(* sets: what holds of every number is the set of the numbers it holds of. *)
(***************************************************************************)
EXTENDS DesktopChatProofs, FiniteSetTheorems, WellFoundedInduction
-----------------------------------------------------------------------------
(* Induction *)

\* A set of naturals that is not empty has a least member, because the intervals
\* 0..n that belong to its members have a smallest one.
LEMMA LeastMember ==
  ASSUME NEW T \in SUBSET Nat, T # {}
  PROVE  \E m \in T : \A k \in T : m <= k
<1>1. PICK top \in T : TRUE
  OBVIOUS
<1>. DEFINE U == {n \in T : n <= top}
            R == StrictSubsetOrdering(0..top)
            D == {0..n : n \in U}
<1>2. top \in U /\ top \in Nat
  OBVIOUS
<1>3. D \subseteq FiniteSubsetsOf(0..top)
  <2>1. ASSUME NEW n \in U PROVE 0..n \in FiniteSubsetsOf(0..top)
    <3>1. n \in Nat /\ n <= top
      OBVIOUS
    <3>2. 0..n \subseteq 0..top /\ IsFiniteSet(0..n)
      BY <1>2, <3>1, FS_Interval
    <3>. QED
      BY <3>2 DEF FiniteSubsetsOf
  <2>. QED
    BY <2>1
<1>4. D # {}
  BY <1>2
<1>5. IsWellFoundedOn(R, FiniteSubsetsOf(0..top))
  BY FS_StrictSubsetOrderingWellFounded
<1>. HIDE DEF R
<1>6. PICK x \in D : \A y \in D : ~(<<y, x>> \in R)
  <2>. HIDE DEF D
  <2>. QED
    BY <1>3, <1>4, <1>5, WFMin
<1>7. PICK m \in U : x = 0..m
  OBVIOUS
<1>8. ASSUME NEW k \in T, k < m PROVE FALSE
  <2>1. k \in U /\ 0..k \in D
    BY <1>2, <1>8
  <2>2. 0..k \in SUBSET (0..top) /\ 0..m \in SUBSET (0..top)
    BY <1>2, <2>1
  <2>3. 0..k \subseteq 0..m /\ 0..k # 0..m
    BY <1>8, <2>1
  <2>4. <<0..k, x>> \in R
    BY <1>7, <2>2, <2>3 DEF R, StrictSubsetOrdering
  <2>. QED
    BY <1>6, <2>1, <2>4
<1>. QED
  BY <1>2, <1>7, <1>8

LEMMA InductionBySets ==
  ASSUME NEW A \in SUBSET Nat, 0 \in A, \A n \in A : n + 1 \in A
  PROVE  A = Nat
<1>1. SUFFICES ASSUME Nat \ A # {} PROVE FALSE
  OBVIOUS
<1>2. PICK m \in Nat \ A : \A k \in Nat \ A : m <= k
  BY <1>1, LeastMember
<1>3. m - 1 \in Nat /\ ~(m <= m - 1)
  BY <1>2
<1>4. m - 1 \in A
  BY <1>2, <1>3
<1>. QED
  BY <1>2, <1>3, <1>4
-----------------------------------------------------------------------------
(* Sums *)

\* f holds the sums of the sizes of the first n messages.
AddsUp(f, seq) ==
  /\ DOMAIN f = 0..Len(seq)
  /\ f[0] = 0
  /\ \A n \in 1..Len(seq) : f[n] = f[n - 1] + seq[n].chars

LEMMA SumsExist ==
  ASSUME NEW seq \in Seq(Messages)
  PROVE  \E f \in [0..Len(seq) -> Nat] : AddsUp(f, seq)
<1>1. Len(seq) \in Nat /\ \A n \in 1..Len(seq) : seq[n].chars \in Nat
  <2>1. Len(seq) \in Nat /\ \A n \in 1..Len(seq) : seq[n] \in Messages
    BY LenProperties
  <2>. QED
    BY <2>1 DEF Messages
<1>. DEFINE upTo(n, f) == f[0] = 0 /\ \A k \in 1..n : f[k] = f[k - 1] + seq[k].chars
            A == {n \in Nat : n <= Len(seq) => \E f \in [0..n -> Nat] : upTo(n, f)}
<1>2. 0 \in A
  <2>. DEFINE f == [k \in 0..0 |-> 0]
  <2>1. f \in [0..0 -> Nat] /\ upTo(0, f)
    OBVIOUS
  <2>. QED
    BY <2>1
<1>3. ASSUME NEW n \in A PROVE n + 1 \in A
  <2>0. n \in Nat /\ (n <= Len(seq) => \E f \in [0..n -> Nat] : upTo(n, f))
    <3>. HIDE DEF upTo
    <3>. QED
      OBVIOUS
  <2>1. SUFFICES ASSUME n + 1 <= Len(seq)
                 PROVE  \E f \in [0..(n + 1) -> Nat] : upTo(n + 1, f)
    <3>. HIDE DEF upTo
    <3>. QED
      BY <2>0
  <2>2. n + 1 \in 1..Len(seq) /\ n <= Len(seq)
    BY <1>1, <2>0, <2>1
  <2>3. PICK f \in [0..n -> Nat] : upTo(n, f)
    <3>. HIDE DEF upTo
    <3>. QED
      BY <2>0, <2>2
  <2>. DEFINE g == [k \in 0..(n + 1) |-> IF k <= n THEN f[k] ELSE f[n] + seq[n + 1].chars]
  <2>4. g \in [0..(n + 1) -> Nat]
    <3>1. seq[n + 1].chars \in Nat /\ f[n] \in Nat
      BY <1>1, <2>2, <2>3
    <3>2. \A k \in 0..(n + 1) : k <= n => f[k] \in Nat
      BY <2>0, <2>2, <2>3
    <3>. QED
      BY <3>1, <3>2
  <2>5. g[0] = 0
    BY <2>0, <2>2, <2>3
  <2>6. ASSUME NEW k \in 1..(n + 1) PROVE g[k] = g[k - 1] + seq[k].chars
    <3>1. CASE k <= n
      <4>1. k \in 1..n /\ k - 1 \in 0..n /\ k - 1 <= n /\ k - 1 \in 0..(n + 1) /\ k \in 0..(n + 1)
        BY <2>0, <2>2, <3>1
      <4>2. f[k] = f[k - 1] + seq[k].chars
        BY <2>3, <4>1
      <4>. QED
        BY <3>1, <4>1, <4>2
    <3>2. CASE ~(k <= n)
      <4>1. k = n + 1 /\ k - 1 = n /\ n \in 0..(n + 1) /\ n + 1 \in 0..(n + 1) /\ n <= n
        BY <2>0, <2>2, <3>2
      <4>. QED
        BY <3>2, <4>1
    <3>. QED
      BY <3>1, <3>2
  <2>. QED
    BY <2>4, <2>5, <2>6
<1>4. A = Nat
  <2>. HIDE DEF A
  <2>1. A \in SUBSET Nat
    BY DEF A
  <2>. QED
    BY <1>2, <1>3, <2>1, InductionBySets
<1>5. PICK f \in [0..Len(seq) -> Nat] : upTo(Len(seq), f)
  <2>. HIDE DEF upTo
  <2>1. Len(seq) \in A
    <3>. HIDE DEF A
    <3>. QED
      BY <1>1, <1>4
  <2>. QED
    BY <1>1, <2>1
<1>. QED
  BY <1>5 DEF AddsUp

LEMMA SumCharsAddsUp ==
  ASSUME NEW seq \in Seq(Messages)
  PROVE  \E f \in [0..Len(seq) -> Nat] : AddsUp(f, seq) /\ SumChars(seq) = f[Len(seq)]
<1>. DEFINE body(g) == [n \in 0..Len(seq) |-> IF n = 0 THEN 0 ELSE g[n - 1] + seq[n].chars]
            sum == CHOOSE g : g = body(g)
<1>1. Len(seq) \in Nat
  BY LenProperties
<1>2. PICK f \in [0..Len(seq) -> Nat] : AddsUp(f, seq)
  BY SumsExist
<1>3. f = body(f)
  BY <1>1, <1>2 DEF AddsUp
<1>4. sum = body(sum)
  BY <1>3
<1>5. SumChars(seq) = sum[Len(seq)]
  BY DEF SumChars
<1>. HIDE DEF sum
<1>6. DOMAIN sum = 0..Len(seq) /\ sum[0] = 0
      /\ \A n \in 1..Len(seq) : sum[n] = sum[n - 1] + seq[n].chars
  <2>1. /\ DOMAIN sum = 0..Len(seq)
        /\ \A n \in 0..Len(seq) :
             sum[n] = IF n = 0 THEN 0 ELSE sum[n - 1] + seq[n].chars
    BY <1>4
  <2>2. 0 \in 0..Len(seq) /\ \A n \in 1..Len(seq) : n \in 0..Len(seq) /\ n # 0
    BY <1>1
  <2>. QED
    BY <2>1, <2>2
<1>. DEFINE A == {n \in Nat : n <= Len(seq) => sum[n] = f[n]}
<1>7. 0 \in A
  BY <1>2, <1>6 DEF AddsUp
<1>8. ASSUME NEW n \in A PROVE n + 1 \in A
  <2>1. SUFFICES ASSUME n + 1 <= Len(seq) PROVE sum[n + 1] = f[n + 1]
    OBVIOUS
  <2>2. n \in Nat /\ n + 1 \in 1..Len(seq) /\ (n + 1) - 1 = n /\ n <= Len(seq)
    BY <1>1, <2>1
  <2>. QED
    BY <1>2, <1>6, <2>2 DEF AddsUp
<1>9. A = Nat
  <2>. HIDE DEF A
  <2>1. A \in SUBSET Nat
    BY DEF A
  <2>. QED
    BY <1>7, <1>8, <2>1, InductionBySets
<1>10. SumChars(seq) = f[Len(seq)]
  BY <1>1, <1>5, <1>9
<1>. QED
  BY <1>2, <1>10

LEMMA SizesAreNatural ==
  ASSUME NEW seq \in Seq(Messages)
  PROVE  /\ Len(seq) \in Nat
         /\ \A n \in 1..Len(seq) : seq[n] \in Messages /\ seq[n].chars \in Nat
         /\ SumChars(seq) \in Nat
<1>1. Len(seq) \in Nat /\ \A n \in 1..Len(seq) : seq[n] \in Messages
  BY LenProperties
<1>2. SumChars(seq) \in Nat
  BY <1>1, SumCharsAddsUp
<1>. QED
  BY <1>1, <1>2 DEF Messages

LEMMA SumOfTwo ==
  ASSUME NEW seq \in Seq(Messages), Len(seq) = 2
  PROVE  SumChars(seq) = seq[1].chars + seq[2].chars
<1>1. PICK f \in [0..2 -> Nat] : AddsUp(f, seq) /\ SumChars(seq) = f[2]
  BY SumCharsAddsUp
<1>2. f[0] = 0 /\ f[1] = f[1 - 1] + seq[1].chars /\ f[2] = f[2 - 1] + seq[2].chars
  BY <1>1 DEF AddsUp
<1>3. seq[1].chars \in Nat /\ seq[2].chars \in Nat
  <2>1. 1 \in 1..Len(seq) /\ 2 \in 1..Len(seq)
    OBVIOUS
  <2>. QED
    BY <2>1, SizesAreNatural
<1>. QED
  BY <1>1, <1>2, <1>3

\* The total the loop keeps: without the second message the sum is less by its size.
LEMMA SumWithoutSecond ==
  ASSUME NEW seq \in Seq(Messages), NEW t \in Seq(Messages),
         Len(seq) >= 2, Len(t) = Len(seq) - 1, t[1] = seq[1],
         \A i \in 2..Len(t) : t[i] = seq[i + 1]
  PROVE  SumChars(seq) = SumChars(t) + seq[2].chars
<1>1. PICK f \in [0..Len(seq) -> Nat] : AddsUp(f, seq) /\ SumChars(seq) = f[Len(seq)]
  BY SumCharsAddsUp
<1>2. PICK g \in [0..Len(t) -> Nat] : AddsUp(g, t) /\ SumChars(t) = g[Len(t)]
  BY SumCharsAddsUp
<1>3. /\ Len(seq) \in Nat /\ Len(t) \in Nat
      /\ seq[1].chars \in Nat /\ seq[2].chars \in Nat
  BY SizesAreNatural
<1>4. /\ f[0] = 0 /\ g[0] = 0
      /\ f[1] = f[1 - 1] + seq[1].chars /\ f[2] = f[2 - 1] + seq[2].chars
      /\ g[1] = g[1 - 1] + t[1].chars
  BY <1>1, <1>2, <1>3 DEF AddsUp
<1>. DEFINE A == {n \in Nat : n + 1 <= Len(t) => f[n + 2] = g[n + 1] + seq[2].chars}
<1>5. 0 \in A
  BY <1>3, <1>4
<1>6. ASSUME NEW n \in A PROVE n + 1 \in A
  <2>1. SUFFICES ASSUME (n + 1) + 1 <= Len(t)
                 PROVE  f[(n + 1) + 2] = g[(n + 1) + 1] + seq[2].chars
    OBVIOUS
  <2>2. n \in Nat /\ f[n + 2] = g[n + 1] + seq[2].chars
    BY <1>3, <2>1
  <2>3. n + 3 \in 1..Len(seq) /\ n + 2 \in 2..Len(t) /\ n + 2 \in 1..Len(t)
        /\ (n + 3) - 1 = n + 2 /\ (n + 2) - 1 = n + 1 /\ (n + 2) + 1 = n + 3
        /\ (n + 1) + 2 = n + 3 /\ (n + 1) + 1 = n + 2
    BY <1>3, <2>1, <2>2
  <2>4. f[n + 3] = f[n + 2] + seq[n + 3].chars /\ g[n + 2] = g[n + 1] + t[n + 2].chars
    BY <1>1, <1>2, <2>3 DEF AddsUp
  <2>5. t[n + 2] = seq[n + 3]
    BY <2>3
  <2>6. g[n + 1] \in Nat /\ seq[n + 3].chars \in Nat
    <3>1. n + 1 \in 0..Len(t)
      BY <1>3, <2>1, <2>2
    <3>. QED
      BY <1>2, <2>3, <3>1, SizesAreNatural
  <2>. QED
    BY <1>3, <2>2, <2>3, <2>4, <2>5, <2>6
<1>7. A = Nat
  <2>. HIDE DEF A
  <2>1. A \in SUBSET Nat
    BY DEF A
  <2>. QED
    BY <1>5, <1>6, <2>1, InductionBySets
<1>8. Len(t) - 1 \in A /\ (Len(t) - 1) + 1 = Len(t) /\ (Len(t) - 1) + 2 = Len(seq)
  <2>. HIDE DEF A
  <2>. QED
    BY <1>3, <1>7
<1>. QED
  BY <1>1, <1>2, <1>3, <1>8

LEMMA SecondRemoved ==
  ASSUME NEW seq \in Seq(Messages), Len(seq) > 2
  PROVE  LET t == RemoveAt(seq, 2)
         IN  /\ t \in Seq(Messages)
             /\ Len(t) = Len(seq) - 1
             /\ t[1] = seq[1]
             /\ \A i \in 2..Len(t) : t[i] = seq[i + 1]
<1>. DEFINE a == SubSeq(seq, 1, 1)
            b == SubSeq(seq, 3, Len(seq))
<1>1. Len(seq) \in Nat /\ \A n \in 1..Len(seq) : seq[n] \in Messages
  BY SizesAreNatural
<1>2. a \in Seq(Messages) /\ Len(a) = 1 /\ a[1] = seq[1]
  <2>1. \A i \in 1..1 : seq[i] \in Messages
    BY <1>1
  <2>2. /\ a \in Seq(Messages) /\ Len(a) = IF 1 <= 1 THEN 1 - 1 + 1 ELSE 0
        /\ \A i \in 1..(1 - 1 + 1) : a[i] = seq[1 + i - 1]
    BY <2>1, SubSeqProperties
  <2>. HIDE DEF a
  <2>. QED
    BY <2>2
<1>3. /\ b \in Seq(Messages) /\ Len(b) = Len(seq) - 2
      /\ \A i \in 1..(Len(seq) - 2) : b[i] = seq[i + 2]
  <2>1. \A i \in 3..Len(seq) : seq[i] \in Messages
    BY <1>1
  <2>2. /\ b \in Seq(Messages)
        /\ Len(b) = IF 3 <= Len(seq) THEN Len(seq) - 3 + 1 ELSE 0
        /\ \A i \in 1..(Len(seq) - 3 + 1) : b[i] = seq[3 + i - 1]
    BY <1>1, <2>1, SubSeqProperties
  <2>. HIDE DEF b
  <2>. QED
    BY <1>1, <2>2
<1>4. RemoveAt(seq, 2) = a \o b
  BY DEF RemoveAt
<1>. HIDE DEF a, b
<1>5. /\ a \o b \in Seq(Messages) /\ Len(a \o b) = Len(a) + Len(b)
      /\ \A i \in 1..(Len(a) + Len(b)) :
           (a \o b)[i] = IF i <= Len(a) THEN a[i] ELSE b[i - Len(a)]
  BY <1>2, <1>3, ConcatProperties
<1>6. (a \o b)[1] = seq[1]
  BY <1>1, <1>2, <1>3, <1>5
<1>7. ASSUME NEW i \in 2..Len(a \o b) PROVE (a \o b)[i] = seq[i + 1]
  <2>1. i - 1 \in 1..(Len(seq) - 2) /\ ~(i <= 1) /\ i \in 1..(Len(a) + Len(b)) /\ (i - 1) + 2 = i + 1
    BY <1>1, <1>2, <1>3, <1>5
  <2>. QED
    BY <1>2, <1>3, <1>5, <2>1
<1>8. Len(a \o b) = Len(seq) - 1
  BY <1>1, <1>2, <1>3, <1>5
<1>. QED
  BY <1>4, <1>5, <1>6, <1>7, <1>8
-----------------------------------------------------------------------------
(* Type correctness *)

TypesRest ==
  /\ phase \in Phases
  /\ Accepted(config)
  /\ answer.status \in Statuses
  /\ lines \in 0..MaxLines

LEMMA TypesRestStep ==
  ASSUME ChatInv, TypesRest, [Next]_vars
  PROVE  TypesRest'
<1>0. TypesFit
  BY DEF ChatInv
<1>1. ASSUME NEW env \in Environments, NEW over \in Overrides, Start(env, over)
      PROVE  TypesRest'
  BY <1>1, LoadedFits DEF Start, TypesRest, Phases
<1>2. ASSUME NEW line \in Lines, Refuse(line) \/ Ask(line) PROVE TypesRest'
  <2>1. lines' \in 0..MaxLines
    BY <1>2, ChatAssumption DEF Refuse, Ask, TypesRest
  <2>2. UNCHANGED config /\ phase' \in Phases /\ answer'.status \in Statuses
    BY <1>2 DEF Refuse, Ask, TypesRest, Phases, Statuses
  <2>. QED
    BY <2>1, <2>2 DEF TypesRest
<1>3. ASSUME NEW call \in Calls, WorkerEnds(call) PROVE TypesRest'
  BY <1>3 DEF WorkerEnds, TypesRest
<1>4. CASE Succeed
  <2>1. answer'.status = "ok"
    BY <1>4 DEF Succeed
  <2>. QED
    BY <1>4, <2>1 DEF Succeed, TypesRest, Phases, Statuses, TurnStatuses
<1>5. CASE Fail
  <2>1. reply.result \in GenerationResults
    BY <1>0, <1>5, GenerateResults DEF Fail, TypesFit, Replies, NoReply
  <2>2. StatusOf(reply.result) \in Statuses
    BY <2>1 DEF StatusOf, GenerationResults, Statuses, TurnStatuses
  <2>. QED
    BY <1>5, <2>2 DEF Fail, TypesRest, Phases
<1>6. CASE TimeOut
  BY <1>6 DEF TimeOut, TypesRest, Phases, Statuses, TurnStatuses
<1>7. CASE Trim \/ Submit \/ Show \/ Crash \/ Leave
  BY <1>7 DEF Trim, Submit, Show, Crash, Leave, TypesRest, Phases
<1>8. CASE UNCHANGED vars
  BY <1>8 DEF vars, TypesRest
<1>. QED
  BY <1>1, <1>2, <1>3, <1>4, <1>5, <1>6, <1>7, <1>8 DEF Next, Work
-----------------------------------------------------------------------------
(***************************************************************************)
(* The context.  What is sent is known only when the loop stops; before,   *)
(* it is the end of the history to which the message before it can no      *)
(* longer be added.  The running total is the sum it stands for.           *)
(***************************************************************************)

Kept == Len(draft) - 2
ContextLimit == Limit("max_context_chars")

EndOfTheHistory ==
  /\ Kept \in 0..Len(messages)
  /\ draft[1] = Message("system", Limit("system_prompt"))
  /\ \A i \in 1..Kept : draft[i + 1] = messages[Len(messages) - Kept + i]
  /\ Kept < Len(messages)
       => SumChars(draft) + messages[Len(messages) - Kept].chars > ContextLimit

QuestionFits ==
  Question.role = "user" /\ Question.chars <= Limit("max_message_chars")

ContextInv ==
  /\ total = SumChars(draft)
  /\ phase \in {"trimming", "waiting"} => EndOfTheHistory /\ QuestionFits
  /\ phase = "waiting" => ~Overfull

LEMMA ContextInit == Init => ContextInv
<1>1. <<>> \in Seq(Messages) /\ Len(<<>>) = 0
  OBVIOUS
<1>2. SumChars(<<>>) = 0
  <2>1. PICK f \in [0..Len(<<>>) -> Nat] : AddsUp(f, <<>>) /\ SumChars(<<>>) = f[Len(<<>>)]
    BY <1>1, SumCharsAddsUp
  <2>. QED
    BY <1>1, <2>1 DEF AddsUp
<1>. QED
  BY <1>2 DEF Init, ContextInv

\* Steps that leave the request alone, or after which there is none.
LEMMA ContextKept ==
  ASSUME ContextInv, UNCHANGED <<draft, total>>,
         phase' \in {"trimming", "waiting"}
           => phase \in {"trimming", "waiting"} /\ UNCHANGED <<config, messages>>,
         phase' = "waiting" => ~Overfull
  PROVE  ContextInv'
BY DEF ContextInv, EndOfTheHistory, QuestionFits, Question, Kept, ContextLimit, Limit, Overfull

LEMMA AskContext ==
  ASSUME ChatInv, ContextInv, NEW line \in Lines, Ask(line)
  PROVE  ContextInv'
<1>. DEFINE prompt == Message("system", Limit("system_prompt"))
            asked == Message("user", line.chars)
            d == <<prompt>> \o messages \o <<asked>>
<1>1. /\ TypesFit /\ line.chars \in Nat /\ Limit("system_prompt") \in Nat
      /\ messages \in Seq(Messages)
  BY ChatAssumption DEF ChatInv, TypesFit, LimitsFit, Limit
<1>2. prompt \in Messages /\ asked \in Messages
  BY <1>1 DEF Message, Messages
<1>3. /\ draft' = d /\ total' = SumChars(draft') /\ phase' = "trimming"
      /\ UNCHANGED <<config, messages>> /\ ~TooLarge(line)
  BY DEF Ask
<1>. HIDE DEF prompt
<1>4. /\ <<prompt>> \o messages \in Seq(Messages)
      /\ Len(<<prompt>> \o messages) = Len(messages) + 1
      /\ (<<prompt>> \o messages)[1] = prompt
      /\ \A i \in 1..Len(messages) : (<<prompt>> \o messages)[i + 1] = messages[i]
      /\ Len(messages) \in Nat
  <2>1. <<prompt>> \in Seq(Messages) /\ Len(<<prompt>>) = 1 /\ <<prompt>>[1] = prompt
    BY <1>2
  <2>2. /\ <<prompt>> \o messages \in Seq(Messages)
        /\ Len(<<prompt>> \o messages) = 1 + Len(messages)
        /\ \A i \in 1..(1 + Len(messages)) :
             (<<prompt>> \o messages)[i] = IF i <= 1 THEN <<prompt>>[i] ELSE messages[i - 1]
    BY <1>1, <2>1, ConcatProperties
  <2>3. Len(messages) \in Nat
    BY <1>1, SizesAreNatural
  <2>. QED
    BY <2>1, <2>2, <2>3
<1>5. /\ Len(d) = Len(messages) + 2
      /\ d[1] = prompt /\ d[Len(d)] = asked
      /\ \A i \in 1..Len(messages) : d[i + 1] = messages[i]
  <2>. DEFINE c == <<prompt>> \o messages
              q == <<asked>>
  <2>1. q \in Seq(Messages) /\ Len(q) = 1 /\ q[1] = asked
    BY <1>2
  <2>. HIDE DEF c, q
  <2>2. c \in Seq(Messages) /\ Len(c) = Len(messages) + 1
    BY <1>4 DEF c
  <2>3. /\ Len(c \o q) = Len(c) + Len(q)
        /\ \A i \in 1..(Len(c) + Len(q)) :
             (c \o q)[i] = IF i <= Len(c) THEN c[i] ELSE q[i - Len(c)]
    BY <2>1, <2>2, ConcatProperties
  <2>4. \A i \in 1..(Len(messages) + 1) : (c \o q)[i] = c[i]
    BY <1>4, <2>2, <2>3
  <2>5. (c \o q)[Len(messages) + 2] = asked
    BY <1>4, <2>1, <2>2, <2>3
  <2>6. d = c \o q
    BY DEF c, q
  <2>. QED
    BY <1>4, <2>2, <2>3, <2>4, <2>5, <2>6 DEF c
<1>. HIDE DEF d
<1>6. EndOfTheHistory'
  BY <1>3, <1>4, <1>5 DEF EndOfTheHistory, Kept, Limit, prompt
<1>7. QuestionFits'
  <2>1. Question' = Message("user", line.chars)
    BY <1>3, <1>5 DEF Question
  <2>2. line.chars <= Limit("max_message_chars")
    BY <1>1, <1>3 DEF TooLarge, TypesFit, LimitsFit, Limit
  <2>. QED
    BY <1>3, <2>1, <2>2 DEF QuestionFits, Message, Limit
<1>. QED
  BY <1>3, <1>6, <1>7 DEF ContextInv

LEMMA TrimContext ==
  ASSUME ChatInv, ContextInv, Trim
  PROVE  ContextInv'
<1>1. /\ messages \in Seq(Messages) /\ draft \in Seq(Messages)
      /\ EndOfTheHistory /\ QuestionFits /\ total = SumChars(draft)
  BY DEF ChatInv, TypesFit, Trim, ContextInv
<1>2. /\ Len(draft) \in Nat /\ Len(draft) > 2 /\ Len(messages) \in Nat
      /\ draft[2].chars \in Nat /\ SumChars(draft) \in Nat
  <2>1. Len(draft) \in Nat /\ Len(draft) > 2 /\ Len(messages) \in Nat
    BY <1>1, SizesAreNatural DEF Trim, Overfull
  <2>2. 2 \in 1..Len(draft)
    BY <2>1
  <2>. QED
    BY <1>1, <2>1, <2>2, SizesAreNatural
<1>3. /\ draft' = RemoveAt(draft, 2) /\ total' = total - draft[2].chars
      /\ phase' = "trimming" /\ UNCHANGED <<config, messages>>
      /\ total > ContextLimit
  BY DEF Trim, Overfull, ContextLimit
<1>4. /\ draft' \in Seq(Messages) /\ Len(draft') = Len(draft) - 1
      /\ draft'[1] = draft[1]
      /\ \A i \in 2..Len(draft') : draft'[i] = draft[i + 1]
  BY <1>1, <1>2, <1>3, SecondRemoved
<1>5. SumChars(draft) = SumChars(draft') + draft[2].chars /\ SumChars(draft') \in Nat
  <2>. DEFINE t == draft'
  <2>1. /\ t \in Seq(Messages) /\ Len(t) = Len(draft) - 1 /\ t[1] = draft[1]
        /\ \A i \in 2..Len(t) : t[i] = draft[i + 1]
    BY <1>4
  <2>2. Len(draft) >= 2
    BY <1>2
  <2>. HIDE DEF t
  <2>3. SumChars(draft) = SumChars(t) + draft[2].chars
    BY <1>1, <2>1, <2>2, SumWithoutSecond
  <2>4. SumChars(t) \in Nat
    BY <2>1, SizesAreNatural
  <2>. QED
    BY <2>3, <2>4 DEF t
<1>6. total' = SumChars(draft')
  BY <1>1, <1>2, <1>3, <1>5
<1>7. draft[2] = messages[Len(messages) - Kept + 1] /\ Kept' = Kept - 1
  <2>1. 1 \in 1..Kept /\ Kept' = Kept - 1
    BY <1>2, <1>4 DEF Kept
  <2>. QED
    BY <1>1, <2>1 DEF EndOfTheHistory
<1>8. EndOfTheHistory'
  <2>1. Kept' \in 0..Len(messages) /\ Kept \in 1..Len(messages)
    BY <1>1, <1>2, <1>7 DEF EndOfTheHistory, Kept
  <2>2. ASSUME NEW i \in 1..Kept'
        PROVE  draft'[i + 1] = messages[Len(messages) - Kept' + i]
    <3>1. i + 1 \in 2..Len(draft') /\ i + 1 \in 1..Kept
          /\ Len(messages) - Kept' + i = Len(messages) - Kept + (i + 1)
      BY <1>2, <1>4, <1>7, <2>1 DEF Kept
    <3>. QED
      BY <1>1, <1>4, <3>1 DEF EndOfTheHistory
  <2>3. SumChars(draft') + messages[Len(messages) - Kept'].chars > ContextLimit
    <3>1. Len(messages) - Kept' = Len(messages) - Kept + 1
      BY <1>2, <1>7, <2>1
    <3>. QED
      BY <1>1, <1>3, <1>5, <1>7, <3>1
  <2>4. draft'[1] = Message("system", Limit("system_prompt"))
    BY <1>1, <1>4 DEF EndOfTheHistory
  <2>5. UNCHANGED <<messages, Limit("system_prompt"), ContextLimit>>
    BY <1>3 DEF Limit, ContextLimit
  <2>. QED
    BY <2>1, <2>2, <2>3, <2>4, <2>5 DEF EndOfTheHistory
<1>9. QuestionFits'
  <2>1. Len(draft') \in 2..Len(draft') /\ Len(draft') + 1 = Len(draft)
    BY <1>2, <1>4
  <2>2. Question' = Question
    BY <1>4, <2>1 DEF Question
  <2>. QED
    BY <1>1, <1>3, <2>2 DEF QuestionFits, Limit
<1>. QED
  BY <1>3, <1>6, <1>8, <1>9 DEF ContextInv

LEMMA ContextStep ==
  ASSUME ChatInv, ContextInv, [Next]_vars
  PROVE  ContextInv'
<1>1. ASSUME NEW env, NEW over, Start(env, over) PROVE ContextInv'
  BY <1>1, ContextKept DEF Start
<1>2. ASSUME NEW line \in Lines, Refuse(line) PROVE ContextInv'
  BY <1>2, ContextKept DEF Refuse
<1>3. CASE Submit
  BY <1>3, ContextKept DEF Submit
<1>4. ASSUME NEW call, WorkerEnds(call) PROVE ContextInv'
  BY <1>4, ContextKept DEF WorkerEnds, ContextInv
<1>5. CASE Succeed \/ Fail \/ TimeOut \/ Show \/ Crash \/ Leave
  BY <1>5, ContextKept DEF Succeed, Fail, TimeOut, Show, Crash, Leave
<1>6. CASE UNCHANGED vars
  BY <1>6, ContextKept DEF vars, ContextInv
<1>. QED
  BY <1>1, <1>2, <1>3, <1>4, <1>5, <1>6, AskContext, TrimContext DEF Next, Work
-----------------------------------------------------------------------------
(* The history *)

WithinLimit(m) ==
  m.chars <= IF m.role = "user" THEN Limit("max_message_chars")
                                ELSE Limit("max_response_chars")

HistoryInv ==
  /\ Len(messages) <= HistoryLimit
  /\ \A i \in 1..Len(messages) : WithinLimit(messages[i])

LEMMA SucceedHistory ==
  ASSUME ChatInv, ContextInv, HistoryInv, Succeed
  PROVE  HistoryInv'
<1>. DEFINE said == Message("assistant", Cut(ContentChars(reply.call)))
            more == <<Question, said>>
            all == messages \o more
<1>1. TypesFit /\ TypesFit'
  BY TypesStep DEF ChatInv, Next, Work
<1>2. /\ answer' = [status |-> "ok", asked |-> Question, said |-> said]
      /\ messages' = Newest(all, HistoryLimit) /\ UNCHANGED config
  BY DEF Succeed, Remembered, HistoryLimit
<1>3. Question \in Messages /\ said \in Messages
  <2>. HIDE DEF said
  <2>. QED
    BY <1>1, <1>2 DEF TypesFit
<1>4. WithinLimit(Question)
  BY DEF ContextInv, Succeed, QuestionFits, WithinLimit
<1>5. WithinLimit(said)
  <2>1. said.chars \in Nat /\ said.chars = Cut(ContentChars(reply.call)) /\ said.role = "assistant"
    BY <1>3 DEF Message, Messages
  <2>2. Limit("max_response_chars") \in Nat
    BY <1>1 DEF TypesFit, LimitsFit, Limit
  <2>3. Cut(ContentChars(reply.call)) <= Limit("max_response_chars")
    <3>1. PICK call \in Calls : reply = [result |-> Generate(config, call), call |-> call]
      BY <1>1 DEF Succeed, TypesFit, NoReply, Replies
    <3>2. ParseResponse(call.body) = "success"
      BY <3>1, GenerateResults DEF Succeed
    <3>3. ContentChars(reply.call) \in Nat
      BY <3>1, <3>2, ChatAssumption
    <3>. QED
      BY <2>2, <3>3 DEF Cut
  <2>. QED
    BY <2>1, <2>3 DEF WithinLimit
<1>. HIDE DEF said
<1>6. /\ messages \in Seq(Messages) /\ Len(messages) \in Nat
      /\ more \in Seq(Messages) /\ Len(more) = 2
      /\ more[1] = Question /\ more[2] = said
      /\ HistoryLimit \in Nat
  BY <1>1, <1>3, SizesAreNatural DEF TypesFit, LimitsFit, HistoryLimit, Limit
<1>. HIDE DEF more
<1>7. /\ all \in Seq(Messages) /\ Len(all) = Len(messages) + Len(more)
      /\ \A i \in 1..(Len(messages) + Len(more)) :
           all[i] = IF i <= Len(messages) THEN messages[i] ELSE more[i - Len(messages)]
  BY <1>6, ConcatProperties
<1>8. ASSUME NEW i \in 1..Len(all) PROVE WithinLimit(all[i])
  <2>1. CASE i <= Len(messages)
    <3>1. i \in 1..Len(messages) /\ all[i] = messages[i]
      BY <1>6, <1>7, <2>1
    <3>. QED
      BY <3>1 DEF HistoryInv
  <2>2. CASE ~(i <= Len(messages))
    <3>1. i - Len(messages) \in {1, 2} /\ all[i] = more[i - Len(messages)]
      BY <1>6, <1>7, <2>2
    <3>. QED
      BY <1>4, <1>5, <1>6, <3>1
  <2>. QED
    BY <2>1, <2>2
<1>. HIDE DEF all
<1>9. /\ Len(messages') = IF Len(all) <= HistoryLimit THEN Len(all) ELSE HistoryLimit
      /\ \A i \in 1..Len(messages') : messages'[i] = all[Len(all) - Len(messages') + i]
  BY <1>2, <1>6, <1>7, NewestIsTheEnd
<1>10. /\ Len(messages') <= HistoryLimit
       /\ \A i \in 1..Len(messages') : Len(all) - Len(messages') + i \in 1..Len(all)
  BY <1>6, <1>7, <1>9
<1>11. \A i \in 1..Len(messages') : WithinLimit(messages'[i])
  BY <1>8, <1>9, <1>10
<1>. QED
  BY <1>2, <1>10, <1>11 DEF HistoryInv, WithinLimit, HistoryLimit, Limit

LEMMA HistoryStep ==
  ASSUME ChatInv, ContextInv, HistoryInv, [Next]_vars
  PROVE  HistoryInv'
<1>1. ASSUME NEW env \in Environments, NEW over \in Overrides, Start(env, over)
      PROVE  HistoryInv'
  <2>1. messages' = <<>> /\ Len(messages') = 0
    BY <1>1 DEF Start, ChatInv, MemoryInv
  <2>2. LimitsFit(config')
    BY <1>1, LoadedFits DEF Start, ChatInv, TypesFit
  <2>. QED
    BY <2>1, <2>2 DEF HistoryInv, HistoryLimit, Limit, LimitsFit
<1>2. ASSUME UNCHANGED <<messages, config>> PROVE HistoryInv'
  BY <1>2 DEF HistoryInv, HistoryLimit, Limit, WithinLimit
<1>3. ASSUME NEW line, Refuse(line) \/ Ask(line) PROVE HistoryInv'
  BY <1>2, <1>3 DEF Refuse, Ask
<1>4. ASSUME NEW call, WorkerEnds(call) PROVE HistoryInv'
  BY <1>2, <1>4 DEF WorkerEnds
<1>5. CASE Trim \/ Submit \/ Fail \/ Show \/ TimeOut \/ Crash \/ Leave \/ UNCHANGED vars
  BY <1>2, <1>5 DEF Trim, Submit, Fail, Show, TimeOut, Crash, Leave, vars
<1>. QED
  BY <1>1, <1>3, <1>4, <1>5, SucceedHistory DEF Next, Work

FullInv == ChatInv /\ TypesRest /\ ContextInv /\ HistoryInv

LEMMA FullInvariance == Spec => []FullInv
<1>1. Init => TypesRest
  BY DefaultsFit, ChatAssumption DEF Init, TypesRest, Phases, Statuses, NoAnswer
<1>2. Init => HistoryInv
  <2>. SUFFICES ASSUME Init PROVE HistoryInv
    OBVIOUS
  <2>1. messages = <<>> /\ LimitsFit(config)
    BY DefaultsFit DEF Init
  <2>. QED
    BY <2>1 DEF HistoryInv, HistoryLimit, Limit, LimitsFit
<1>3. FullInv /\ [Next]_vars => FullInv'
  BY TypesStep, MemoryStep, TypesRestStep, ContextStep, HistoryStep DEF FullInv, ChatInv
<1>. QED
  BY <1>1, <1>2, <1>3, InitHolds, ContextInit, PTL DEF Spec, FullInv
-----------------------------------------------------------------------------
(* The theorems *)

\* Every variable has its type; the configuration of a chat passes its checks whichever
\* sources it is put together from, and the running total never falls below zero.
THEOREM TypeCorrect == Spec => []TypeOK
<1>1. FullInv => TypeOK
  <2>. SUFFICES ASSUME FullInv PROVE TypeOK
    OBVIOUS
  <2>1. TypesFit /\ TypesRest /\ total = SumChars(draft)
    BY DEF FullInv, ChatInv, ContextInv
  <2>2. total \in Nat
    BY <2>1, SizesAreNatural DEF TypesFit
  <2>3. reply.result \in GenerationResults \cup {"none"}
    BY <2>1, GenerateResults DEF TypesFit, Replies, NoReply
  <2>. QED
    BY <2>1, <2>2, <2>3 DEF TypeOK, TypesFit, TypesRest, Accepted
<1>. QED
  BY <1>1, FullInvariance, PTL

\* What is sent is the longest end of the history that fits, for every limit and every
\* conversation.
THEOREM ContextCorrect == Spec => []ContextIsTheNewestThatFits
<1>1. FullInv => ContextIsTheNewestThatFits
  <2>. SUFFICES ASSUME FullInv, phase = "waiting" PROVE ContextIsTheNewestThatFits
    BY DEF ContextIsTheNewestThatFits
  <2>. DEFINE end == Newest(messages, Kept)
              prompt == Message("system", Limit("system_prompt"))
              sent == <<prompt>> \o end \o <<Question>>
  <2>1. /\ messages \in Seq(Messages) /\ draft \in Seq(Messages) /\ Len(draft) >= 2
        /\ EndOfTheHistory /\ total = SumChars(draft) /\ ~Overfull
        /\ LimitsFit(config)
    BY DEF FullInv, ChatInv, TypesFit, ContextInv
  <2>2. /\ Len(draft) \in Nat /\ Len(messages) \in Nat /\ SumChars(draft) \in Nat
        /\ Kept \in Nat /\ Kept <= Len(messages) /\ Len(draft) = Kept + 2
    BY <2>1, SizesAreNatural DEF Kept, EndOfTheHistory
  <2>3. /\ end \in Seq(Messages) /\ Len(end) = Kept
        /\ \A i \in 1..Kept : end[i] = messages[Len(messages) - Kept + i]
    <3>1. /\ end \in Seq(Messages)
          /\ Len(end) = IF Len(messages) <= Kept THEN Len(messages) ELSE Kept
          /\ \A i \in 1..Len(end) : end[i] = messages[Len(messages) - Len(end) + i]
      BY <2>1, <2>2, NewestIsTheEnd
    <3>. HIDE DEF end
    <3>2. Len(end) = Kept
      BY <2>2, <3>1
    <3>. QED
      BY <3>1, <3>2
  <2>4. prompt \in Messages /\ Question \in Messages /\ draft[1] = prompt
    <3>1. Len(draft) \in 1..Len(draft) /\ 1 \in 1..Len(draft)
      BY <2>1, <2>2
    <3>. QED
      BY <2>1, <3>1, SizesAreNatural DEF Question, EndOfTheHistory
  <2>. HIDE DEF end, prompt
  <2>5. /\ <<prompt>> \o end \in Seq(Messages) /\ Len(<<prompt>> \o end) = Kept + 1
        /\ \A i \in 1..(Kept + 1) : (<<prompt>> \o end)[i] = draft[i]
    <3>. DEFINE p == <<prompt>>
    <3>1. p \in Seq(Messages) /\ Len(p) = 1 /\ p[1] = prompt
      BY <2>4
    <3>. HIDE DEF p
    <3>2. /\ p \o end \in Seq(Messages) /\ Len(p \o end) = Len(p) + Len(end)
          /\ \A i \in 1..(Len(p) + Len(end)) :
               (p \o end)[i] = IF i <= Len(p) THEN p[i] ELSE end[i - Len(p)]
      BY <2>3, <3>1, ConcatProperties
    <3>3. \A i \in 1..Kept : draft[i + 1] = end[i]
      BY <2>1, <2>3 DEF EndOfTheHistory
    <3>4. ASSUME NEW i \in 1..(Kept + 1) PROVE (p \o end)[i] = draft[i]
      <4>1. CASE i = 1
        BY <2>2, <2>3, <2>4, <3>1, <3>2, <4>1
      <4>2. CASE i # 1
        <5>1. i - 1 \in 1..Kept /\ (i - 1) + 1 = i /\ ~(i <= 1)
          BY <2>2, <4>2
        <5>2. i \in 1..(Len(p) + Len(end))
          BY <2>2, <2>3, <3>1
        <5>3. (p \o end)[i] = end[i - 1]
          BY <3>1, <3>2, <5>1, <5>2
        <5>4. end[i - 1] = draft[(i - 1) + 1]
          BY <3>3, <5>1
        <5>. QED
          BY <5>1, <5>3, <5>4
      <4>. QED
        BY <4>1, <4>2
    <3>. QED
      BY <2>2, <2>3, <3>1, <3>2, <3>4 DEF p
  <2>6. /\ sent \in Seq(Messages) /\ Len(sent) = Len(draft)
        /\ \A i \in 1..Len(draft) : sent[i] = draft[i]
    <3>. DEFINE c == <<prompt>> \o end
                q == <<Question>>
    <3>1. q \in Seq(Messages) /\ Len(q) = 1 /\ q[1] = draft[Len(draft)]
      BY <2>4 DEF Question
    <3>2. /\ c \in Seq(Messages) /\ Len(c) = Kept + 1
          /\ \A i \in 1..(Kept + 1) : c[i] = draft[i]
      BY <2>5
    <3>. HIDE DEF c, q
    <3>3. /\ c \o q \in Seq(Messages) /\ Len(c \o q) = Len(c) + Len(q)
          /\ \A i \in 1..(Len(c) + Len(q)) :
               (c \o q)[i] = IF i <= Len(c) THEN c[i] ELSE q[i - Len(c)]
      BY <3>1, <3>2, ConcatProperties
    <3>4. \A i \in 1..Len(draft) : (c \o q)[i] = draft[i]
      BY <2>2, <3>1, <3>2, <3>3
    <3>5. sent = c \o q
      BY DEF c, q
    <3>6. Len(c \o q) = Len(draft)
      BY <2>2, <3>1, <3>2, <3>3
    <3>. HIDE DEF sent
    <3>. QED
      BY <3>3, <3>4, <3>5, <3>6
  <2>7. draft = sent
    <3>. HIDE DEF sent
    <3>. QED
      BY <2>1, <2>6, SeqEqual
  <2>8. Kept = 0 \/ SumChars(draft) <= ContextLimit
    BY <2>1, <2>2 DEF Overfull, ContextLimit, LimitsFit, Limit
  <2>9. Kept < Len(messages)
          => ~(SumChars(draft) + messages[Len(messages) - Kept].chars <= ContextLimit)
    <3>. SUFFICES ASSUME Kept < Len(messages)
                  PROVE  ~(SumChars(draft) + messages[Len(messages) - Kept].chars <= ContextLimit)
      OBVIOUS
    <3>1. Len(messages) - Kept \in 1..Len(messages)
      BY <2>2
    <3>2. messages[Len(messages) - Kept].chars \in Nat /\ ContextLimit \in Nat
      BY <2>1, <3>1, SizesAreNatural DEF LimitsFit, ContextLimit, Limit
    <3>. QED
      BY <2>1, <2>2, <3>2 DEF EndOfTheHistory
  <2>. QED
    BY <2>7, <2>8, <2>9 DEF ContextIsTheNewestThatFits, Kept, ContextLimit, sent, end, prompt
<1>. QED
  BY <1>1, FullInvariance, PTL

\* The limits hold for everything that is kept and sent, and what is sent exceeds the
\* context limit by no more than the prompt.
THEOREM LimitsCorrect == Spec => []StaysWithinLimits
<1>1. FullInv => StaysWithinLimits
  <2>. SUFFICES ASSUME FullInv PROVE StaysWithinLimits
    OBVIOUS
  <2>1. LimitsFit(config) /\ Accepted(config) /\ HistoryInv /\ draft \in Seq(Messages)
    BY DEF FullInv, ChatInv, TypesFit, TypesRest
  <2>2. ASSUME phase = "waiting"
        PROVE  \/ SumChars(draft) <= ContextLimit
               \/ /\ Len(draft) = 2
                  /\ SumChars(draft) <= ContextLimit + Limit("system_prompt")
    <3>1. /\ EndOfTheHistory /\ QuestionFits /\ ~Overfull /\ total = SumChars(draft)
          /\ Len(draft) >= 2
      BY <2>2 DEF FullInv, ContextInv, ChatInv, TypesFit
    <3>2. Len(draft) \in Nat /\ SumChars(draft) \in Nat
      BY <2>1, SizesAreNatural
    <3>3. CASE total > ContextLimit
      <4>1. Len(draft) = 2
        <5>. DEFINE n == Len(draft)
        <5>1. n >= 2 /\ n \in Nat /\ ~(n > 2)
          BY <3>1, <3>2, <3>3 DEF Overfull, ContextLimit
        <5>. HIDE DEF n
        <5>2. n = 2
          BY <5>1
        <5>. QED
          BY <5>2 DEF n
      <4>2. /\ SumChars(draft) = draft[1].chars + draft[2].chars
            /\ draft[2].chars \in Nat
        <5>1. 2 \in 1..Len(draft)
          BY <4>1
        <5>. QED
          BY <2>1, <4>1, <5>1, SumOfTwo, SizesAreNatural
      <4>3. draft[1].chars = Limit("system_prompt") /\ draft[2].chars <= Limit("max_message_chars")
        BY <3>1, <4>1 DEF EndOfTheHistory, Message, QuestionFits, Question
      <4>4. /\ Limit("max_message_chars") <= ContextLimit
            /\ Limit("system_prompt") \in Nat /\ ContextLimit \in Nat
            /\ Limit("max_message_chars") \in Nat
        BY <2>1 DEF Accepted, LimitsAccepted, LimitsFit, Limit, ContextLimit
      <4>. QED
        BY <4>1, <4>2, <4>3, <4>4
    <3>4. CASE ~(total > ContextLimit)
      <4>1. ContextLimit \in Nat
        BY <2>1 DEF LimitsFit, ContextLimit, Limit
      <4>. QED
        BY <3>1, <3>2, <3>4, <4>1
    <3>. QED
      BY <3>3, <3>4
  <2>. QED
    BY <2>1, <2>2 DEF StaysWithinLimits, HistoryInv, HistoryLimit, WithinLimit, ContextLimit
<1>. QED
  BY <1>1, FullInvariance, PTL
=============================================================================
