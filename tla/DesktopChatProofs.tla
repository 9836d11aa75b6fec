-------------------------- MODULE DesktopChatProofs --------------------------
(***************************************************************************)
(* Theorems about DesktopChat, for every environment, every limit, every   *)
(* line that is typed and every answer of Ollama: the configuration, the   *)
(* memory and the answers.  DesktopChatContextProofs adds the context.     *)
(***************************************************************************)
EXTENDS DesktopChatProperties, SequenceTheorems, TLAPS
-----------------------------------------------------------------------------
(* The end of a sequence *)

LEMMA NewestIsTheEnd ==
  ASSUME NEW seq \in Seq(Messages), NEW k \in Nat
  PROVE  LET s == Newest(seq, k)
         IN  /\ s \in Seq(Messages)
             /\ Len(s) = IF Len(seq) <= k THEN Len(seq) ELSE k
             /\ \A i \in 1..Len(s) : s[i] = seq[Len(seq) - Len(s) + i]
<1>. DEFINE s == SubSeq(seq, Len(seq) - k + 1, Len(seq))
<1>1. Len(seq) \in Nat /\ \A i \in 1..Len(seq) : seq[i] \in Messages
  BY LenProperties
<1>2. CASE Len(seq) <= k
  BY <1>1, <1>2 DEF Newest
<1>3. CASE ~(Len(seq) <= k)
  <2>1. Newest(seq, k) = s
    BY <1>3 DEF Newest
  <2>2. /\ s \in Seq(Messages)
        /\ Len(s) = IF Len(seq) - k + 1 <= Len(seq) THEN Len(seq) - (Len(seq) - k + 1) + 1 ELSE 0
        /\ \A i \in 1..(Len(seq) - (Len(seq) - k + 1) + 1) :
             s[i] = seq[(Len(seq) - k + 1) + i - 1]
    <3>1. \A i \in (Len(seq) - k + 1)..Len(seq) : seq[i] \in Messages
      BY <1>1, <1>3
    <3>2. Len(seq) - k + 1 \in Int /\ Len(seq) \in Int
      BY <1>1
    <3>. QED
      BY <3>1, <3>2, SubSeqProperties
  <2>. HIDE DEF s
  <2>3. Len(s) = k
    BY <1>1, <1>3, <2>2
  <2>4. \A i \in 1..k : s[i] = seq[Len(seq) - k + i]
    BY <1>1, <1>3, <2>2
  <2>. QED
    BY <1>3, <2>1, <2>2, <2>3, <2>4
<1>. QED
  BY <1>2, <1>3

\* Trimming before more is added loses nothing that would be kept.
LEMMA NewestOfNewest ==
  ASSUME NEW s \in Seq(Messages), NEW t \in Seq(Messages), NEW k \in Nat
  PROVE  Newest(Newest(s, k) \o t, k) = Newest(s \o t, k)
<1>. DEFINE r == Newest(s, k)
            a == r \o t
            b == s \o t
            x == Newest(a, k)
            y == Newest(b, k)
<1>1. /\ r \in Seq(Messages)
      /\ Len(r) = IF Len(s) <= k THEN Len(s) ELSE k
      /\ \A i \in 1..Len(r) : r[i] = s[Len(s) - Len(r) + i]
  BY NewestIsTheEnd
<1>2. Len(s) \in Nat /\ Len(t) \in Nat
  BY LenProperties
<1>. HIDE DEF r
<1>3. /\ a \in Seq(Messages) /\ Len(a) = Len(r) + Len(t)
      /\ \A i \in 1..(Len(r) + Len(t)) : a[i] = IF i <= Len(r) THEN r[i] ELSE t[i - Len(r)]
  BY <1>1, ConcatProperties
<1>4. /\ b \in Seq(Messages) /\ Len(b) = Len(s) + Len(t)
      /\ \A i \in 1..(Len(s) + Len(t)) : b[i] = IF i <= Len(s) THEN s[i] ELSE t[i - Len(s)]
  BY ConcatProperties
<1>. HIDE DEF a, b
<1>5. /\ x \in Seq(Messages) /\ Len(x) = IF Len(a) <= k THEN Len(a) ELSE k
      /\ \A i \in 1..Len(x) : x[i] = a[Len(a) - Len(x) + i]
  BY <1>3, NewestIsTheEnd
<1>6. /\ y \in Seq(Messages) /\ Len(y) = IF Len(b) <= k THEN Len(b) ELSE k
      /\ \A i \in 1..Len(y) : y[i] = b[Len(b) - Len(y) + i]
  BY <1>4, NewestIsTheEnd
<1>. HIDE DEF x, y
<1>7. Len(x) = Len(y) /\ Len(x) <= Len(a) /\ Len(r) <= Len(s)
  BY <1>1, <1>2, <1>3, <1>4, <1>5, <1>6
<1>8. ASSUME NEW i \in 1..Len(x) PROVE x[i] = y[i]
  <2>. DEFINE j == Len(a) - Len(x) + i
              m == Len(b) - Len(y) + i
  <2>1. Len(x) \in Nat /\ Len(a) \in Nat /\ Len(b) \in Nat /\ Len(r) \in Nat
    BY <1>1, <1>2, <1>3, <1>4, <1>5
  <2>2. j \in 1..(Len(r) + Len(t)) /\ m \in 1..(Len(s) + Len(t)) /\ m = j + (Len(s) - Len(r))
    BY <1>2, <1>3, <1>4, <1>7, <2>1
  <2>3. x[i] = a[j] /\ y[i] = b[m]
    BY <1>5, <1>6, <1>7
  <2>. HIDE DEF j, m
  <2>4. CASE j <= Len(r)
    <3>1. a[j] = r[j] /\ j \in 1..Len(r)
      BY <1>3, <2>1, <2>2, <2>4
    <3>2. r[j] = s[Len(s) - Len(r) + j]
      BY <1>1, <3>1
    <3>3. m <= Len(s) /\ m = Len(s) - Len(r) + j
      BY <1>2, <2>1, <2>2, <2>4
    <3>4. b[m] = s[m]
      BY <1>4, <2>2, <3>3
    <3>. QED
      BY <2>3, <3>1, <3>2, <3>3, <3>4
  <2>5. CASE ~(j <= Len(r))
    <3>1. a[j] = t[j - Len(r)]
      BY <1>3, <2>2, <2>5
    <3>2. ~(m <= Len(s)) /\ m - Len(s) = j - Len(r)
      BY <1>2, <2>1, <2>2, <2>5
    <3>3. b[m] = t[m - Len(s)]
      BY <1>4, <2>2, <3>2
    <3>. QED
      BY <2>3, <3>1, <3>2, <3>3
  <2>. QED
    BY <2>4, <2>5
<1>9. x = y
  BY <1>5, <1>6, <1>7, <1>8, SeqEqual
<1>. QED
  BY <1>9 DEF x, y, a, b, r
-----------------------------------------------------------------------------
(* The configuration *)

LEMMA Sources ==
  ASSUME NEW env, NEW over, NEW name \in SettingNames
  PROVE  /\ Loaded(env, over)[name] =
              IF name \in DOMAIN over THEN over[name] ELSE Above(env, Defaults)[name]
         /\ Above(env, Defaults)[name] =
              IF name \in DOMAIN env THEN env[name] ELSE Defaults[name]
         /\ name \in DOMAIN over => Above(over, Defaults)[name] = over[name]
BY DEF Loaded, Above

Accepted(c) ==
  DOMAIN c = SettingNames /\ Parses(c) /\ OllamaAccepted(c) /\ LimitsAccepted(c)

LimitsFit(c) ==
  /\ c["max_message_chars"].value \in Nat
  /\ c["max_history_messages"].value \in Nat
  /\ c["max_context_chars"].value \in Nat
  /\ c["max_response_chars"].value \in Nat
  /\ c["system_prompt"].value \in Nat

LEMMA NamesOfSettings ==
  /\ \A name \in {"max_message_chars", "max_history_messages", "max_context_chars",
                  "max_response_chars", "max_concurrent_generations"} :
       name \in LimitNames
  /\ \A name \in {"endpoint", "model"} \cup TimeoutNames : name \in OllamaNames
  /\ "system_prompt" \in SettingNames
  /\ LimitNames \subseteq SettingNames /\ OllamaNames \subseteq SettingNames
BY DEF SettingNames, OllamaNames, TimeoutNames, LimitNames

LEMMA DefaultsFit == Accepted(Defaults) /\ LimitsFit(Defaults)
<1>1. DOMAIN Defaults = SettingNames
  BY DEF Defaults, SettingNames, OllamaNames, TimeoutNames, LimitNames
<1>2. Parses(Defaults)
  BY DEF Defaults, Parses, LimitNames, TimeoutNames, Number, Text
<1>3. OllamaAccepted(Defaults)
  BY DEF Defaults, OllamaAccepted, TimeoutNames, Number, Text
<1>4. LimitsAccepted(Defaults) /\ LimitsFit(Defaults)
  BY DEF Defaults, LimitsAccepted, LimitsFit, Number, Text
<1>. QED
  BY <1>1, <1>2, <1>3, <1>4 DEF Accepted

\* An override replaces all the limits or none of them, and all that is about Ollama or
\* nothing, so each group comes from one source whose checks accepted it.
LEMMA GroupsComeWhole ==
  ASSUME NEW env \in Environments, NEW over \in Overrides, Loads(env, over)
  PROVE  /\ \E s \in {Above(env, Defaults), Above(over, Defaults)} :
              /\ Parses(s) /\ LimitsAccepted(s)
              /\ \A name \in LimitNames : Loaded(env, over)[name] = s[name]
         /\ \E s \in {Above(env, Defaults), Above(over, Defaults)} :
              /\ Parses(s) /\ OllamaAccepted(s)
              /\ \A name \in OllamaNames : Loaded(env, over)[name] = s[name]
<1>1. Parses(Above(env, Defaults)) /\ LimitsAccepted(Above(env, Defaults))
      /\ OllamaAccepted(Above(env, Defaults))
  BY DEF Loads
<1>2. /\ DOMAIN over \cap OllamaNames \in {{}, OllamaNames}
      /\ DOMAIN over \cap LimitNames \in {{}, LimitNames}
      /\ Parses(Above(over, Defaults)) /\ LimitsAccepted(Above(over, Defaults))
      /\ OllamaAccepted(Above(over, Defaults))
  BY ChatAssumption DEF IsOverride
<1>3. \A name \in LimitNames \cup OllamaNames :
        Loaded(env, over)[name] = IF name \in DOMAIN over THEN Above(over, Defaults)[name]
                                                          ELSE Above(env, Defaults)[name]
  BY NamesOfSettings, Sources
<1>4. \E s \in {Above(env, Defaults), Above(over, Defaults)} :
        /\ Parses(s) /\ LimitsAccepted(s)
        /\ \A name \in LimitNames : Loaded(env, over)[name] = s[name]
  <2>1. CASE DOMAIN over \cap LimitNames = {}
    BY <1>1, <1>3, <2>1
  <2>2. CASE DOMAIN over \cap LimitNames = LimitNames
    BY <1>2, <1>3, <2>2
  <2>. QED
    BY <1>2, <2>1, <2>2
<1>5. \E s \in {Above(env, Defaults), Above(over, Defaults)} :
        /\ Parses(s) /\ OllamaAccepted(s)
        /\ \A name \in OllamaNames : Loaded(env, over)[name] = s[name]
  <2>1. CASE DOMAIN over \cap OllamaNames = {}
    BY <1>1, <1>3, <2>1
  <2>2. CASE DOMAIN over \cap OllamaNames = OllamaNames
    BY <1>2, <1>3, <2>2
  <2>. QED
    BY <1>2, <2>1, <2>2
<1>. QED
  BY <1>4, <1>5

\* The checks hold for what load_config returns, whichever source its settings come from,
\* also the one that relates two of them, and leave natural numbers for the limits.
LEMMA LoadedFits ==
  ASSUME NEW env \in Environments, NEW over \in Overrides, Loads(env, over)
  PROVE  Accepted(Loaded(env, over)) /\ LimitsFit(Loaded(env, over))
<1>. DEFINE c == Loaded(env, over)
<1>1. DOMAIN c = SettingNames
  BY DEF Loaded, Above
<1>2. PICK s \in {Above(env, Defaults), Above(over, Defaults)} :
        /\ Parses(s) /\ LimitsAccepted(s)
        /\ \A name \in LimitNames : c[name] = s[name]
  BY GroupsComeWhole
<1>3. PICK t \in {Above(env, Defaults), Above(over, Defaults)} :
        /\ Parses(t) /\ OllamaAccepted(t)
        /\ \A name \in OllamaNames : c[name] = t[name]
  BY GroupsComeWhole
<1>4. \A name \in SettingNames : c[name] \in Values
  <2>1. \A name \in SettingNames : Defaults[name] \in Values
    BY DEF Defaults, Values, Number, Text, SettingNames, OllamaNames, TimeoutNames, LimitNames
  <2>. QED
    BY <2>1, Sources, ChatAssumption
<1>5. c["system_prompt"].kind = "text"
  BY NamesOfSettings, Sources, ChatAssumption DEF Defaults, Text
<1>. HIDE DEF c
<1>6. LimitsAccepted(c)
  BY <1>2, NamesOfSettings DEF LimitsAccepted
<1>7. OllamaAccepted(c)
  BY <1>3, NamesOfSettings DEF OllamaAccepted
<1>8. Parses(c)
  BY <1>2, <1>3, NamesOfSettings DEF Parses
<1>9. c["system_prompt"].value \in Nat
  BY <1>4, <1>5, NamesOfSettings DEF Values
<1>10. \A name \in LimitNames : c[name].value \in Int
  BY <1>4, NamesOfSettings DEF Values
<1>11. /\ c["max_message_chars"].value \in Nat /\ c["max_history_messages"].value \in Nat
       /\ c["max_context_chars"].value \in Nat /\ c["max_response_chars"].value \in Nat
  BY <1>6, <1>10, NamesOfSettings DEF LimitsAccepted
<1>. QED
  BY <1>1, <1>6, <1>7, <1>8, <1>9, <1>11 DEF Accepted, LimitsFit, c
-----------------------------------------------------------------------------
(* The memory *)

\* What a call becomes, and when that is an answer.
LEMMA GenerateResults ==
  ASSUME NEW call \in Calls
  PROVE  /\ Generate(config, call) \in GenerationResults
         /\ Generate(config, call) = "success" <=>
              /\ Transport(config, call) = "body"
              /\ call.body.type \notin {"not_json", "too_deep"}
              /\ ParseResponse(call.body) = "success"
<1>. DEFINE kind == Transport(config, call)
            parsed == ParseResponse(call.body)
<1>1. kind \in {"generation_timeout", "unavailable", "http", "unexpected", "body"}
  BY DEF Transport
<1>2. parsed \in {"invalid_result", "provider_unavailable", "success"}
  BY DEF ParseResponse
<1>3. Generate(config, call) =
        IF kind # "body" THEN TransportFailure(kind)
        ELSE IF call.body.type = "not_json" THEN "invalid_result"
        ELSE IF call.body.type = "too_deep" THEN "raised"
        ELSE parsed
  BY DEF Generate
<1>. HIDE DEF kind, parsed
<1>4. kind # "body" => TransportFailure(kind) \in {"timeout", "provider_unavailable", "protocol_error"}
  BY <1>1 DEF TransportFailure
<1>5. /\ Generate(config, call) \in GenerationResults
      /\ Generate(config, call) = "success" <=>
           kind = "body" /\ call.body.type \notin {"not_json", "too_deep"} /\ parsed = "success"
  BY <1>2, <1>3, <1>4 DEF GenerationResults
<1>. QED
  BY <1>5 DEF kind, parsed

HistoryLimit == Limit("max_history_messages")

Replies == {[result |-> Generate(config, call), call |-> call] : call \in Calls}

TypesFit ==
  /\ LimitsFit(config)
  /\ messages \in Seq(Messages) /\ screen \in Seq(Messages) /\ draft \in Seq(Messages)
  /\ phase \in {"trimming", "waiting"} => Len(draft) >= 2
  /\ reply \in {NoReply} \cup Replies
  /\ phase = "start" => reply = NoReply
  /\ answer.status = "ok" => answer.asked \in Messages /\ answer.said \in Messages

\* While the newest answer is still to be shown, the memory is ahead of the screen by
\* one turn.
Ahead == phase = "showing" /\ answer.status = "ok"
Shown == IF Ahead THEN screen \o <<answer.asked, answer.said>> ELSE screen

MemoryInv ==
  /\ phase = "start" => messages = <<>> /\ screen = <<>>
  /\ phase \notin {"over", "crashed"} => messages = Newest(Shown, HistoryLimit)

ChatInv == TypesFit /\ MemoryInv

LEMMA InitHolds == Init => ChatInv
<1>. SUFFICES ASSUME Init PROVE ChatInv
  OBVIOUS
<1>1. LimitsFit(config)
  BY DefaultsFit DEF Init
<1>2. TypesFit
  BY <1>1 DEF Init, TypesFit, NoAnswer
<1>3. Newest(<<>>, HistoryLimit) = <<>>
  BY <1>1 DEF Newest, LimitsFit, HistoryLimit, Limit
<1>4. MemoryInv
  BY <1>3 DEF Init, MemoryInv, Shown, Ahead, NoAnswer
<1>. QED
  BY <1>2, <1>4 DEF ChatInv

LEMMA TypesStep ==
  ASSUME ChatInv, [Next]_vars
  PROVE  TypesFit'
<1>0. TypesFit
  BY DEF ChatInv
<1>1. ASSUME NEW env \in Environments, NEW over \in Overrides, Start(env, over)
      PROVE  TypesFit'
  <2>1. LimitsFit(config')
    BY <1>0, <1>1, LoadedFits DEF Start, TypesFit
  <2>2. reply' \in {NoReply} \cup Replies'
    BY <1>0, <1>1 DEF Start, TypesFit, Replies
  <2>. QED
    BY <1>0, <1>1, <2>1, <2>2 DEF Start, TypesFit
<1>2. ASSUME NEW line \in Lines, Ask(line) PROVE TypesFit'
  <2>. DEFINE prompt == <<Message("system", Limit("system_prompt"))>>
              asked == <<Message("user", line.chars)>>
  <2>1. prompt \in Seq(Messages) /\ asked \in Seq(Messages) /\ Len(prompt) = 1 /\ Len(asked) = 1
    BY <1>0, ChatAssumption DEF TypesFit, LimitsFit, Limit, Message, Messages
  <2>2. draft' = prompt \o messages \o asked
    BY <1>2 DEF Ask
  <2>. HIDE DEF prompt, asked
  <2>3. prompt \o messages \in Seq(Messages) /\ Len(prompt \o messages) >= 1
    BY <1>0, <2>1, ConcatProperties, LenProperties DEF TypesFit
  <2>4. draft' \in Seq(Messages) /\ Len(draft') >= 2
    BY <2>1, <2>2, <2>3, ConcatProperties, LenProperties
  <2>. QED
    BY <1>0, <1>2, <2>4 DEF Ask, TypesFit, Replies
<1>3. CASE Trim
  <2>1. Len(draft) \in Nat /\ Len(draft) > 2
    BY <1>0, <1>3, LenProperties DEF Trim, Overfull, TypesFit
  <2>. DEFINE a == SubSeq(draft, 1, 1)
              b == SubSeq(draft, 3, Len(draft))
  <2>2. \A i \in 1..Len(draft) : draft[i] \in Messages
    BY <1>0, LenProperties DEF TypesFit
  <2>3. a \in Seq(Messages) /\ Len(a) = 1
    <3>1. \A i \in 1..1 : draft[i] \in Messages
      BY <2>1, <2>2
    <3>. QED
      BY <3>1, SubSeqProperties
  <2>4. b \in Seq(Messages) /\ Len(b) >= 1
    <3>1. \A i \in 3..Len(draft) : draft[i] \in Messages
      BY <2>1, <2>2
    <3>2. b \in Seq(Messages) /\ Len(b) = IF 3 <= Len(draft) THEN Len(draft) - 3 + 1 ELSE 0
      BY <2>1, <3>1, SubSeqProperties
    <3>. QED
      BY <2>1, <3>2
  <2>5. draft' = a \o b
    BY <1>3 DEF Trim, RemoveAt
  <2>. HIDE DEF a, b
  <2>6. draft' \in Seq(Messages) /\ Len(draft') >= 2
    BY <2>3, <2>4, <2>5, ConcatProperties, LenProperties
  <2>. QED
    BY <1>0, <1>3, <2>6 DEF Trim, TypesFit, Replies
<1>4. CASE Submit
  BY <1>0, <1>4 DEF Submit, TypesFit, Replies
<1>5. ASSUME NEW call \in Calls, WorkerEnds(call) PROVE TypesFit'
  BY <1>0, <1>5 DEF WorkerEnds, TypesFit, Replies
<1>6. CASE Succeed
  <2>1. PICK call \in Calls : reply = [result |-> Generate(config, call), call |-> call]
    BY <1>0, <1>6 DEF Succeed, TypesFit, NoReply, Replies
  <2>2. ParseResponse(call.body) = "success"
    BY <1>6, <2>1, GenerateResults DEF Succeed
  <2>3. ContentChars(reply.call) \in Nat
    BY <2>1, <2>2, ChatAssumption
  <2>4. Message("assistant", Cut(ContentChars(reply.call))) \in Messages
    BY <1>0, <2>3 DEF Message, Cut, Messages, TypesFit, LimitsFit, Limit
  <2>5. Question \in Messages
    BY <1>0, <1>6, LenProperties DEF Question, Succeed, TypesFit
  <2>. DEFINE said == Message("assistant", Cut(ContentChars(reply.call)))
  <2>6. answer' = [status |-> "ok", asked |-> Question, said |-> said]
        /\ messages' = Newest(messages \o <<Question, said>>, HistoryLimit)
    BY <1>6 DEF Succeed, Remembered, HistoryLimit
  <2>. HIDE DEF said
  <2>7. messages \o <<Question, said>> \in Seq(Messages)
    BY <1>0, <2>4, <2>5, ConcatProperties DEF TypesFit, said
  <2>8. messages' \in Seq(Messages)
    BY <1>0, <2>6, <2>7, NewestIsTheEnd DEF TypesFit, LimitsFit, HistoryLimit, Limit
  <2>. QED
    BY <1>0, <1>6, <2>4, <2>5, <2>6, <2>8 DEF Succeed, TypesFit, Replies, said
<1>7. CASE Show
  <2>1. screen' \in Seq(Messages)
    BY <1>0, <1>7, ConcatProperties DEF Show, TypesFit
  <2>. QED
    BY <1>0, <1>7, <2>1 DEF Show, TypesFit, Replies
<1>8. CASE Fail
  <2>1. reply.result \in GenerationResults \ {"success"}
    BY <1>0, <1>8, GenerateResults DEF Fail, TypesFit, Replies, NoReply
  <2>2. StatusOf(reply.result) # "ok"
    BY <2>1 DEF StatusOf, GenerationResults
  <2>. QED
    BY <1>0, <1>8, <2>2 DEF Fail, TypesFit, Replies
<1>9. CASE TimeOut \/ Crash \/ Leave \/ UNCHANGED vars
  BY <1>0, <1>9 DEF TimeOut, Crash, Leave, vars, TypesFit, Replies
<1>10. ASSUME NEW line \in Lines, Refuse(line) PROVE TypesFit'
  BY <1>0, <1>10 DEF Refuse, TypesFit, Replies
<1>. QED
  BY <1>1, <1>2, <1>3, <1>4, <1>5, <1>6, <1>7, <1>8, <1>9, <1>10 DEF Next, Work

LEMMA MemoryStep ==
  ASSUME ChatInv, [Next]_vars
  PROVE  MemoryInv'
<1>0. TypesFit /\ MemoryInv
  BY DEF ChatInv
<1>1. ASSUME NEW env \in Environments, NEW over \in Overrides, Start(env, over)
      PROVE  MemoryInv'
  <2>1. messages' = <<>> /\ screen' = <<>> /\ phase' \in {"reading", "crashed"}
    BY <1>0, <1>1 DEF Start, MemoryInv
  <2>2. phase' = "reading" => LimitsFit(config')
    BY <1>1, LoadedFits DEF Start
  <2>3. phase' = "reading" => Newest(<<>>, HistoryLimit') = <<>>
    BY <2>2 DEF Newest, LimitsFit, HistoryLimit, Limit
  <2>4. phase' = "reading" => Shown' = <<>>
    BY <2>1 DEF Shown, Ahead
  <2>. QED
    BY <2>1, <2>3, <2>4 DEF MemoryInv
\* Steps that leave memory and screen alone, on the way from a line to its answer.
<1>2. ASSUME UNCHANGED <<config, messages, screen>>, phase' # "start",
             phase \notin {"over", "crashed"} \/ phase' \in {"over", "crashed"}, ~Ahead,
             phase' \notin {"over", "crashed"} => ~Ahead'
      PROVE  MemoryInv'
  BY <1>0, <1>2 DEF MemoryInv, Shown, HistoryLimit, Limit
<1>3. ASSUME NEW line \in Lines, Refuse(line) \/ Ask(line) PROVE MemoryInv'
  BY <1>2, <1>3 DEF Refuse, Ask, Ahead
<1>4. Trim \/ Submit => MemoryInv'
  BY <1>2 DEF Trim, Submit, Ahead
<1>5. ASSUME NEW call \in Calls, WorkerEnds(call) PROVE MemoryInv'
  BY <1>2, <1>5 DEF WorkerEnds, Ahead
<1>6. CASE Succeed
  <2>. DEFINE said == Message("assistant", Cut(ContentChars(reply.call)))
              more == <<Question, said>>
  <2>1. /\ answer' = [status |-> "ok", asked |-> Question, said |-> said]
        /\ messages' = Newest(messages \o more, HistoryLimit)
        /\ phase' = "showing" /\ UNCHANGED <<config, screen>>
    BY <1>6 DEF Succeed, Remembered, HistoryLimit
  <2>2. TypesFit'
    BY TypesStep, <1>6 DEF Next, Work
  <2>. HIDE DEF said
  <2>3. more \in Seq(Messages)
    BY <2>1, <2>2 DEF TypesFit
  <2>4. Shown' = screen \o more
    BY <2>1 DEF Shown, Ahead
  <2>. HIDE DEF more
  <2>5. messages = Newest(screen, HistoryLimit)
    BY <1>0, <1>6 DEF MemoryInv, Succeed, Shown, Ahead
  <2>6. screen \in Seq(Messages) /\ HistoryLimit \in Nat /\ HistoryLimit' = HistoryLimit
    BY <1>0, <2>1 DEF TypesFit, LimitsFit, HistoryLimit, Limit
  <2>7. messages' = Newest(screen \o more, HistoryLimit)
    BY <2>1, <2>3, <2>5, <2>6, NewestOfNewest
  <2>. QED
    BY <2>1, <2>4, <2>6, <2>7 DEF MemoryInv
<1>7. CASE Show
  <2>1. Shown' = Shown
    BY <1>7 DEF Show, Shown, Ahead
  <2>. QED
    BY <1>0, <1>7, <2>1 DEF Show, MemoryInv, HistoryLimit, Limit
<1>8. CASE Fail
  <2>1. reply.result \in GenerationResults \ {"success"}
    BY <1>0, <1>8, GenerateResults DEF Fail, TypesFit, Replies, NoReply
  <2>2. StatusOf(reply.result) # "ok"
    BY <2>1 DEF StatusOf, GenerationResults
  <2>. QED
    BY <1>2, <1>8, <2>2 DEF Fail, Ahead
<1>9. CASE TimeOut
  BY <1>2, <1>9 DEF TimeOut, CanTimeOut, Ahead
<1>10. CASE Crash \/ Leave
  BY <1>10 DEF Crash, Leave, MemoryInv
<1>11. CASE UNCHANGED vars
  BY <1>0, <1>11 DEF vars, MemoryInv, Shown, Ahead, HistoryLimit, Limit
<1>. QED
  BY <1>1, <1>3, <1>4, <1>5, <1>6, <1>7, <1>8, <1>9, <1>10, <1>11 DEF Next, Work

LEMMA ChatInvariance == Spec => []ChatInv
<1>1. ChatInv /\ [Next]_vars => ChatInv'
  BY TypesStep, MemoryStep DEF ChatInv
<1>. QED
  BY <1>1, InitHolds, PTL DEF Spec

\* The model's memory is the end of the screen whenever a line is read, for every limit
\* on the history and every length of the chat.
THEOREM MemoryCorrect == Spec => []MemoryIsTheEndOfTheScreen
<1>1. ChatInv => MemoryIsTheEndOfTheScreen
  BY DEF ChatInv, MemoryInv, MemoryIsTheEndOfTheScreen, Shown, Ahead, HistoryLimit
<1>. QED
  BY <1>1, ChatInvariance, PTL
-----------------------------------------------------------------------------
(* The answers *)

\* The success of a call, read off the connection and the body.
LEMMA SuccessIsWhole ==
  ASSUME NEW call \in Calls
  PROVE  Generate(config, call) = "success" <=>
           /\ Usable(config.connect_timeout) /\ Usable(config.generation_timeout)
           /\ IsWhole(call)
<1>1. Transport(config, call) = "body" <=>
        /\ Usable(config.connect_timeout) /\ Usable(config.generation_timeout)
        /\ call.connection = "up" /\ call.exchange = "answered" /\ call.status < 400
  BY ChatAssumption DEF Transport
<1>2. /\ call.body.type \notin {"not_json", "too_deep"}
      /\ ParseResponse(call.body) = "success"
      <=> /\ call.body.type = "object"
          /\ "error" \notin DOMAIN call.body.members
          /\ HasMember(call.body, "message", "object")
          /\ HasMember(call.body.members.message, "content", "string")
  BY DEF ParseResponse
<1>. QED
  BY <1>1, <1>2, GenerateResults DEF IsWhole

\* An answer that is shown was cut from the reply the worker had.
AnswerInv ==
  phase = "showing" /\ answer.status = "ok" =>
    /\ reply # NoReply /\ reply.result = "success"
    /\ answer.said.chars <= ContentChars(reply.call)

LEMMA AnswerStep ==
  ASSUME ChatInv, AnswerInv, [Next]_vars
  PROVE  AnswerInv'
<1>0. TypesFit
  BY DEF ChatInv
<1>1. phase' # "showing" => AnswerInv'
  BY DEF AnswerInv
<1>2. CASE Succeed
  <2>. DEFINE chars == ContentChars(reply.call)
  <2>1. PICK call \in Calls : reply = [result |-> Generate(config, call), call |-> call]
    BY <1>0, <1>2 DEF Succeed, TypesFit, NoReply, Replies
  <2>2. ParseResponse(call.body) = "success"
    BY <1>2, <2>1, GenerateResults DEF Succeed
  <2>3. chars \in Int /\ Limit("max_response_chars") \in Int
    BY <1>0, <2>1, <2>2, ChatAssumption DEF TypesFit, LimitsFit, Limit
  <2>4. answer'.said.chars = Cut(chars) /\ UNCHANGED reply
    BY <1>2 DEF Succeed, Message
  <2>. HIDE DEF chars
  <2>5. answer'.said.chars <= chars
    BY <2>3, <2>4 DEF Cut
  <2>6. reply # NoReply /\ reply.result = "success"
    BY <1>2 DEF Succeed, NoReply
  <2>. QED
    BY <2>4, <2>5, <2>6 DEF AnswerInv, chars
<1>3. CASE Fail
  <2>1. reply.result \in GenerationResults \ {"success"}
    BY <1>0, <1>3, GenerateResults DEF Fail, TypesFit, Replies, NoReply
  <2>2. StatusOf(reply.result) # "ok"
    BY <2>1 DEF StatusOf, GenerationResults
  <2>. QED
    BY <1>3, <2>2 DEF Fail, AnswerInv
<1>4. ASSUME NEW line \in Lines, Refuse(line) PROVE AnswerInv'
  BY <1>4 DEF Refuse, AnswerInv
<1>5. CASE TimeOut
  BY <1>5 DEF TimeOut, AnswerInv
<1>6. CASE UNCHANGED vars
  BY <1>6 DEF vars, AnswerInv, ContentChars
<1>7. Trim \/ Submit \/ Show \/ Crash \/ Leave => phase' # "showing"
  BY DEF Trim, Submit, Show, Crash, Leave
<1>8. /\ \A env, over : Start(env, over) => phase' # "showing"
      /\ \A line : Ask(line) => phase' # "showing"
      /\ \A call : WorkerEnds(call) => phase' # "showing"
  BY DEF Start, Ask, WorkerEnds
<1>. QED
  BY <1>1, <1>2, <1>3, <1>4, <1>5, <1>6, <1>7, <1>8 DEF Next, Work

\* Only a complete reply without an error becomes an answer, for every reply Ollama may
\* give and every configuration, and none that is complete is lost by the worker.
THEOREM AnswersCorrect == Spec => []OnlyWholeRepliesAreAnswers
<1>1. Init => AnswerInv
  BY DEF Init, AnswerInv
<1>2. ChatInv /\ AnswerInv /\ [Next]_vars => AnswerInv'
  BY AnswerStep
<1>3. ChatInv /\ AnswerInv => OnlyWholeRepliesAreAnswers
  <2>. SUFFICES ASSUME ChatInv, AnswerInv PROVE OnlyWholeRepliesAreAnswers
    OBVIOUS
  <2>1. ASSUME reply # NoReply
        PROVE  reply.result = "success" <=>
                 /\ Usable(config.connect_timeout) /\ Usable(config.generation_timeout)
                 /\ IsWhole(reply.call)
    <3>1. PICK call \in Calls : reply = [result |-> Generate(config, call), call |-> call]
      BY <2>1 DEF ChatInv, TypesFit, Replies
    <3>. QED
      BY <3>1, SuccessIsWhole
  <2>. QED
    BY <2>1 DEF AnswerInv, OnlyWholeRepliesAreAnswers
<1>. QED
  BY <1>1, <1>2, <1>3, ChatInvariance, PTL DEF Spec
=============================================================================
